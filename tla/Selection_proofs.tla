--------------------------- MODULE Selection_proofs ---------------------------
(***************************************************************************)
(* selectDeviceIDs finds devices exactly when there are some, for any      *)
(* number of devices, any policy and any count, and the score agrees with  *)
(* it.  Each search has an invariant: SearchRight says what the            *)
(* depth-first search for a clique returns for the last k candidates;      *)
(* Searching, Hanging and Seen hold after every round of the breadth-first *)
(* search.                                                                 *)
(***************************************************************************)
EXTENDS Snapshot_proofs

-------------------------------------------------------------------------------
\* Groups of devices.

\* count different devices of the list.
Choice(selected, devices, count) ==
  /\ selected \in [1..count -> IDs(devices)]
  /\ Distinct(selected)

\* A choice of count devices is a combination of that size.
LEMMA ChoiceIsSubset ==
  ASSUME NEW devices, NEW count \in Nat \ {0}, NEW selected, Choice(selected, devices, count)
  PROVE  /\ selected # <<>> /\ Len(selected) = count
         /\ selected \in Seq(IDs(devices))
         /\ Range(selected) \in kSubset(count, IDs(devices))
<1>1. selected \in [1..count -> IDs(devices)] /\ Distinct(selected)
  BY DEF Choice
<1>2. Len(selected) = count /\ selected # <<>> /\ selected \in Seq(IDs(devices))
  BY <1>1
<1>3. Range(selected) \subseteq IDs(devices) /\ Cardinality(Range(selected)) = count
  BY <1>1, RangeCardinality
<1> QED BY <1>2, <1>3 DEF kSubset

\* There are as many IDs as devices, and no larger combination.
LEMMA IDsOfListed ==
  ASSUME NEW devices, NEW m, Listed(devices, m)
  PROVE  /\ IsFiniteSet(IDs(devices)) /\ Cardinality(IDs(devices)) = m
         /\ IDs(devices) \subseteq Nat
         /\ \A count \in Int : \A S \in kSubset(count, IDs(devices)) :
              count <= m /\ IsFiniteSet(S) /\ S \subseteq IDs(devices) /\ Cardinality(S) = count
<1> DEFINE f == [k \in 1..m |-> devices[k].id]
           Q == IDs(devices)
<1>1. /\ m \in Nat /\ \A k \in 1..m : devices[k].id \in Nat
      /\ \A k, l \in 1..m : devices[k].id = devices[l].id => k = l
      /\ Q = {devices[k].id : k \in 1..m}
  BY ListedFacts
<1>2. f \in [1..m -> Nat] /\ Distinct(f)
  BY <1>1 DEF Distinct
<1>3. Range(f) = Q
  BY <1>1 DEF Range
<1> HIDE DEF f, Q
<1>4. IsFiniteSet(Q) /\ Q \subseteq Nat /\ Cardinality(Q) = m
  BY <1>1, <1>2, <1>3, RangeCardinality, Zenon
<1>5. ASSUME NEW count \in Int, NEW S \in kSubset(count, Q)
      PROVE  count <= m /\ IsFiniteSet(S) /\ S \subseteq Q /\ Cardinality(S) = count
  <2>1. S \in SUBSET Q /\ Cardinality(S) = count
    BY DEF kSubset
  <2>2. IsFiniteSet(S) /\ Cardinality(S) <= Cardinality(Q)
    BY <2>1, <1>4, FS_Subset, Zenon
  <2> QED BY <2>1, <2>2, <1>4
<1> QED BY <1>4, <1>5 DEF Q

\* The first devices of the list.
LEMMA FirstChoice ==
  ASSUME NEW devices, NEW m, Listed(devices, m), NEW count \in 0..m
  PROVE  Choice(firstDeviceIDs(devices, count), devices, count)
<1>1. /\ m \in Nat /\ IDs(devices) = {devices[k].id : k \in 1..m}
      /\ \A k, l \in 1..m : devices[k].id = devices[l].id => k = l
  BY ListedFacts
<1>2. \A k \in 1..count : k \in 1..m
  BY <1>1
<1>3. firstDeviceIDs(devices, count) = [i \in 1..count |-> devices[i].id]
  BY DEF firstDeviceIDs
<1>4. firstDeviceIDs(devices, count) \in [1..count -> IDs(devices)]
  BY <1>1, <1>2, <1>3
<1>5. Distinct(firstDeviceIDs(devices, count))
  BY <1>1, <1>2, <1>3 DEF Distinct
<1> QED BY <1>4, <1>5 DEF Choice

\* The devices of a group, by their places.
Members(devices, key, k) == {i \in DOMAIN devices : devices[i][key] = k}

\* A group that the policy may use and that is large enough.
Suits(devices, key, allowUnknown, requested, k) ==
  /\ k # Unknown \/ allowUnknown
  /\ Cardinality(Members(devices, key, k)) >= requested

\* Devices of a smallest such group.
FromGroup(selected, devices, key, allowUnknown, requested, k) ==
  /\ Suits(devices, key, allowUnknown, requested, k)
  /\ Choice(selected, keep(devices, Members(devices, key, k)), requested)
  /\ \A j \in DOMAIN devices :
       Suits(devices, key, allowUnknown, requested, devices[j][key]) =>
         Cardinality(Members(devices, key, k))
           <= Cardinality(Members(devices, key, devices[j][key]))

\* The fields that group devices are numbers, or unknown.
LEMMA KeyValue ==
  ASSUME NEW d \in Device, NEW key \in {"numaNode", "pcieRoot"}
  PROVE  d[key] \in Nat \cup {Unknown}
<1>1. CASE key = "numaNode"
  BY <1>1 DEF Device
<1>2. CASE key = "pcieRoot"
  BY <1>2 DEF Device
<1> QED BY <1>1, <1>2

\* Of several groups one comes first.
LEMMA FirstGroup ==
  ASSUME NEW groups \in SUBSET [key : Nat \cup {Unknown}, size : Nat], groups # {},
         \A g, h \in groups : g.key = h.key => g = h
  PROVE  \E g \in groups : \A h \in groups \ {g} : groupBefore(g, h)
<1> DEFINE sizes == {g.size : g \in groups}
<1>1. sizes \in SUBSET Nat /\ sizes # {}
  OBVIOUS
<1>2. PICK z \in sizes : \A y \in sizes : z <= y
  BY <1>1, SmallestOf, Zenon
<1> DEFINE known == {g.key : g \in {h \in groups : h.size = z /\ h.key # Unknown}}
<1>3. CASE known = {}
  <2>1. PICK g \in groups : g.size = z
    BY <1>2
  <2>2. g.key = Unknown
    BY <1>3, <2>1
  <2>3. ASSUME NEW h \in groups \ {g}
        PROVE  groupBefore(g, h)
    <3>1. h.key # Unknown
      BY <2>2
    <3>2. h.size # z
      BY <3>1, <1>3
    <3>3. z <= h.size /\ h.size \in Nat
      BY <1>2
    <3>4. z \in Nat
      BY <1>1, <1>2
    <3> QED BY <2>1, <3>2, <3>3, <3>4 DEF groupBefore
  <2> QED BY <2>3
<1>4. CASE known # {}
  <2>1. known \in SUBSET Nat
    OBVIOUS
  <2>2. PICK k \in known : \A j \in known : k <= j
    BY <1>4, <2>1, SmallestOf, Zenon
  <2>3. PICK g \in groups : g.size = z /\ g.key = k /\ k # Unknown
    BY <2>2
  <2>4. ASSUME NEW h \in groups \ {g}
        PROVE  groupBefore(g, h)
    <3>1. z <= h.size /\ h.size \in Nat /\ z \in Nat /\ k \in Nat
      BY <1>1, <1>2, <2>1, <2>2
    <3>2. CASE h.size # z
      BY <2>3, <3>1, <3>2 DEF groupBefore
    <3>3. CASE h.size = z /\ h.key = Unknown
      BY <2>3, <3>3 DEF groupBefore, keyLess
    <3>4. CASE h.size = z /\ h.key # Unknown
      <4>1. h.key \in known /\ h.key \in Nat
        BY <3>4
      <4>2. k <= h.key /\ k # h.key
        BY <4>1, <2>2, <2>3
      <4> QED BY <4>1, <4>2, <2>3, <3>1, <3>4 DEF groupBefore, keyLess
    <3> QED BY <3>2, <3>3, <3>4
  <2> QED BY <2>4
<1> QED BY <1>3, <1>4

\* selectDeviceGroup returns devices of a smallest group that suits, and nothing
\* only when none does.
LEMMA GroupChosen ==
  ASSUME NEW devices, NEW m, Listed(devices, m), NEW key \in {"numaNode", "pcieRoot"},
         NEW allowUnknown \in BOOLEAN, NEW requested \in 1..m,
         NEW selected, selected = selectDeviceGroup(devices, requested, key, allowUnknown)
  PROVE  \/ /\ selected = <<>>
            /\ \A i \in 1..m : ~Suits(devices, key, allowUnknown, requested, devices[i][key])
         \/ \E i \in 1..m :
              FromGroup(selected, devices, key, allowUnknown, requested, devices[i][key])
<1> DEFINE members(k) == {i \in DOMAIN devices : devices[i][key] = k}
           keys == {k \in {devices[i][key] : i \in DOMAIN devices} : k # Unknown \/ allowUnknown}
           groups == {g \in {[key |-> k, size |-> Cardinality(members(k))] : k \in keys} :
                        g.size >= requested}
           first == CHOOSE g \in groups : \A h \in groups \ {g} : groupBefore(g, h)
<1>1. m \in Nat /\ DOMAIN devices = 1..m /\ \A k \in 1..m : devices[k] \in Device
  BY ListedFacts
<1>2. selected = IF groups = {} THEN <<>>
                 ELSE firstDeviceIDs(keep(devices, members(first.key)), requested)
  BY DEF selectDeviceGroup
<1>3. \A k : members(k) = Members(devices, key, k)
  BY DEF Members
<1>4. \A k : members(k) \in SUBSET (1..m)
  BY <1>1
<1>5. \A k : IsFiniteSet(members(k)) /\ Cardinality(members(k)) \in Nat
  <2>1. IsFiniteSet(1..m)
    BY <1>1, FS_Interval
  <2> QED BY <2>1, <1>4, FS_Subset, FS_CardinalityType, Zenon
<1> HIDE DEF members
<1>6. \A k \in keys : k \in Nat \cup {Unknown}
  BY <1>1, KeyValue
<1>7. groups \in SUBSET [key : Nat \cup {Unknown}, size : Nat]
  BY <1>5, <1>6
<1>8. \A g \in groups : /\ g.key \in keys /\ g.size = Cardinality(members(g.key))
                        /\ g.size >= requested
  OBVIOUS
<1>9. \A g, h \in groups : g.key = h.key => g = h
  OBVIOUS
<1>10. \A k \in keys : Cardinality(members(k)) >= requested =>
          \E g \in groups : g.key = k /\ g.size = Cardinality(members(k))
  <2> SUFFICES ASSUME NEW k \in keys, Cardinality(members(k)) >= requested
               PROVE  \E g \in groups : g.key = k /\ g.size = Cardinality(members(k))
    OBVIOUS
  <2> DEFINE g == [key |-> k, size |-> Cardinality(members(k))]
  <2>1. g.key = k /\ g.size = Cardinality(members(k))
    OBVIOUS
  <2>2. g \in {[key |-> j, size |-> Cardinality(members(j))] : j \in keys}
    OBVIOUS
  <2>3. g.size >= requested
    BY <2>1
  <2> HIDE DEF g
  <2> QED BY <2>1, <2>2, <2>3
<1>11. \A i \in 1..m : Suits(devices, key, allowUnknown, requested, devices[i][key]) =>
          devices[i][key] \in keys /\ Cardinality(members(devices[i][key])) >= requested
  BY <1>1, <1>3 DEF Suits
<1>12. \A k \in keys : (k # Unknown \/ allowUnknown) /\ \E i \in 1..m : k = devices[i][key]
  BY <1>1
<1> HIDE DEF keys, groups
<1>13. CASE groups = {}
  BY <1>2, <1>10, <1>11, <1>13
<1>14. CASE groups # {}
  <2>1. \E g \in groups : \A h \in groups \ {g} : groupBefore(g, h)
    BY <1>7, <1>9, <1>14, FirstGroup
  <2>2. first \in groups /\ \A h \in groups \ {first} : groupBefore(first, h)
    BY <2>1
  <2> HIDE DEF first
  <2>3. \A h \in groups : first.size <= h.size
    <3> SUFFICES ASSUME NEW h \in groups
                 PROVE  first.size <= h.size
      OBVIOUS
    <3>1. h.size \in Nat /\ first.size \in Nat
      BY <1>7, <2>2
    <3> QED BY <2>2, <3>1 DEF groupBefore
  <2>4. PICK i \in 1..m : first.key = devices[i][key]
    BY <1>8, <1>12, <2>2
  <2> DEFINE k == first.key
             kept == keep(devices, members(k))
             c == Cardinality(members(k))
  <2>5. Suits(devices, key, allowUnknown, requested, k)
    BY <1>3, <1>8, <1>12, <2>2 DEF Suits
  <2>6. Listed(kept, c) /\ c \in Nat /\ requested \in 0..c
    BY <1>1, <1>4, <1>5, <1>8, <2>2, KeepListed
  <2>7. selected = firstDeviceIDs(kept, requested)
    BY <1>2, <1>14
  <2> HIDE DEF kept, c
  <2>8. Choice(selected, kept, requested)
    BY <2>6, <2>7, FirstChoice
  <2>9. ASSUME NEW j \in 1..m, Suits(devices, key, allowUnknown, requested, devices[j][key])
        PROVE  Cardinality(Members(devices, key, k)) <= Cardinality(Members(devices, key, devices[j][key]))
    <3>1. PICK g \in groups : g.key = devices[j][key] /\ g.size = Cardinality(members(devices[j][key]))
      BY <1>10, <1>11, <2>9
    <3>2. first.size <= g.size /\ first.size = Cardinality(members(k))
      BY <2>2, <2>3, <1>8
    <3> QED BY <3>1, <3>2, <1>3
  <2>10. FromGroup(selected, devices, key, allowUnknown, requested, k)
    BY <1>1, <1>3, <2>5, <2>8, <2>9 DEF FromGroup, kept
  <2> QED BY <2>4, <2>10
<1> QED BY <1>13, <1>14

-------------------------------------------------------------------------------
\* The search for a clique.

\* The candidates that lead to a full clique.
Leads(search, snapshot, policy, ids, N, k, chosen) ==
  {i \in (N - k + 1)..N : /\ \A m \in DOMAIN chosen : Linked(snapshot, policy, ids[i], chosen[m])
                          /\ search[N - i][Append(chosen, ids[i])] # <<>>}

\* What the search returns for the last k candidates, from what it returns for
\* fewer.
CliqueStep(search, snapshot, policy, requested, ids, N, k, chosen) ==
  LET leads == Leads(search, snapshot, policy, ids, N, k, chosen)
  IN IF Len(chosen) >= requested THEN chosen
     ELSE IF Len(chosen) + k < requested THEN <<>>
     ELSE IF leads = {} THEN <<>>
     ELSE search[N - Min(leads)][Append(chosen, ids[Min(leads)])]

\* A step of the search returns a list of candidates.
LEMMA CliqueStepType ==
  ASSUME NEW snapshot, NEW policy, NEW requested \in Nat, NEW T, NEW N \in Nat,
         NEW ids \in [1..N -> T], NEW search \in [0..N -> [Seq(T) -> Seq(T)]],
         NEW k \in 0..N, NEW chosen \in Seq(T)
  PROVE  CliqueStep(search, snapshot, policy, requested, ids, N, k, chosen) \in Seq(T)
<1> DEFINE leads == Leads(search, snapshot, policy, ids, N, k, chosen)
<1>1. leads \in SUBSET (1..N)
  BY DEF Leads
<1>2. leads # {} => Min(leads) \in 1..N
  <2>1. leads \in SUBSET Nat
    BY <1>1
  <2>2. leads # {} => Min(leads) \in leads
    BY <2>1, MinOf, Zenon
  <2> QED BY <1>1, <2>2
<1> HIDE DEF leads
<1>3. leads # {} => search[N - Min(leads)][Append(chosen, ids[Min(leads)])] \in Seq(T)
  <2> SUFFICES ASSUME leads # {}
               PROVE  search[N - Min(leads)][Append(chosen, ids[Min(leads)])] \in Seq(T)
    OBVIOUS
  <2>1. N - Min(leads) \in 0..N /\ ids[Min(leads)] \in T
    BY <1>2
  <2>2. Append(chosen, ids[Min(leads)]) \in Seq(T)
    BY <2>1
  <2> QED BY <2>1, <2>2, Zenon
<1> QED BY <1>3 DEF CliqueStep, leads

\* It uses the search for fewer candidates only.
LEMMA CliqueStepLocal ==
  ASSUME NEW snapshot, NEW policy, NEW requested \in Nat, NEW T, NEW N \in Nat,
         NEW ids \in [1..N -> T], NEW s, NEW t, NEW k \in 0..N, NEW chosen \in Seq(T),
         Agree(s, t, k)
  PROVE  CliqueStep(s, snapshot, policy, requested, ids, N, k, chosen)
           = CliqueStep(t, snapshot, policy, requested, ids, N, k, chosen)
<1> DEFINE leads == Leads(s, snapshot, policy, ids, N, k, chosen)
<1>1. \A i \in (N - k + 1)..N : N - i \in 0..(k - 1) /\ s[N - i] = t[N - i]
  BY DEF Agree
<1>2. leads = Leads(t, snapshot, policy, ids, N, k, chosen)
  BY <1>1 DEF Leads
<1>3. leads \in SUBSET ((N - k + 1)..N)
  BY DEF Leads
<1>4. leads # {} => Min(leads) \in leads
  <2>1. leads \in SUBSET Nat
    BY <1>3
  <2> QED BY <2>1, MinOf
<1> HIDE DEF leads
<1>5. leads # {} => s[N - Min(leads)] = t[N - Min(leads)]
  BY <1>1, <1>3, <1>4, Zenon
<1> QED BY <1>2, <1>5 DEF CliqueStep, leads

\* searchClique is a function that satisfies its recursion.
Searched(search, snapshot, policy, requested, T, ids, N) ==
  \A k \in 0..N, chosen \in Seq(T) :
    search[k][chosen] = CliqueStep(search, snapshot, policy, requested, ids, N, k, chosen)

\* The recursion of searchClique is well founded: its function exists.
LEMMA SearchExists ==
  ASSUME NEW snapshot, NEW policy, NEW requested \in Nat, NEW N \in Nat,
         NEW ids, ids \in [1..N -> Range(ids)]
  PROVE  Searched(searchClique(snapshot, policy, requested, ids),
                  snapshot, policy, requested, Range(ids), ids, N)
<1> DEFINE T == Range(ids)
           V == [Seq(T) -> Seq(T)]
           Step(f, k, chosen) == CliqueStep(f, snapshot, policy, requested, ids, N, k, chosen)
           G == [x \in [0..N -> V] \X (0..N) |-> [chosen \in Seq(T) |-> Step(x[1], x[2], chosen)]]
           Rec(f) == f = [k \in 0..N |-> [chosen \in Seq(T) |-> Step(f, k, chosen)]]
           search == CHOOSE f : Rec(f)
<1>0. Len(ids) = N
  OBVIOUS
<1>1. searchClique(snapshot, policy, requested, ids) = search
  BY <1>0 DEF searchClique, CliqueStep, Leads
<1>2. V # {}
  <2>1. [chosen \in Seq(T) |-> chosen] \in V
    OBVIOUS
  <2> QED BY <2>1, Zenon
<1>t. ids \in [1..N -> T]
  OBVIOUS
<1> HIDE DEF T
<1>3. \A f \in [0..N -> V], k \in 0..N, chosen \in Seq(T) : Step(f, k, chosen) \in Seq(T)
  BY <1>t, CliqueStepType, Zenon
<1>4. \A s, t \in [0..N -> V], k \in 0..N, chosen \in Seq(T) :
        Agree(s, t, k) => Step(s, k, chosen) = Step(t, k, chosen)
  BY <1>t, CliqueStepLocal
<1> HIDE DEF Step
<1>5. \A f \in [0..N -> V], k \in 0..N : G[<<f, k>>] = [chosen \in Seq(T) |-> Step(f, k, chosen)]
  OBVIOUS
<1>6. G \in [[0..N -> V] \X (0..N) -> V]
  BY <1>3
<1> HIDE DEF G
<1>7. \A s, t \in [0..N -> V], k \in 0..N :
        Agree(s, t, k) => G[<<s, k>>] = G[<<t, k>>]
  <2> SUFFICES ASSUME NEW s \in [0..N -> V], NEW t \in [0..N -> V], NEW k \in 0..N, Agree(s, t, k)
               PROVE  G[<<s, k>>] = G[<<t, k>>]
    BY Zenon
  <2>1. \A chosen \in Seq(T) : Step(s, k, chosen) = Step(t, k, chosen)
    BY <1>4, Zenon
  <2>2. [chosen \in Seq(T) |-> Step(s, k, chosen)] = [chosen \in Seq(T) |-> Step(t, k, chosen)]
    BY <2>1
  <2>3. G[<<s, k>>] = [chosen \in Seq(T) |-> Step(s, k, chosen)]
    BY <1>5, Zenon
  <2>4. G[<<t, k>>] = [chosen \in Seq(T) |-> Step(t, k, chosen)]
    BY <1>5, Zenon
  <2> QED BY <2>2, <2>3, <2>4, Zenon
<1> HIDE DEF V
<1>r. Recursion(G, N, V)
  BY <1>6, <1>7, Zenon DEF Recursion
<1>8. PICK f : Recurs(f, G, N, V)
  BY <1>2, <1>r, RecursionExists
<1>9. Rec(f)
  <2>1. f \in [0..N -> V] /\ \A k \in 0..N : f[k] = [chosen \in Seq(T) |-> Step(f, k, chosen)]
    BY <1>5, <1>8 DEF Recurs
  <2> QED BY <2>1
<1>10. Rec(search)
  <2> HIDE DEF Rec
  <2> QED BY <1>9
<1> HIDE DEF search
<1>11. ASSUME NEW k \in 0..N, NEW chosen \in Seq(T)
       PROVE  search[k][chosen] = Step(search, k, chosen)
  <2>1. search[k] = [c \in Seq(T) |-> Step(search, k, c)]
    BY <1>10
  <2> QED BY <2>1
<1> QED BY <1>1, <1>11 DEF Searched, Step, T

\* Every device of the list is linked to the earlier ones.
Clique(snapshot, policy, s) ==
  \A i, j \in DOMAIN s : i < j => Linked(snapshot, policy, s[j], s[i])

\* A clique without repetition among the ids up to N - k.
Partial(snapshot, policy, T, ids, N, k, chosen) ==
  /\ chosen \in Seq(T) /\ Distinct(chosen) /\ Clique(snapshot, policy, chosen)
  /\ \A m \in DOMAIN chosen : \E i \in 1..(N - k) : chosen[m] = ids[i]

\* A clique of the requested size.
Full(snapshot, policy, T, requested, s) ==
  s \in [1..requested -> T] /\ Distinct(s) /\ Clique(snapshot, policy, s)

\* Places among the last k that complete the chosen devices to a clique.
Completes(snapshot, policy, requested, ids, N, k, chosen, I) ==
  /\ I \in SUBSET ((N - k + 1)..N) /\ Cardinality(I) = requested - Len(chosen)
  /\ \A i \in I, m \in DOMAIN chosen : Linked(snapshot, policy, ids[i], chosen[m])
  /\ \A i, j \in I : i < j => Linked(snapshot, policy, ids[j], ids[i])

\* A linked candidate extends a partial clique.
LEMMA PartialGrows ==
  ASSUME NEW snapshot, NEW policy, NEW T, NEW N \in Nat, NEW ids \in [1..N -> T], Distinct(ids),
         NEW k \in 0..N, NEW chosen, Partial(snapshot, policy, T, ids, N, k, chosen),
         NEW i \in (N - k + 1)..N,
         \A m \in DOMAIN chosen : Linked(snapshot, policy, ids[i], chosen[m])
  PROVE  /\ Partial(snapshot, policy, T, ids, N, N - i, Append(chosen, ids[i]))
         /\ Len(Append(chosen, ids[i])) = Len(chosen) + 1
<1> DEFINE e == ids[i]
           t == Append(chosen, e)
           n == Len(chosen)
<1>1. chosen \in Seq(T) /\ e \in T /\ Distinct(chosen) /\ n \in Nat /\ DOMAIN chosen = 1..n
  BY DEF Partial
<1>2. \A m \in DOMAIN chosen : \E j \in 1..(N - k) : chosen[m] = ids[j]
  BY DEF Partial
<1>3. \A j \in 1..(N - k) : ids[j] # e /\ j \in 1..(N - (N - i))
  BY DEF Distinct
<1>4. e \notin Range(chosen)
  BY <1>2, <1>3 DEF Range
<1>5. /\ t \in Seq(T) /\ Len(t) = n + 1 /\ Distinct(t) /\ DOMAIN t = 1..(n + 1)
      /\ \A m \in 1..n : t[m] = chosen[m]
      /\ t[n + 1] = e
  BY <1>1, <1>4, AppendAdds
<1>6. \A m \in 1..(n + 1) : m \in 1..n \/ m = n + 1
  BY <1>1
<1>7. ASSUME NEW p \in DOMAIN t, NEW q \in DOMAIN t, p < q
      PROVE  Linked(snapshot, policy, t[q], t[p])
  <2>1. p \in 1..n
    BY <1>1, <1>5, <1>7
  <2>2. CASE q \in 1..n
    BY <2>1, <2>2, <1>1, <1>5, <1>7 DEF Partial, Clique
  <2>3. CASE q = n + 1
    BY <2>1, <2>3, <1>1, <1>5
  <2> QED BY <2>2, <2>3, <1>5, <1>6
<1>8. ASSUME NEW m \in DOMAIN t
      PROVE  \E j \in 1..(N - (N - i)) : t[m] = ids[j]
  <2>1. CASE m \in 1..n
    BY <2>1, <1>1, <1>2, <1>3, <1>5
  <2>2. CASE m = n + 1
    <3>1. i \in 1..(N - (N - i))
      OBVIOUS
    <3> QED BY <2>2, <3>1, <1>5
  <2> QED BY <2>1, <2>2, <1>5, <1>6
<1> HIDE DEF t, e
<1>9. Partial(snapshot, policy, T, ids, N, N - i, t)
  BY <1>5, <1>7, <1>8 DEF Partial, Clique
<1> QED BY <1>5, <1>9 DEF t, e

\* The search for the last k candidates is right.
SearchRight(search, snapshot, policy, requested, T, ids, N, k) ==
  \A chosen : Partial(snapshot, policy, T, ids, N, k, chosen) /\ Len(chosen) <= requested =>
    /\ search[k][chosen] # <<>> => Full(snapshot, policy, T, requested, search[k][chosen])
    /\ \A I : Completes(snapshot, policy, requested, ids, N, k, chosen, I) =>
         search[k][chosen] # <<>>

\* The search is right for k candidates when it is for fewer: the pruning by the
\* number of candidates left cuts no full clique off.
LEMMA SearchStep ==
  ASSUME NEW snapshot, NEW policy, NEW requested \in Nat \ {0}, NEW T, NEW N \in Nat,
         NEW ids \in [1..N -> T], Distinct(ids), NEW search,
         Searched(search, snapshot, policy, requested, T, ids, N), NEW k \in 0..N,
         \A m \in 0..(k - 1) : SearchRight(search, snapshot, policy, requested, T, ids, N, m)
  PROVE  SearchRight(search, snapshot, policy, requested, T, ids, N, k)
<1> SUFFICES ASSUME NEW chosen, Partial(snapshot, policy, T, ids, N, k, chosen),
                    Len(chosen) <= requested
             PROVE  /\ search[k][chosen] # <<>> =>
                         Full(snapshot, policy, T, requested, search[k][chosen])
                    /\ \A I : Completes(snapshot, policy, requested, ids, N, k, chosen, I) =>
                         search[k][chosen] # <<>>
  BY DEF SearchRight
<1> DEFINE n == Len(chosen)
           r == search[k][chosen]
           leads == Leads(search, snapshot, policy, ids, N, k, chosen)
           Grown(i) == Append(chosen, ids[i])
           found(i) == search[N - i][Grown(i)]
<1>1. chosen \in Seq(T) /\ Distinct(chosen) /\ Clique(snapshot, policy, chosen)
      /\ n \in Nat /\ chosen \in [1..n -> T] /\ DOMAIN chosen = 1..n
  BY DEF Partial
<1>2. r = IF n >= requested THEN chosen
          ELSE IF n + k < requested THEN <<>>
          ELSE IF leads = {} THEN <<>> ELSE found(Min(leads))
  BY <1>1 DEF Searched, CliqueStep
<1>3. \A i : i \in leads <=>
        /\ i \in (N - k + 1)..N
        /\ \A m \in DOMAIN chosen : Linked(snapshot, policy, ids[i], chosen[m])
        /\ found(i) # <<>>
  BY DEF Leads
<1>4. ASSUME NEW i \in (N - k + 1)..N,
             \A m \in DOMAIN chosen : Linked(snapshot, policy, ids[i], chosen[m])
      PROVE  /\ Partial(snapshot, policy, T, ids, N, N - i, Grown(i))
             /\ Len(Grown(i)) = n + 1
             /\ SearchRight(search, snapshot, policy, requested, T, ids, N, N - i)
  <2>1. N - i \in 0..(k - 1)
    OBVIOUS
  <2>2. SearchRight(search, snapshot, policy, requested, T, ids, N, N - i)
    BY <2>1
  <2> QED BY <1>4, <2>2, PartialGrows
<1> HIDE DEF r, leads, Grown
<1>5. leads # {} => Min(leads) \in leads
  <2>1. leads \in SUBSET Nat
    BY <1>3
  <2> QED BY <2>1, MinOf
<1>6. CASE n >= requested
  <2>1. r = chosen /\ n = requested
    <3>1. n <= requested /\ n \in Nat
      BY <1>1
    <3> HIDE DEF n
    <3> QED BY <3>1, <1>2, <1>6
  <2>2. Full(snapshot, policy, T, requested, r) /\ r # <<>>
    BY <2>1, <1>1 DEF Full
  <2> QED BY <2>2 DEF r
<1>7. CASE n < requested
  <2>1. ASSUME r # <<>>
        PROVE  Full(snapshot, policy, T, requested, r)
    <3>1. leads # {} /\ r = found(Min(leads))
      BY <1>1, <1>2, <1>7, <2>1
    <3>2. PICK i : i \in leads /\ r = found(i)
      BY <3>1, <1>5
    <3>3. Partial(snapshot, policy, T, ids, N, N - i, Grown(i)) /\ Len(Grown(i)) = n + 1
          /\ SearchRight(search, snapshot, policy, requested, T, ids, N, N - i)
      BY <3>2, <1>3, <1>4
    <3>4. n + 1 <= requested
      BY <1>1, <1>7
    <3> QED BY <2>1, <3>2, <3>3, <3>4 DEF SearchRight
  <2>2. ASSUME NEW I, Completes(snapshot, policy, requested, ids, N, k, chosen, I)
        PROVE  r # <<>>
    <3>1. I \in SUBSET ((N - k + 1)..N) /\ Cardinality(I) = requested - n
      BY <2>2 DEF Completes
    <3>2. IsFiniteSet((N - k + 1)..N) /\ Cardinality((N - k + 1)..N) = k
      BY FS_Interval
    <3>3. IsFiniteSet(I) /\ Cardinality(I) <= k
      <4> DEFINE X == (N - k + 1)..N
      <4>1. IsFiniteSet(X) /\ Cardinality(X) = k /\ I \in SUBSET X
        BY <3>1, <3>2
      <4> HIDE DEF X
      <4>2. IsFiniteSet(I) /\ Cardinality(I) <= Cardinality(X)
        BY <4>1, FS_Subset
      <4> QED BY <4>1, <4>2
    <3>4. ~(n + k < requested) /\ Cardinality(I) # 0
      <4>1. n \in Nat /\ n < requested /\ Cardinality(I) = requested - n
        BY <1>1, <1>7, <3>1
      <4> HIDE DEF n
      <4> QED BY <4>1, <3>3
    <3>5. I # {} /\ I \in SUBSET Nat
      <4>1. I # {}
        BY <3>4, FS_EmptySet
      <4>2. (N - k + 1)..N \in SUBSET Nat
        OBVIOUS
      <4> QED BY <3>1, <4>1, <4>2
    <3>6. PICK i \in I : \A j \in I : i <= j
      BY <3>5, SmallestOf, Zenon
    <3>7. i \in (N - k + 1)..N /\ \A m \in DOMAIN chosen : Linked(snapshot, policy, ids[i], chosen[m])
      BY <2>2, <3>1 DEF Completes
    <3>8. Partial(snapshot, policy, T, ids, N, N - i, Grown(i)) /\ Len(Grown(i)) = n + 1
          /\ SearchRight(search, snapshot, policy, requested, T, ids, N, N - i)
      BY <3>7, <1>4
    <3> DEFINE J == I \ {i}
    <3>9. J \in SUBSET ((N - (N - i) + 1)..N) /\ Cardinality(J) = requested - (n + 1)
      <4>1. \A j \in J : j \in (N - k + 1)..N /\ i <= j /\ j # i
        BY <3>1, <3>6
      <4>2. \A j \in J : j \in (N - (N - i) + 1)..N
        BY <4>1, <3>7
      <4>3. Cardinality(J) = Cardinality(I) - 1
        BY <3>3, FS_RemoveElement
      <4> QED BY <4>2, <4>3, <3>1, <1>1
    <3>10. ASSUME NEW j \in J, NEW m \in DOMAIN Grown(i)
           PROVE  Linked(snapshot, policy, ids[j], Grown(i)[m])
      <4>1. DOMAIN Grown(i) = 1..(n + 1) /\ Grown(i)[n + 1] = ids[i]
            /\ \A p \in 1..n : Grown(i)[p] = chosen[p]
        BY <1>1, <3>7 DEF Grown
      <4>2. CASE m \in 1..n
        BY <4>1, <4>2, <1>1, <2>2 DEF Completes
      <4>3. CASE m = n + 1
        <5>1. i < j
          BY <3>1, <3>6
        <5> QED BY <4>1, <4>3, <5>1, <2>2 DEF Completes
      <4>4. m \in 1..n \/ m = n + 1
        BY <4>1, <1>1
      <4> QED BY <4>2, <4>3, <4>4
    <3>11. Completes(snapshot, policy, requested, ids, N, N - i, Grown(i), J)
      <4>1. \A a, b \in J : a < b => Linked(snapshot, policy, ids[b], ids[a])
        BY <2>2 DEF Completes
      <4> HIDE DEF J
      <4> QED BY <3>8, <3>9, <3>10, <4>1 DEF Completes
    <3>12. n + 1 <= requested
      BY <1>1, <1>7
    <3>13. found(i) # <<>>
      BY <3>8, <3>11, <3>12 DEF SearchRight
    <3>14. i \in leads
      BY <3>7, <3>13, <1>3
    <3>15. r = found(Min(leads)) /\ Min(leads) \in leads
      BY <3>4, <3>14, <1>1, <1>2, <1>5, <1>7
    <3> QED BY <3>15, <1>3
  <2> QED BY <2>1, <2>2 DEF r
<1> QED BY <1>1, <1>6, <1>7

\* Hence the search is right for all candidates.
LEMMA SearchIsRight ==
  ASSUME NEW snapshot, NEW policy, NEW requested \in Nat \ {0}, NEW T, NEW N \in Nat,
         NEW ids \in [1..N -> T], Distinct(ids), NEW search,
         Searched(search, snapshot, policy, requested, T, ids, N)
  PROVE  SearchRight(search, snapshot, policy, requested, T, ids, N, N)
<1> DEFINE Right(k) == SearchRight(search, snapshot, policy, requested, T, ids, N, k)
           S == {n \in 0..N : \A k \in 0..n : Right(k)}
<1>1. ASSUME NEW k \in 0..N, \A m \in 0..(k - 1) : Right(m)
      PROVE  Right(k)
  BY <1>1, SearchStep
<1> HIDE DEF Right
<1>2. 0 \in S
  BY <1>1
<1>3. ASSUME NEW n \in 1..N, n - 1 \in S
      PROVE  n \in S
  <2>1. \A k \in 0..(n - 1) : Right(k)
    BY <1>3
  <2>2. Right(n)
    BY <2>1, <1>1
  <2>3. \A k \in 0..n : k \in 0..(n - 1) \/ k = n
    OBVIOUS
  <2> QED BY <2>1, <2>2, <2>3
<1> HIDE DEF S
<1>4. 0..N \subseteq S
  BY <1>2, <1>3, RoundInduction, SMTT(30)
<1>5. Right(N)
  BY <1>4 DEF S
<1> QED BY <1>5 DEF Right

\* The test of two devices gives the same from both ends.
Symmetric(snapshot, policy, Q) ==
  \A a, b \in Q : Linked(snapshot, policy, a, b) => Linked(snapshot, policy, b, a)

\* The IDs of the devices as a list.
LEMMA AllIDs ==
  ASSUME NEW devices, NEW m, Listed(devices, m), NEW ids, ids = firstDeviceIDs(devices, Len(devices))
  PROVE  /\ m \in Nat /\ ids \in [1..m -> IDs(devices)] /\ Distinct(ids)
         /\ Range(ids) = IDs(devices) /\ Len(ids) = m /\ IDs(devices) \subseteq Nat
<1>1. /\ m \in Nat /\ Len(devices) = m /\ IDs(devices) = {devices[k].id : k \in 1..m}
      /\ \A k \in 1..m : devices[k].id \in Nat
  BY ListedFacts
<1>2. m \in 0..m
  BY <1>1
<1>3. ids \in [1..m -> IDs(devices)] /\ Distinct(ids)
  BY <1>1, <1>2, FirstChoice DEF Choice
<1>4. \A k \in 1..m : ids[k] = devices[k].id
  BY <1>1 DEF firstDeviceIDs
<1>5. \A x \in IDs(devices) : \E k \in 1..m : ids[k] = x
  BY <1>1, <1>4
<1>6. Range(ids) = IDs(devices)
  BY <1>3, <1>5 DEF Range
<1>7. Len(ids) = m
  BY <1>1, <1>3
<1> QED BY <1>1, <1>3, <1>6, <1>7, Zenon

\* The places of a set of devices in the list.
Places(ids, N, S) == {i \in 1..N : ids[i] \in S}

\* There are as many places as devices.
LEMMA PlacesOf ==
  ASSUME NEW N \in Nat, NEW ids, DOMAIN ids = 1..N, Distinct(ids), NEW S \in SUBSET Range(ids)
  PROVE  IsFiniteSet(Places(ids, N, S)) /\ Cardinality(Places(ids, N, S)) = Cardinality(S)
<1> DEFINE I == {i \in 1..N : ids[i] \in S}
           f == [i \in I |-> ids[i]]
<1>1. IsFiniteSet(1..N)
  BY FS_Interval
<1>2. I \in SUBSET (1..N)
  OBVIOUS
<1>3. IsFiniteSet(I)
  BY <1>1, <1>2, FS_Subset
<1>4. f \in [I -> S]
  OBVIOUS
<1>5. \A i \in I : f[i] = ids[i] /\ i \in DOMAIN ids
  OBVIOUS
<1>6. \A z \in S : \E i \in I : f[i] = z
  BY DEF Range
<1> HIDE DEF f
<1>7. \A x, y \in I : f[x] = f[y] => x = y
  BY <1>5 DEF Distinct
<1>8. Cardinality(S) = Cardinality(I)
  <2>1. OneToOne(f, I, S)
    BY <1>4, <1>6, <1>7, Zenon DEF OneToOne
  <2> QED BY <1>3, <2>1, SameSize
<1> QED BY <1>3, <1>8 DEF Places

\* selectFabricClique returns a clique, and does when there is one.
LEMMA CliqueChosen ==
  ASSUME NEW devices, NEW m, Listed(devices, m), NEW snapshot, NEW policy,
         Symmetric(snapshot, policy, IDs(devices)), NEW requested \in Nat \ {0},
         NEW selected, selected = selectFabricClique(snapshot, devices, policy, requested)
  PROVE  /\ selected # <<>> =>
              Choice(selected, devices, requested) /\ Linking(snapshot, policy, Range(selected))
         /\ \A S \in kSubset(requested, IDs(devices)) : Linking(snapshot, policy, S) => selected # <<>>
<1> DEFINE ids == firstDeviceIDs(devices, Len(devices))
           T == IDs(devices)
           search == searchClique(snapshot, policy, requested, ids)
<1>1. m \in Nat /\ ids \in [1..m -> T] /\ Distinct(ids) /\ Range(ids) = T /\ Len(ids) = m
  BY AllIDs
<1>2. selected = search[m][<<>>]
  BY <1>1 DEF selectFabricClique
<1> HIDE DEF ids, T
<1>3. Searched(search, snapshot, policy, requested, T, ids, m)
  BY <1>1, SearchExists
<1> HIDE DEF search
<1>4. SearchRight(search, snapshot, policy, requested, T, ids, m, m)
  BY <1>1, <1>3, SearchIsRight
<1>5. Partial(snapshot, policy, T, ids, m, m, <<>>) /\ Len(<<>>) <= requested
  BY DEF Partial, Distinct, Clique
<1>6. /\ selected # <<>> => Full(snapshot, policy, T, requested, selected)
      /\ \A I : Completes(snapshot, policy, requested, ids, m, m, <<>>, I) => selected # <<>>
  BY <1>2, <1>4, <1>5 DEF SearchRight
<1>7. ASSUME selected # <<>>
      PROVE  Choice(selected, devices, requested) /\ Linking(snapshot, policy, Range(selected))
  <2>1. selected \in [1..requested -> T] /\ Distinct(selected) /\ Clique(snapshot, policy, selected)
    BY <1>6, <1>7 DEF Full
  <2>2. ASSUME NEW a \in Range(selected), NEW b \in Range(selected), a # b
        PROVE  Linked(snapshot, policy, a, b)
    <3>1. PICK i \in 1..requested, j \in 1..requested : a = selected[i] /\ b = selected[j]
      BY <2>1 DEF Range
    <3>2. a \in T /\ b \in T /\ (i < j \/ j < i)
      BY <2>1, <2>2, <3>1
    <3>3. Linked(snapshot, policy, a, b) \/ Linked(snapshot, policy, b, a)
      BY <2>1, <3>1, <3>2 DEF Clique
    <3> QED BY <3>2, <3>3 DEF Symmetric, T
  <2> QED BY <2>1, <2>2 DEF Choice, Linking, T
<1>8. ASSUME NEW S \in kSubset(requested, T), Linking(snapshot, policy, S)
      PROVE  selected # <<>>
  <2> DEFINE I == Places(ids, m, S)
  <2>1. S \in SUBSET Range(ids) /\ Cardinality(S) = requested
    BY <1>1 DEF kSubset
  <2>2. Cardinality(I) = requested
    <3>0. DOMAIN ids = 1..m
      BY <1>1
    <3>1. Cardinality(I) = Cardinality(S)
      BY <1>1, <2>1, <3>0, PlacesOf
    <3> QED BY <2>1, <3>1
  <2>3. I \in SUBSET ((m - m + 1)..m)
    BY <1>1 DEF Places
  <2>4. \A i, j \in I : i < j => ids[j] \in S /\ ids[i] \in S /\ ids[j] # ids[i]
    BY <1>1 DEF Distinct, Places
  <2>5. \A i, j \in I : i < j => Linked(snapshot, policy, ids[j], ids[i])
    BY <1>8, <2>4 DEF Linking
  <2> HIDE DEF I
  <2>6. Completes(snapshot, policy, requested, ids, m, m, <<>>, I)
    BY <2>2, <2>3, <2>5 DEF Completes
  <2> QED BY <1>6, <2>6
<1> QED BY <1>7, <1>8 DEF T

-------------------------------------------------------------------------------
\* The search for connected devices.

\* One round of the breadth-first search.
Near(snapshot, policy, T, b) == {c \in T \ b.visited : Linked(snapshot, policy, Head(b.queue), c)}

ConnectedStep(snapshot, policy, T, b) ==
  IF b.queue = <<>> THEN b
  ELSE [visited  |-> b.visited \cup Near(snapshot, policy, T, b),
        queue    |-> Tail(b.queue) \o ascending(Near(snapshot, policy, T, b)),
        selected |-> Append(b.selected, Head(b.queue))]

SearchState(T) == [visited : SUBSET T, queue : Seq(T), selected : Seq(T)]

\* The neighbours join the queue once each.
LEMMA NearListed ==
  ASSUME NEW snapshot, NEW policy, NEW T \in SUBSET Nat, IsFiniteSet(T), NEW b
  PROVE  LET N == Near(snapshot, policy, T, b) IN
         /\ N \in SUBSET T /\ ascending(N) \in Seq(T)
         /\ Range(ascending(N)) = N /\ Distinct(ascending(N))
<1> DEFINE N == Near(snapshot, policy, T, b)
<1>1. N \in SUBSET T
  BY DEF Near
<1> HIDE DEF N
<1>2. IsFiniteSet(N) /\ N \in SUBSET Int
  <2>1. IsFiniteSet(N)
    BY <1>1, FS_Subset, Zenon
  <2> QED BY <1>1, <2>1
<1>3. /\ Cardinality(N) \in Nat
      /\ ascending(N) \in [1..Cardinality(N) -> N]
      /\ Range(ascending(N)) = N
      /\ \A k, l \in 1..Cardinality(N) : ascending(N)[k] = ascending(N)[l] => k = l
  BY <1>2, AscendingSorts
<1>4. ascending(N) \in [1..Cardinality(N) -> T]
  BY <1>1, <1>3, Zenon
<1>5. ascending(N) \in Seq(T) /\ Distinct(ascending(N))
  BY <1>3, <1>4 DEF Distinct
<1> QED BY <1>1, <1>3, <1>5 DEF N

\* A round of the search keeps the types.
LEMMA StepType ==
  ASSUME NEW snapshot, NEW policy, NEW T \in SUBSET Nat, IsFiniteSet(T), NEW b \in SearchState(T)
  PROVE  ConnectedStep(snapshot, policy, T, b) \in SearchState(T)
<1> DEFINE N == Near(snapshot, policy, T, b)
<1>1. N \in SUBSET T /\ ascending(N) \in Seq(T)
  BY NearListed
<1>2. b.visited \in SUBSET T /\ b.queue \in Seq(T) /\ b.selected \in Seq(T)
  BY DEF SearchState
<1> HIDE DEF N
<1>3. CASE b.queue = <<>>
  BY <1>3 DEF ConnectedStep
<1>4. CASE b.queue # <<>>
  <2>1. Head(b.queue) \in T /\ Tail(b.queue) \in Seq(T)
    BY <1>2, <1>4, TailKeeps
  <2>2. Tail(b.queue) \o ascending(N) \in Seq(T) /\ Append(b.selected, Head(b.queue)) \in Seq(T)
    BY <1>1, <1>2, <2>1
  <2>3. ConnectedStep(snapshot, policy, T, b)
          = [visited |-> b.visited \cup N, queue |-> Tail(b.queue) \o ascending(N),
             selected |-> Append(b.selected, Head(b.queue))]
    BY <1>4 DEF ConnectedStep, N
  <2>4. b.visited \cup N \in SUBSET T
    BY <1>1, <1>2, Zenon
  <2> QED BY <2>2, <2>3, <2>4 DEF SearchState
<1> QED BY <1>3, <1>4

StartFront(start) == [visited |-> {start}, queue |-> <<start>>, selected |-> <<>>]

\* A run of the loop of searchConnected.
ConnectedRun(f, snapshot, policy, requested, T, start) ==
  /\ f[0] = StartFront(start)
  /\ \A n \in 1..requested : f[n] = ConnectedStep(snapshot, policy, T, f[n - 1])

\* searchConnected runs that loop.
LEMMA ConnectedLoop ==
  ASSUME NEW snapshot, NEW policy, NEW requested \in Nat, NEW ids,
         Range(ids) \in SUBSET Nat, IsFiniteSet(Range(ids)), NEW start \in Range(ids)
  PROVE  ConnectedRun(searchConnected(snapshot, policy, requested, ids, start),
                      snapshot, policy, requested, Range(ids), start)
<1> DEFINE T == Range(ids)
           V == SearchState(T)
           base == StartFront(start)
           step(b) == ConnectedStep(snapshot, policy, T, b)
           g == [x \in V \X (1..requested) |-> step(x[1])]
           Loop(f) == f = [n \in 0..requested |-> IF n = 0 THEN base ELSE step(f[n - 1])]
           after == CHOOSE f : Loop(f)
<1>1. searchConnected(snapshot, policy, requested, ids, start) = after
  BY DEF searchConnected, ConnectedStep, Near, StartFront
<1>t. T \in SUBSET Nat /\ IsFiniteSet(T) /\ start \in T
  OBVIOUS
<1> HIDE DEF T
<1>2. base \in V
  BY <1>t DEF StartFront, SearchState
<1>3. \A b \in V : step(b) \in V
  BY <1>t, StepType
<1> HIDE DEF V, base, step
<1>4. g \in Rounds(V, requested)
  BY <1>3 DEF Rounds
<1>g. ASSUME NEW x \in V, NEW n \in 1..requested
      PROVE  g[<<x, n>>] = step(x)
  OBVIOUS
<1> HIDE DEF g
<1>5. PICK f : Runs(f, requested, V, base, g)
  BY <1>2, <1>4, LoopExists, Zenon
<1>r. f \in [0..requested -> V] /\ f[0] = base
  BY <1>5 DEF Runs
<1>6. ASSUME NEW n \in 1..requested
      PROVE  f[n] = step(f[n - 1])
  <2>1. n - 1 \in 0..requested
    OBVIOUS
  <2>2. f[n - 1] \in V
    BY <2>1, <1>r
  <2>3. f[n] = g[<<f[n - 1], n>>]
    BY <1>5 DEF Runs
  <2> QED BY <2>2, <2>3, <1>g, Zenon
<1>7. Loop(after)
  <2>1. \A n \in 0..requested : f[n] = IF n = 0 THEN base ELSE step(f[n - 1])
    BY <1>r, <1>6
  <2>2. Loop(f)
    BY <2>1, <1>r
  <2> HIDE DEF Loop
  <2> QED BY <2>2
<1> HIDE DEF after
<1>8. after[0] = base /\ \A n \in 1..requested : after[n] = step(after[n - 1])
  BY <1>7
<1> QED BY <1>1, <1>8 DEF ConnectedRun, base, step, T

\* The state of the search after n rounds: what has been seen is selected or
\* queued, once; every selected device but the first hangs on an earlier one and
\* every queued one on a selected one; all neighbours of selected devices are seen.
Searching(snapshot, policy, T, start, n, b) ==
  /\ b \in SearchState(T)
  /\ Distinct(b.selected) /\ Distinct(b.queue)
  /\ Range(b.selected) \cap Range(b.queue) = {}
  /\ b.visited = Range(b.selected) \cup Range(b.queue)
  /\ start \in b.visited
  /\ Len(b.selected) <= n /\ (b.queue # <<>> => Len(b.selected) = n)

Hanging(snapshot, policy, T, start, b) ==
  /\ b.selected = <<>> => b.queue = <<start>>
  /\ b.selected # <<>> => b.selected[1] = start
  /\ \A j \in DOMAIN b.selected : j = 1 \/
       \E i \in DOMAIN b.selected : i < j /\ Linked(snapshot, policy, b.selected[i], b.selected[j])
  /\ b.selected # <<>> => \A x \in Range(b.queue) :
       \E i \in DOMAIN b.selected : Linked(snapshot, policy, b.selected[i], x)

Seen(snapshot, policy, T, b) ==
  \A x \in Range(b.selected), c \in T : Linked(snapshot, policy, x, c) => c \in b.visited

\* A round of the search keeps its invariant.
LEMMA SearchingStep ==
  ASSUME NEW snapshot, NEW policy, NEW T \in SUBSET Nat, IsFiniteSet(T), NEW start \in T,
         NEW n \in Nat, NEW b, Searching(snapshot, policy, T, start, n, b),
         Hanging(snapshot, policy, T, start, b), Seen(snapshot, policy, T, b),
         NEW c, c = ConnectedStep(snapshot, policy, T, b)
  PROVE  /\ Searching(snapshot, policy, T, start, n + 1, c)
         /\ Hanging(snapshot, policy, T, start, c)
         /\ Seen(snapshot, policy, T, c)
<1>1. CASE b.queue = <<>>
  <2>1. c = b
    BY <1>1 DEF ConnectedStep
  <2>2. Len(b.selected) \in Nat /\ Len(b.selected) <= n
    BY DEF Searching, SearchState
  <2>3. Searching(snapshot, policy, T, start, n + 1, b)
    <3>1. Len(b.selected) <= n + 1
      BY <2>2
    <3> QED BY <1>1, <3>1 DEF Searching
  <2> QED BY <2>1, <2>3
<1>2. CASE b.queue # <<>>
  <2> DEFINE N == Near(snapshot, policy, T, b)
             h == Head(b.queue)
             q == Tail(b.queue)
             a == ascending(N)
             s == b.selected
  <2>1. c = [visited |-> b.visited \cup N, queue |-> q \o a, selected |-> Append(s, h)]
    BY <1>2 DEF ConnectedStep
  <2>2. N \in SUBSET T /\ a \in Seq(T) /\ Range(a) = N /\ Distinct(a)
    BY NearListed
  <2>3. \A x : x \in N <=> x \in T /\ x \notin b.visited /\ Linked(snapshot, policy, h, x)
    BY DEF Near
  <2>4. b.visited \in SUBSET T /\ b.queue \in Seq(T) /\ s \in Seq(T) /\ Len(s) \in Nat
    BY DEF Searching, SearchState
  <2>5. /\ Distinct(s) /\ Distinct(b.queue) /\ Range(s) \cap Range(b.queue) = {}
        /\ b.visited = Range(s) \cup Range(b.queue)
        /\ start \in b.visited /\ Len(s) = n
    BY <1>2 DEF Searching
  <2>6. /\ h \in T /\ q \in Seq(T) /\ Range(b.queue) = Range(q) \cup {h}
        /\ Distinct(q) /\ h \notin Range(q)
    BY <1>2, <2>4, <2>5, TailKeeps
  <2>7. /\ b.selected = <<>> => b.queue = <<start>>
        /\ s # <<>> => s[1] = start
        /\ \A j \in DOMAIN s : j = 1 \/ \E i \in DOMAIN s : i < j /\ Linked(snapshot, policy, s[i], s[j])
        /\ s # <<>> => \A x \in Range(b.queue) : \E i \in DOMAIN s : Linked(snapshot, policy, s[i], x)
    BY DEF Hanging
  <2>8. \A x \in Range(s), d \in T : Linked(snapshot, policy, x, d) => d \in b.visited
    BY Zenon DEF Seen
  <2>9. s = <<>> => h = start
    BY <2>7
  <2> HIDE DEF N, h, q, a, s
  <2> DEFINE u == Append(s, h)
             r == q \o a
  <2>10. h \notin Range(s) /\ h \in b.visited /\ h \in Range(b.queue)
    BY <2>5, <2>6
  <2>11. /\ u \in Seq(T) /\ Len(u) = n + 1 /\ Range(u) = Range(s) \cup {h} /\ Distinct(u)
         /\ DOMAIN s = 1..n /\ DOMAIN u = 1..(n + 1)
         /\ \A i \in 1..n : u[i] = s[i]
         /\ u[n + 1] = h
    <3>1. /\ u \in Seq(T) /\ Len(u) = Len(s) + 1 /\ Range(u) = Range(s) \cup {h} /\ Distinct(u)
      BY <2>4, <2>5, <2>6, <2>10, AppendAdds
    <3>2. /\ DOMAIN s = 1..Len(s) /\ DOMAIN u = 1..(Len(s) + 1)
          /\ \A i \in 1..Len(s) : u[i] = s[i]
          /\ u[Len(s) + 1] = h
      BY <2>4, <2>6
    <3> HIDE DEF u
    <3> QED BY <3>1, <3>2, <2>5
  <2>12. Range(q) \cap Range(a) = {}
    BY <2>2, <2>3, <2>5, <2>6
  <2>13. r \in Seq(T) /\ Range(r) = Range(q) \cup N /\ Distinct(r)
    BY <2>2, <2>6, <2>12, ConcatKeeps
  <2> HIDE DEF u, r
  <2>14. c \in SearchState(T) /\ c.visited = b.visited \cup N /\ c.queue = r /\ c.selected = u
    <3>1. c = [visited |-> b.visited \cup N, queue |-> r, selected |-> u]
      BY <2>1 DEF u, r
    <3>2. b.visited \cup N \in SUBSET T
      BY <2>2, <2>4, Zenon
    <3> QED BY <3>1, <3>2, <2>11, <2>13 DEF SearchState
  <2>15. Searching(snapshot, policy, T, start, n + 1, c)
    <3>1. Range(u) \cap Range(r) = {}
      <4>1. \A x \in N : x \notin b.visited
        BY <2>3
      <4> QED BY <4>1, <2>5, <2>6, <2>10, <2>11, <2>13
    <3>2. b.visited \cup N = Range(u) \cup Range(r)
      BY <2>5, <2>6, <2>11, <2>13
    <3>3. start \in b.visited \cup N
      BY <2>5
    <3>4. Len(u) <= n + 1 /\ Len(u) = n + 1
      BY <2>11
    <3> QED BY <2>11, <2>13, <2>14, <3>1, <3>2, <3>3, <3>4 DEF Searching
  <2>16. Hanging(snapshot, policy, T, start, c)
    <3>1. u # <<>> /\ u[1] = start
      <4>0. u # <<>>
        BY <2>11
      <4>1. CASE s = <<>>
        <5>1. n = 0
          BY <4>1, <2>5
        <5>2. u[n + 1] = start
          BY <4>1, <2>9, <2>11
        <5> QED BY <4>0, <5>1, <5>2
      <4>2. CASE s # <<>>
        <5>1. 1 \in 1..n
          BY <4>2, <2>4, <2>5
        <5> QED BY <4>0, <4>2, <5>1, <2>7, <2>11
      <4> QED BY <4>1, <4>2
    <3>2. ASSUME NEW j \in DOMAIN u, j # 1
          PROVE  \E i \in DOMAIN u : i < j /\ Linked(snapshot, policy, u[i], u[j])
      <4>0. \A i \in 1..n : i \in DOMAIN u /\ i < n + 1
        BY <2>11
      <4>1. CASE j \in 1..n
        BY <4>0, <4>1, <3>2, <2>7, <2>11
      <4>2. CASE j = n + 1
        <5>1. s # <<>>
          BY <4>2, <3>2, <2>11, <2>5
        <5>2. PICK i \in DOMAIN s : Linked(snapshot, policy, s[i], h)
          BY <5>1, <2>7, <2>10
        <5> QED BY <4>0, <4>2, <5>2, <2>11
      <4>3. j \in 1..n \/ j = n + 1
        BY <2>11
      <4> QED BY <4>1, <4>2, <4>3
    <3>3. ASSUME NEW x \in Range(r)
          PROVE  \E i \in DOMAIN u : Linked(snapshot, policy, u[i], x)
      <4>1. CASE x \in N
        <5>1. n + 1 \in DOMAIN u /\ Linked(snapshot, policy, u[n + 1], x)
          BY <4>1, <2>3, <2>11
        <5> QED BY <5>1
      <4>2. CASE x \in Range(q) /\ s # <<>>
        <5>1. PICK i \in DOMAIN s : Linked(snapshot, policy, s[i], x)
          BY <4>2, <2>6, <2>7
        <5>2. i \in DOMAIN u /\ u[i] = s[i]
          BY <2>11
        <5> QED BY <5>1, <5>2
      <4>3. CASE x \in Range(q) /\ s = <<>>
        <5>1. b.queue = <<start>>
          BY <4>3, <2>7 DEF s
        <5>2. q = <<>>
          BY <5>1 DEF q
        <5> QED BY <4>3, <5>2 DEF Range
      <4> QED BY <4>1, <4>2, <4>3, <2>13
    <3> QED BY <2>14, <3>1, <3>2, <3>3 DEF Hanging
  <2>17. Seen(snapshot, policy, T, c)
    <3> SUFFICES ASSUME NEW x \in Range(u), NEW d \in T, Linked(snapshot, policy, x, d)
                 PROVE  d \in b.visited \cup N
      BY <2>14 DEF Seen
    <3>1. CASE x \in Range(s)
      BY <3>1, <2>8
    <3>2. CASE x = h
      BY <3>2, <2>3
    <3> QED BY <3>1, <3>2, <2>11
  <2> QED BY <2>15, <2>16, <2>17
<1> QED BY <1>1, <1>2

\* The search from one start after its last round.
LEMMA SearchedFrom ==
  ASSUME NEW snapshot, NEW policy, NEW requested \in Nat, NEW ids,
         Range(ids) \in SUBSET Nat, IsFiniteSet(Range(ids)), NEW start \in Range(ids),
         NEW b, b = searchConnected(snapshot, policy, requested, ids, start)[requested]
  PROVE  /\ Searching(snapshot, policy, Range(ids), start, requested, b)
         /\ Hanging(snapshot, policy, Range(ids), start, b)
         /\ Seen(snapshot, policy, Range(ids), b)
<1> DEFINE T == Range(ids)
           f == searchConnected(snapshot, policy, requested, ids, start)
           Inv(n) == /\ Searching(snapshot, policy, T, start, n, f[n])
                     /\ Hanging(snapshot, policy, T, start, f[n])
                     /\ Seen(snapshot, policy, T, f[n])
           S == {n \in 0..requested : Inv(n)}
<1>1. ConnectedRun(f, snapshot, policy, requested, T, start)
  BY ConnectedLoop
<1>t. T \in SUBSET Nat /\ IsFiniteSet(T) /\ start \in T
  OBVIOUS
<1> HIDE DEF T, f
<1>2. f[0] = StartFront(start) /\ \A n \in 1..requested : f[n] = ConnectedStep(snapshot, policy, T, f[n - 1])
  BY <1>1 DEF ConnectedRun
<1>3. 0 \in S
  <2> DEFINE c == StartFront(start)
  <2>1. c \in SearchState(T) /\ c.selected = <<>> /\ c.queue = <<start>> /\ c.visited = {start}
    BY <1>t DEF StartFront, SearchState
  <2>2. Range(<<>>) = {} /\ Range(<<start>>) = {start} /\ Distinct(<<>>) /\ Distinct(<<start>>)
    BY DEF Range, Distinct
  <2>3. Len(<<>>) = 0 /\ DOMAIN <<>> = {}
    OBVIOUS
  <2> HIDE DEF c
  <2>4. Searching(snapshot, policy, T, start, 0, c)
    BY <2>1, <2>2, <2>3 DEF Searching
  <2>5. Hanging(snapshot, policy, T, start, c)
    BY <2>1, <2>3 DEF Hanging
  <2>6. Seen(snapshot, policy, T, c)
    BY <2>1, <2>2 DEF Seen
  <2> QED BY <1>2, <2>4, <2>5, <2>6 DEF c
<1>4. ASSUME NEW n \in 1..requested, n - 1 \in S
      PROVE  n \in S
  <2>1. n - 1 \in Nat /\ (n - 1) + 1 = n /\ Inv(n - 1)
    BY <1>4
  <2>2. f[n] = ConnectedStep(snapshot, policy, T, f[n - 1])
    BY <1>2
  <2>3. /\ Searching(snapshot, policy, T, start, (n - 1) + 1, f[n])
        /\ Hanging(snapshot, policy, T, start, f[n])
        /\ Seen(snapshot, policy, T, f[n])
    BY <1>t, <2>1, <2>2, SearchingStep, Zenon
  <2> QED BY <2>1, <2>3
<1> HIDE DEF S
<1>5. 0..requested \subseteq S
  BY <1>3, <1>4, RoundInduction
<1>6. Inv(requested)
  BY <1>5 DEF S
<1> QED BY <1>6 DEF T, f

\* Devices that each hang on an earlier one are joined.
LEMMA HangingJoined ==
  ASSUME NEW snapshot, NEW policy, NEW T, Symmetric(snapshot, policy, T),
         NEW n \in Nat, NEW s \in [1..n -> T],
         \A j \in 1..n : j = 1 \/ \E i \in 1..n : i < j /\ Linked(snapshot, policy, s[i], s[j])
  PROVE  Joined(snapshot, policy, Range(s))
<1> SUFFICES ASSUME NEW P \in SUBSET Range(s), P # {}, P # Range(s)
             PROVE  \E a \in P, b \in Range(s) \ P : Linked(snapshot, policy, a, b)
  BY DEF Joined
<1>1. \A i \in 1..n : s[i] \in Range(s) /\ s[i] \in T
  BY DEF Range
<1>2. \A x \in Range(s) : \E i \in 1..n : x = s[i]
  BY DEF Range
<1> DEFINE in == {i \in 1..n : s[i] \in P}
           out == {i \in 1..n : s[i] \notin P}
<1>3. in # {} /\ in \in SUBSET Nat
  BY <1>2
<1>4. out # {} /\ out \in SUBSET Nat
  <2>1. PICK x \in Range(s) : x \notin P
    OBVIOUS
  <2>2. PICK i \in 1..n : x = s[i]
    BY <1>2
  <2> QED BY <2>1, <2>2
<1>5. CASE 1 \in in
  <2>1. PICK j \in out : \A k \in out : j <= k
    BY <1>4, SmallestOf, Zenon
  <2>2. PICK i \in 1..n : i < j /\ Linked(snapshot, policy, s[i], s[j])
    BY <1>5, <2>1
  <2>3. i \notin out
    BY <2>1, <2>2
  <2> QED BY <1>1, <2>1, <2>2, <2>3
<1>6. CASE 1 \notin in
  <2>1. PICK j \in in : \A k \in in : j <= k
    BY <1>3, SmallestOf, Zenon
  <2>2. PICK i \in 1..n : i < j /\ Linked(snapshot, policy, s[i], s[j])
    BY <1>6, <2>1
  <2>3. i \notin in
    BY <2>1, <2>2
  <2>4. Linked(snapshot, policy, s[j], s[i])
    BY <1>1, <2>1, <2>2 DEF Symmetric
  <2> QED BY <1>1, <2>1, <2>3, <2>4
<1> QED BY <1>5, <1>6

\* selectFabricConnected returns a joined set, and does when there is one.
LEMMA ConnectedChosen ==
  ASSUME NEW devices, NEW m, Listed(devices, m), NEW snapshot, NEW policy,
         Symmetric(snapshot, policy, IDs(devices)), NEW requested \in Nat \ {0},
         NEW selected, selected = selectFabricConnected(snapshot, devices, policy, requested)
  PROVE  /\ selected # <<>> =>
              Choice(selected, devices, requested) /\ Joined(snapshot, policy, Range(selected))
         /\ \A S \in kSubset(requested, IDs(devices)) : Joined(snapshot, policy, S) => selected # <<>>
<1> DEFINE ids == firstDeviceIDs(devices, Len(devices))
           T == IDs(devices)
           after(i) == searchConnected(snapshot, policy, requested, ids, ids[i])[requested]
           from(i) == after(i).selected
           starts == {i \in DOMAIN ids : Len(from(i)) = requested}
<1>1. /\ m \in Nat /\ ids \in [1..m -> T] /\ Range(ids) = T /\ T \in SUBSET Nat /\ DOMAIN ids = 1..m
  BY AllIDs
<1>2. IsFiniteSet(T)
  BY IDsOfListed
<1>3. selected = IF starts = {} THEN <<>> ELSE from(Min(starts))
  BY DEF selectFabricConnected
<1> HIDE DEF ids, T
<1>4. ASSUME NEW i \in 1..m
      PROVE  /\ ids[i] \in T
             /\ Searching(snapshot, policy, T, ids[i], requested, after(i))
             /\ Hanging(snapshot, policy, T, ids[i], after(i))
             /\ Seen(snapshot, policy, T, after(i))
  <2>1. ids[i] \in T
    BY <1>1
  <2> QED BY <1>1, <1>2, <2>1, SearchedFrom, Zenon
<1> HIDE DEF after
<1>5. starts \in SUBSET (1..m)
  BY <1>1
<1>6. ASSUME NEW i \in starts
      PROVE  /\ from(i) # <<>> /\ Choice(from(i), devices, requested)
             /\ Joined(snapshot, policy, Range(from(i)))
  <2>1. i \in 1..m /\ Len(from(i)) = requested
    BY <1>5
  <2>2. from(i) \in Seq(T) /\ Distinct(from(i))
    BY <1>4, <2>1 DEF Searching, SearchState
  <2>3. \A j \in DOMAIN from(i) : j = 1 \/
          \E k \in DOMAIN from(i) : k < j /\ Linked(snapshot, policy, from(i)[k], from(i)[j])
    BY <1>4, <2>1 DEF Hanging
  <2> HIDE DEF from, starts
  <2>4. from(i) \in [1..requested -> T] /\ DOMAIN from(i) = 1..requested /\ from(i) # <<>>
    BY <2>1, <2>2
  <2>5. Choice(from(i), devices, requested)
    BY <2>2, <2>4 DEF Choice, T
  <2>6. Joined(snapshot, policy, Range(from(i)))
    BY <2>3, <2>4, HangingJoined DEF T
  <2> QED BY <2>4, <2>5, <2>6
<1>7. starts # {} => Min(starts) \in starts
  <2>1. starts \in SUBSET Nat
    BY <1>1, <1>5
  <2> QED BY <2>1, MinOf
<1>8. ASSUME selected # <<>>
      PROVE  Choice(selected, devices, requested) /\ Joined(snapshot, policy, Range(selected))
  BY <1>3, <1>6, <1>7, <1>8
<1>9. ASSUME NEW S \in kSubset(requested, T), Joined(snapshot, policy, S)
      PROVE  selected # <<>>
  <2>1. S \in SUBSET T /\ Cardinality(S) = requested
    BY DEF kSubset
  <2>2. IsFiniteSet(S)
    BY <1>2, <2>1, FS_Subset
  <2>3. S # {}
    BY <2>1, FS_EmptySet
  <2>4. PICK i \in 1..m : ids[i] \in S
    BY <1>1, <2>1, <2>3, Zenon DEF Range
  <2> DEFINE b == after(i)
             s == b.selected
             n == Len(s)
  <2>5. /\ s \in Seq(T) /\ b.queue \in Seq(T) /\ Distinct(s) /\ b.visited = Range(s) \cup Range(b.queue)
        /\ ids[i] \in b.visited /\ n <= requested /\ (b.queue # <<>> => n = requested)
    BY <1>4 DEF Searching, SearchState
  <2>6. \A x \in Range(s), c \in T : Linked(snapshot, policy, x, c) => c \in b.visited
    BY <1>4 DEF Seen
  <2> HIDE DEF b, s, n
  <2>7. n \in Nat /\ s \in [1..n -> T]
    BY <2>5 DEF n
  <2>8. n = requested
    <3> SUFFICES ASSUME n # requested
                 PROVE  FALSE
      OBVIOUS
    <3>1. b.queue = <<>>
      BY <2>5
    <3>2. b.visited = Range(s)
      BY <2>5, <3>1 DEF Range
    <3>3. S \subseteq Range(s)
      <4> SUFFICES ASSUME ~(S \subseteq Range(s))
                   PROVE  FALSE
        OBVIOUS
      <4> DEFINE P == S \cap Range(s)
      <4>1. P \in SUBSET S /\ P # {} /\ P # S
        BY <2>4, <2>5, <3>2
      <4>2. PICK x \in P, y \in S \ P : Linked(snapshot, policy, x, y)
        BY <4>1, <1>9, Zenon DEF Joined
      <4>3. y \in T /\ y \notin Range(s) /\ x \in Range(s)
        BY <2>1
      <4> QED BY <4>2, <4>3, <2>6, <3>2
    <3>4. IsFiniteSet(Range(s)) /\ Cardinality(Range(s)) \in 0..n
      BY <2>7, RangeCardinality
    <3>5. Cardinality(S) <= Cardinality(Range(s))
      BY <3>3, <3>4, FS_Subset
    <3> QED BY <2>1, <2>5, <2>7, <3>4, <3>5
  <2>9. i \in starts
    BY <1>1, <2>8 DEF n, s, b
  <2> QED BY <1>3, <1>6, <1>7, <2>9
<1> QED BY <1>8, <1>9 DEF T

-------------------------------------------------------------------------------
\* selectDeviceIDs against the combinations.

\* The snapshot's links qualify from both ends or from neither.
LEMMA LinkedSymmetric ==
  ASSUME NEW s \in TopologySpec, Valid(s), NEW policy
  PROVE  Symmetric(Build(s), policy, IDs(s.devices))
<1> SUFFICES ASSUME NEW a \in IDs(s.devices), NEW b \in IDs(s.devices), Linked(Build(s), policy, a, b)
             PROVE  Linked(Build(s), policy, b, a)
  BY DEF Symmetric
<1> DEFINE link == LinkBetween(Build(s), a, b)
           back == LinkBetween(Build(s), b, a)
<1>1. Mirrored(link, back)
  BY LinkBetweenMirrored
<1>2. link # NoLink /\ qualifiesFabricLink(link, policy)
  BY DEF Linked
<1>3. Linked(Build(s), policy, b, a) <=> back # NoLink /\ qualifiesFabricLink(back, policy)
  BY DEF Linked
<1> HIDE DEF link, back
<1> QED BY <1>1, <1>2, <1>3, NoLinkIsNone DEF Mirrored, qualifiesFabricLink

\* selected is one of the combinations, and is found when there is one.
Decides(selected, combinations, count) ==
  /\ selected = <<>> <=> combinations = {}
  /\ selected # <<>> => Len(selected) = count /\ Range(selected) \in combinations

\* selectDeviceGroup finds devices of one group exactly when there are enough.
LEMMA GroupDecides ==
  ASSUME NEW s \in TopologySpec, Valid(s), NEW policy, NEW reserved, NEW devices,
         Offered(devices, s, policy, reserved), NEW key \in {"numaNode", "pcieRoot"},
         NEW allowUnknown \in BOOLEAN, NEW count \in 1..Len(devices),
         NEW selected, selected = selectDeviceGroup(devices, count, key, allowUnknown)
  PROVE  /\ selected # <<>> =>
              Choice(selected, devices, count) /\ Alike(s, allowUnknown, key, Range(selected))
         /\ \A S \in kSubset(count, IDs(devices)) : Alike(s, allowUnknown, key, S) => selected # <<>>
<1> DEFINE m == Len(devices)
           members(k) == Members(devices, key, k)
<1>1. Listed(devices, m) /\ m \in Nat /\ Range(devices) \subseteq Range(s.devices)
  BY OfferedFacts
<1>2. /\ DOMAIN devices = 1..m
      /\ \A k, l \in 1..m : devices[k].id = devices[l].id => k = l
      /\ IDs(devices) = {devices[k].id : k \in 1..m}
      /\ Range(devices) = {devices[k] : k \in 1..m}
  BY <1>1, ListedFacts
<1>u. \A d, e \in Range(s.devices) : d.id = e.id => d = e
  BY BuildDevices
<1>3. \/ /\ selected = <<>>
         /\ \A i \in 1..m : ~Suits(devices, key, allowUnknown, count, devices[i][key])
      \/ \E i \in 1..m : FromGroup(selected, devices, key, allowUnknown, count, devices[i][key])
  BY <1>1, GroupChosen
<1>c. count \in Nat \ {0} /\ m \in Nat
  BY <1>1
<1> HIDE DEF m
<1>4. ASSUME NEW i \in 1..m, FromGroup(selected, devices, key, allowUnknown, count, devices[i][key])
      PROVE  /\ selected # <<>> /\ Choice(selected, devices, count)
             /\ Alike(s, allowUnknown, key, Range(selected))
  <2> DEFINE k == devices[i][key]
             kept == keep(devices, members(k))
  <2>1. Choice(selected, kept, count) /\ (k # Unknown \/ allowUnknown)
    BY <1>4 DEF FromGroup, Suits
  <2>2. members(k) \in SUBSET (1..m)
    BY <1>2 DEF Members
  <2>3. /\ Listed(kept, Cardinality(members(k)))
        /\ Range(kept) = {devices[j] : j \in members(k)}
    BY <1>1, <2>2, KeepListed
  <2> HIDE DEF kept
  <2>4. /\ IDs(kept) = {kept[j].id : j \in 1..Cardinality(members(k))}
        /\ Range(kept) = {kept[j] : j \in 1..Cardinality(members(k))}
    BY <2>3, ListedFacts, Zenon
  <2>5. \A x \in IDs(kept) : \E j \in 1..m : devices[j][key] = k /\ x = devices[j].id
    <3>1. \A x \in IDs(kept) : \E d \in Range(kept) : x = d.id
      BY <2>4
    <3>2. \A d \in Range(kept) : \E j \in 1..m : devices[j][key] = k /\ d = devices[j]
      BY <1>2, <2>3 DEF Members
    <3> QED BY <3>1, <3>2
  <2>6. selected \in [1..count -> IDs(kept)] /\ Distinct(selected)
    BY <2>1 DEF Choice
  <2>7. IDs(kept) \subseteq IDs(devices)
    BY <1>2, <2>5
  <2>8. Choice(selected, devices, count)
    BY <2>6, <2>7 DEF Choice
  <2>9. selected # <<>>
    BY <1>c, <2>8, ChoiceIsSubset, Zenon
  <2>10. Range(selected) \subseteq IDs(kept)
    BY <2>6 DEF Range
  <2>11. ASSUME NEW d \in Range(s.devices), d.id \in Range(selected)
         PROVE  d[key] = k
    <3>1. PICK j \in 1..m : devices[j][key] = k /\ d.id = devices[j].id
      BY <2>5, <2>10, <2>11
    <3>2. devices[j] \in Range(s.devices)
      BY <1>1, <1>2
    <3> QED BY <3>1, <3>2, <1>u
  <2>12. Alike(s, allowUnknown, key, Range(selected))
    BY <2>1, <2>11 DEF Alike
  <2> QED BY <2>8, <2>9, <2>12
<1>5. ASSUME NEW S \in kSubset(count, IDs(devices)), Alike(s, allowUnknown, key, S)
      PROVE  \E i \in 1..m : Suits(devices, key, allowUnknown, count, devices[i][key])
  <2>1. S \subseteq IDs(devices) /\ Cardinality(S) = count /\ IsFiniteSet(S) /\ count \in Nat \ {0}
    BY <1>1, IDsOfListed DEF m
  <2>2. S # {}
    BY <2>1, FS_EmptySet
  <2>3. PICK i \in 1..m : devices[i].id \in S
    BY <1>2, <2>1, <2>2
  <2> DEFINE k == devices[i][key]
             ids == [j \in 1..m |-> devices[j].id]
             I == Places(ids, m, S)
  <2>4. /\ DOMAIN ids = 1..m /\ Distinct(ids) /\ S \in SUBSET Range(ids)
        /\ \A j \in 1..m : ids[j] = devices[j].id
    BY <1>2, <2>1 DEF Distinct, Range
  <2> HIDE DEF ids
  <2>5. IsFiniteSet(I) /\ Cardinality(I) = count
    BY <1>1, <2>1, <2>4, PlacesOf DEF m
  <2>6. \A j \in I : j \in 1..m /\ devices[j].id \in S
    BY <2>4 DEF Places
  <2>7. \A j \in I : devices[j][key] = k /\ (k # Unknown \/ allowUnknown)
    BY <1>1, <1>2, <1>5, <2>3, <2>6 DEF Alike
  <2>8. I \in SUBSET members(k)
    BY <1>2, <2>6, <2>7 DEF Members
  <2>9. IsFiniteSet(members(k)) /\ Cardinality(members(k)) \in Nat
    <3>1. members(k) \in SUBSET (1..m) /\ m \in Nat
      BY <1>1, <1>2 DEF Members, m
    <3>2. IsFiniteSet(1..m)
      <4>1. 1 \in Int /\ m \in Int
        BY <1>c
      <4> QED BY <4>1, FS_Interval
    <3>3. IsFiniteSet(members(k))
      BY <3>1, <3>2, FS_Subset
    <3> QED BY <3>3, FS_CardinalityType
  <2>10. Cardinality(I) <= Cardinality(members(k))
    BY <2>8, <2>9, FS_Subset
  <2>11. k # Unknown \/ allowUnknown
    BY <1>1, <1>2, <1>5, <2>3 DEF Alike
  <2> QED BY <2>1, <2>5, <2>9, <2>10, <2>11 DEF Suits
<1> QED BY <1>3, <1>4, <1>5

\* selectDeviceIDs decides whether there is a combination, for any reserved
\* devices and any count.
THEOREM SelectsCombination ==
  ASSUME NEW s \in TopologySpec, Valid(s), NEW policy, policy.mode \in Modes,
         policy.allowUnknown \in BOOLEAN, NEW reserved, NEW count \in Nat \ {0},
         NEW devices, Offered(devices, s, policy, reserved),
         NEW selected, selected = selectDeviceIDs(Build(s), devices, policy, count)
  PROVE  Decides(selected, CombinationsOf(Build(s), policy, reserved, count), count)
<1> DEFINE m == Len(devices)
           Q == IDs(devices)
           combinations == CombinationsOf(Build(s), policy, reserved, count)
<1>1. /\ Listed(devices, m) /\ m \in Nat
      /\ Q = IDs(eligibleDevices(Build(s), policy)) \ reserved
      /\ Q \subseteq IDs(s.devices)
  BY OfferedFacts
<1>2. combinations = {S \in kSubset(count, Q) : Satisfies(Build(s), policy, S)}
  BY <1>1 DEF CombinationsOf
<1>3. Symmetric(Build(s), policy, Q)
  BY <1>1, LinkedSymmetric DEF Symmetric
<1> SUFFICES Decides(selected, combinations, count)
  OBVIOUS
<1> HIDE DEF m, Q, combinations
<1>4. CASE m < count
  <2>1. selected = <<>>
    BY <1>4 DEF selectDeviceIDs, m
  <2>2. kSubset(count, Q) = {}
    <3>1. \A S \in kSubset(count, IDs(devices)) : count <= Len(devices)
      BY <1>1, IDsOfListed DEF m
    <3>2. \A S \in kSubset(count, Q) : count <= m
      BY <3>1 DEF Q, m
    <3>3. ~(count <= m)
      BY <1>1, <1>4
    <3> QED BY <3>2, <3>3
  <2> QED BY <1>2, <2>1, <2>2 DEF Decides
<1>5. CASE count <= m
  <2>0. ~(count < 1 \/ m < count) /\ count \in 1..m /\ count \in 0..m
    BY <1>1, <1>5
  <2>1. SUFFICES /\ selected # <<>> =>
                      Choice(selected, devices, count) /\ Satisfies(Build(s), policy, Range(selected))
                 /\ \A S \in kSubset(count, Q) : Satisfies(Build(s), policy, S) => selected # <<>>
    <3>1. selected # <<>> => Len(selected) = count /\ Range(selected) \in kSubset(count, Q)
      BY <2>1, ChoiceIsSubset DEF Q
    <3> QED BY <1>2, <2>1, <3>1 DEF Decides
  <2>2. \A S \in kSubset(count, Q) : S \in SUBSET IDs(s.devices)
    BY <1>1 DEF kSubset
  <2>3. Choice(selected, devices, count) => Range(selected) \in kSubset(count, Q)
    BY ChoiceIsSubset DEF Q
  <2>4. CASE policy.mode = "best-effort"
    <3>1. selected = firstDeviceIDs(devices, count)
      BY <2>0, <2>4 DEF selectDeviceIDs, m
    <3>2. Choice(selected, devices, count)
      BY <1>1, <2>0, <3>1, FirstChoice
    <3>3. selected # <<>> /\ Range(selected) \in SUBSET IDs(s.devices)
      BY <2>2, <2>3, <3>2, ChoiceIsSubset, Zenon
    <3> QED BY <2>4, <3>2, <3>3, SatisfiesFacts
  <2>5. CASE policy.mode = "single-numa"
    <3>1. selected = selectDeviceGroup(devices, count, "numaNode", policy.allowUnknown)
      BY <2>0, <2>5 DEF selectDeviceIDs, m
    <3>2. /\ selected # <<>> => Choice(selected, devices, count)
                                  /\ Alike(s, policy.allowUnknown, "numaNode", Range(selected))
          /\ \A S \in kSubset(count, Q) : Alike(s, policy.allowUnknown, "numaNode", S) => selected # <<>>
      BY <2>0, <3>1, GroupDecides DEF m, Q
    <3> QED BY <2>2, <2>3, <2>5, <3>2, SatisfiesFacts
  <2>6. CASE policy.mode = "same-pcie-root"
    <3>1. selected = selectDeviceGroup(devices, count, "pcieRoot", policy.allowUnknown)
      BY <2>0, <2>6 DEF selectDeviceIDs, m
    <3>2. /\ selected # <<>> => Choice(selected, devices, count)
                                  /\ Alike(s, policy.allowUnknown, "pcieRoot", Range(selected))
          /\ \A S \in kSubset(count, Q) : Alike(s, policy.allowUnknown, "pcieRoot", S) => selected # <<>>
      BY <2>0, <3>1, GroupDecides DEF m, Q
    <3> QED BY <2>2, <2>3, <2>6, <3>2, SatisfiesFacts
  <2>7. CASE policy.mode = "fabric-clique"
    <3>1. selected = selectFabricClique(Build(s), devices, policy, count)
      BY <2>0, <2>7 DEF selectDeviceIDs, m
    <3>2. /\ selected # <<>> => Choice(selected, devices, count)
                                  /\ Linking(Build(s), policy, Range(selected))
          /\ \A S \in kSubset(count, Q) : Linking(Build(s), policy, S) => selected # <<>>
      BY <1>1, <1>3, <3>1, CliqueChosen, Zenon DEF m, Q
    <3> QED BY <2>2, <2>3, <2>7, <3>2, SatisfiesFacts
  <2>8. CASE policy.mode = "fabric-connected"
    <3>1. selected = selectFabricConnected(Build(s), devices, policy, count)
      BY <2>0, <2>8 DEF selectDeviceIDs, m
    <3>2. /\ selected # <<>> => Choice(selected, devices, count)
                                  /\ Joined(Build(s), policy, Range(selected))
          /\ \A S \in kSubset(count, Q) : Joined(Build(s), policy, S) => selected # <<>>
      BY <1>1, <1>3, <3>1, ConnectedChosen, Zenon DEF m, Q
    <3> QED BY <2>2, <2>3, <2>8, <3>2, SatisfiesFacts
  <2> QED BY <2>4, <2>5, <2>6, <2>7, <2>8 DEF Modes
<1> QED BY <1>1, <1>4, <1>5

\* As many devices as places in the list have a key.
LEMMA MembersOfGroup ==
  ASSUME NEW devices, NEW m, Listed(devices, m), NEW key \in {"numaNode", "pcieRoot"}, NEW k
  PROVE  Cardinality({d \in Range(devices) : d[key] = k}) = Cardinality(Members(devices, key, k))
<1> DEFINE I == Members(devices, key, k)
           D == {d \in Range(devices) : d[key] = k}
           f == [i \in I |-> devices[i]]
<1>1. /\ m \in Nat /\ DOMAIN devices = 1..m /\ Range(devices) = {devices[i] : i \in 1..m}
      /\ \A i, j \in 1..m : devices[i].id = devices[j].id => i = j
  BY ListedFacts
<1>2. I = {i \in 1..m : devices[i][key] = k}
  BY <1>1 DEF Members
<1>3. OneToOne(f, I, D)
  BY <1>1, <1>2 DEF OneToOne
<1>4. IsFiniteSet(I)
  <2>1. IsFiniteSet(1..m)
    BY <1>1, FS_Interval
  <2> QED BY <1>2, <2>1, FS_Subset, Zenon
<1> QED BY <1>3, <1>4, SameSize

-------------------------------------------------------------------------------
\* The score against the selection.

\* The largest group of maxNUMAGroup and maxStringGroup.
Largest(g, devices, m, key, allowUnknown) ==
  /\ g \in 0..m
  /\ \A i \in 1..m : devices[i][key] # Unknown \/ allowUnknown =>
       Cardinality(Members(devices, key, devices[i][key])) <= g
  /\ g = 0 \/ \E i \in 1..m : /\ devices[i][key] # Unknown \/ allowUnknown
                              /\ Cardinality(Members(devices, key, devices[i][key])) = g

\* maxGroup returns the size of a largest group.
LEMMA MaxGroupLargest ==
  ASSUME NEW devices, NEW m, Listed(devices, m), NEW key, NEW allowUnknown
  PROVE  Largest(maxGroup(devices, key, allowUnknown), devices, m, key, allowUnknown)
<1> DEFINE counted == {i \in DOMAIN devices : devices[i][key] # Unknown \/ allowUnknown}
           Group(k) == {i \in counted : devices[i][key] = k}
           size(i) == Cardinality(Members(devices, key, devices[i][key]))
           T == {0} \cup {Cardinality(Group(devices[i][key])) : i \in counted}
           g == maxGroup(devices, key, allowUnknown)
<1>1. m \in Nat /\ DOMAIN devices = 1..m
  BY ListedFacts
<1>2. g = Max(T)
  BY DEF maxGroup
<1>3. \A i \in counted : Group(devices[i][key]) = Members(devices, key, devices[i][key])
  BY DEF Members
<1>4. \A i : size(i) \in 0..m
  <2> TAKE i
  <2> DEFINE I == Members(devices, key, devices[i][key])
  <2>1. I \in SUBSET (1..m)
    BY <1>1 DEF Members
  <2> HIDE DEF I
  <2>2. Cardinality(I) \in 0..m
    BY <1>1, <2>1, OrderedCount
  <2> QED BY <2>2 DEF I
<1> HIDE DEF Group, size
<1>5. T = {0} \cup {size(i) : i \in counted}
  BY <1>3 DEF size
<1>6. T \in SUBSET (0..m) /\ T # {}
  BY <1>1, <1>4, <1>5
<1> HIDE DEF T
<1>7. g \in T /\ \A x \in T : x <= g
  BY <1>1, <1>2, <1>6, MaxOf, Zenon
<1> HIDE DEF g
<1>8. \A i \in 1..m : devices[i][key] # Unknown \/ allowUnknown => size(i) <= g
  BY <1>1, <1>5, <1>7, Zenon
<1>9. g = 0 \/ \E i \in 1..m : (devices[i][key] # Unknown \/ allowUnknown) /\ size(i) = g
  BY <1>1, <1>5, <1>7
<1>10. g \in 0..m
  BY <1>6, <1>7
<1> QED BY <1>8, <1>9, <1>10, Zenon DEF Largest, size, g

\* selectDeviceGroup finds devices exactly when the largest group has enough.
LEMMA GroupFits ==
  ASSUME NEW devices, NEW m, Listed(devices, m), NEW key \in {"numaNode", "pcieRoot"},
         NEW allowUnknown \in BOOLEAN, NEW count \in 1..m
  PROVE  selectDeviceGroup(devices, count, key, allowUnknown) # <<>>
           <=> maxGroup(devices, key, allowUnknown) >= count
<1> DEFINE selected == selectDeviceGroup(devices, count, key, allowUnknown)
           g == maxGroup(devices, key, allowUnknown)
           size(i) == Cardinality(Members(devices, key, devices[i][key]))
<1>0. m \in Nat
  BY ListedFacts
<1>1. \/ /\ selected = <<>>
         /\ \A i \in 1..m : ~Suits(devices, key, allowUnknown, count, devices[i][key])
      \/ \E i \in 1..m : FromGroup(selected, devices, key, allowUnknown, count, devices[i][key])
  BY GroupChosen
<1>2. Largest(g, devices, m, key, allowUnknown)
  BY MaxGroupLargest
<1> HIDE DEF selected, g
<1>3. g \in 0..m
  BY <1>2 DEF Largest
<1>4. ASSUME NEW i \in 1..m, Suits(devices, key, allowUnknown, count, devices[i][key])
      PROVE  g >= count
  <2>1. (devices[i][key] # Unknown \/ allowUnknown) /\ size(i) >= count
    BY <1>4 DEF Suits
  <2>2. size(i) <= g
    BY <1>2, <2>1 DEF Largest
  <2>3. Members(devices, key, devices[i][key]) \in SUBSET (1..m)
    BY ListedFacts DEF Members
  <2>4. size(i) \in 0..m
    BY <1>0, <2>3, OrderedCount
  <2> QED BY <1>0, <1>3, <2>1, <2>2, <2>4
<1>5. ASSUME g >= count
      PROVE  \E i \in 1..m : Suits(devices, key, allowUnknown, count, devices[i][key])
  <2>1. g # 0
    BY <1>3, <1>5
  <2>2. PICK i \in 1..m : (devices[i][key] # Unknown \/ allowUnknown) /\ size(i) = g
    BY <1>2, <2>1 DEF Largest
  <2> QED BY <1>5, <2>2 DEF Suits
<1>6. ASSUME NEW i \in 1..m, FromGroup(selected, devices, key, allowUnknown, count, devices[i][key])
      PROVE  selected # <<>> /\ Suits(devices, key, allowUnknown, count, devices[i][key])
  <2>1. /\ Choice(selected, keep(devices, Members(devices, key, devices[i][key])), count)
        /\ Suits(devices, key, allowUnknown, count, devices[i][key])
    BY <1>6 DEF FromGroup
  <2>2. count \in Nat \ {0}
    BY <1>0
  <2> QED BY <2>1, <2>2, ChoiceIsSubset, Zenon
<1>7. selected # <<>> <=> g >= count
  BY <1>1, <1>4, <1>5, <1>6
<1> QED BY <1>7 DEF selected, g

\* The pairs of devices in the list that a policy links.
LinkedPairs(snapshot, devices, policy) ==
  {p \in Pairs(devices) : Linked(snapshot, policy, devices[p[1]].id, devices[p[2]].id)}

\* A list of m devices has m(m - 1) / 2 pairs, of which finitely many are linked.
LEMMA PairsAre ==
  ASSUME NEW devices, NEW m, Listed(devices, m), NEW snapshot, NEW policy
  PROVE  /\ Pairs(devices) = Ordered(1..m)
         /\ IsFiniteSet(Pairs(devices)) /\ Cardinality(Pairs(devices)) \in Nat
         /\ 2 * Cardinality(Pairs(devices)) = m * (m - 1)
         /\ LinkedPairs(snapshot, devices, policy) \subseteq Pairs(devices)
         /\ IsFiniteSet(LinkedPairs(snapshot, devices, policy))
         /\ Cardinality(LinkedPairs(snapshot, devices, policy)) \in Nat
<1>1. m \in Nat /\ DOMAIN devices = 1..m
  BY ListedFacts
<1>2. Pairs(devices) = Ordered(1..m)
  BY <1>1 DEF Pairs, Ordered
<1>3. Cardinality(1..m) = m
  <2>1. 1 \in Int /\ m \in Int
    BY <1>1
  <2> QED BY <1>1, <2>1, FS_Interval
<1>4. /\ IsFiniteSet(Ordered(1..m)) /\ Cardinality(Ordered(1..m)) \in Nat
      /\ 2 * Cardinality(Ordered(1..m)) = Cardinality(1..m) * (Cardinality(1..m) - 1)
  <2>1. 1..m \in SUBSET (1..m)
    OBVIOUS
  <2> QED BY <1>1, <2>1, OrderedCount
<1>5. LinkedPairs(snapshot, devices, policy) \subseteq Pairs(devices)
  BY DEF LinkedPairs
<1>6. /\ IsFiniteSet(LinkedPairs(snapshot, devices, policy))
      /\ Cardinality(LinkedPairs(snapshot, devices, policy)) \in Nat
  BY <1>2, <1>4, <1>5, FS_Subset, FS_CardinalityType
<1> QED BY <1>2, <1>3, <1>4, <1>5, <1>6

\* The clique mode finds count devices only when as many pairs as a clique of
\* that size has are linked, and finds all devices when all pairs are.
LEMMA CliqueFits ==
  ASSUME NEW s \in TopologySpec, Valid(s), NEW policy, policy.mode = "fabric-clique",
         policy.allowUnknown \in BOOLEAN, NEW reserved, NEW devices,
         Offered(devices, s, policy, reserved), NEW count \in 1..Len(devices)
  PROVE  /\ selectDeviceIDs(Build(s), devices, policy, count) # <<>> =>
              (count * (count - 1)) \div 2 <= Cardinality(LinkedPairs(Build(s), devices, policy))
         /\ LinkedPairs(Build(s), devices, policy) = Pairs(devices) =>
              selectDeviceIDs(Build(s), devices, policy, Len(devices)) # <<>>
<1> DEFINE m == Len(devices)
           Q == IDs(devices)
           E == LinkedPairs(Build(s), devices, policy)
           selected(n) == selectDeviceIDs(Build(s), devices, policy, n)
           combinations(n) == CombinationsOf(Build(s), policy, reserved, n)
<1>1. /\ Listed(devices, m) /\ m \in Nat
      /\ Q = IDs(eligibleDevices(Build(s), policy)) \ reserved
      /\ Q \subseteq IDs(s.devices)
  BY OfferedFacts
<1>2. /\ DOMAIN devices = 1..m /\ Q = {devices[k].id : k \in 1..m}
      /\ \A k, l \in 1..m : devices[k].id = devices[l].id => k = l
  BY <1>1, ListedFacts
<1>3. \A n \in Nat \ {0} : Decides(selected(n), combinations(n), n)
  <2> TAKE n \in Nat \ {0}
  <2>1. policy.mode \in Modes
    BY DEF Modes
  <2> QED BY <2>1, SelectsCombination
<1>4. ASSUME NEW n \in Int
      PROVE  /\ combinations(n) \subseteq kSubset(n, Q)
             /\ \A S \in kSubset(n, Q) : S \in combinations(n) <=> Linking(Build(s), policy, S)
  <2>1. combinations(n) = {S \in kSubset(n, Q) : Satisfies(Build(s), policy, S)}
    BY <1>1 DEF CombinationsOf
  <2>2. \A S \in kSubset(n, Q) : S \in SUBSET IDs(s.devices)
    BY <1>1 DEF kSubset
  <2>3. \A S \in kSubset(n, Q) : Satisfies(Build(s), policy, S) <=> Linking(Build(s), policy, S)
    BY <2>2, SatisfiesFacts
  <2> QED BY <2>1, <2>3
<1>5. /\ Pairs(devices) = Ordered(1..m)
      /\ E \subseteq Pairs(devices) /\ IsFiniteSet(E) /\ Cardinality(E) \in Nat
  BY <1>1, PairsAre
<1> HIDE DEF m, Q, selected, combinations
<1>6. ASSUME selected(count) # <<>>
      PROVE  (count * (count - 1)) \div 2 <= Cardinality(E)
  <2>0. count \in Nat \ {0} /\ count \in Int
    BY <1>1 DEF m
  <2> DEFINE S == Range(selected(count))
             K == {k \in 1..m : devices[k].id \in S}
             f == [k \in K |-> devices[k].id]
  <2>1. S \in combinations(count)
    BY <1>3, <1>6, <2>0 DEF Decides
  <2> HIDE DEF S
  <2>2. S \in kSubset(count, Q) /\ Linking(Build(s), policy, S)
    BY <1>4, <2>0, <2>1
  <2>3. S \subseteq Q /\ Cardinality(S) = count
    BY <2>2 DEF kSubset
  <2>4. K \in SUBSET (1..m)
    OBVIOUS
  <2>5. OneToOne(f, K, S)
    BY <1>2, <2>3 DEF OneToOne
  <2>6. /\ IsFiniteSet(K) /\ Cardinality(Ordered(K)) \in Nat /\ IsFiniteSet(Ordered(K))
        /\ 2 * Cardinality(Ordered(K)) = Cardinality(K) * (Cardinality(K) - 1)
    BY <1>1, <2>4, OrderedCount
  <2>7. Cardinality(K) = count
    <3> HIDE DEF K, f
    <3> QED BY <2>3, <2>5, <2>6, SameSize
  <2>8. Ordered(K) \subseteq E
    <3> SUFFICES ASSUME NEW p \in Ordered(K)
                 PROVE  p \in E
      OBVIOUS
    <3>1. p[1] \in K /\ p[2] \in K /\ p[1] < p[2] /\ p = <<p[1], p[2]>>
      BY DEF Ordered
    <3>2. p \in Pairs(devices)
      BY <1>5, <3>1 DEF Ordered
    <3>3. devices[p[1]].id # devices[p[2]].id
      BY <1>1, <1>2, <3>1
    <3>4. Linked(Build(s), policy, devices[p[1]].id, devices[p[2]].id)
      BY <2>2, <3>1, <3>3 DEF Linking
    <3> QED BY <3>2, <3>4 DEF LinkedPairs
  <2>9. Cardinality(Ordered(K)) <= Cardinality(E)
    BY <1>5, <2>8, FS_Subset
  <2>10. (count * (count - 1)) \div 2 = Cardinality(Ordered(K))
    BY <2>0, <2>6, <2>7, HalfOf
  <2> QED BY <2>9, <2>10
<1>7. ASSUME E = Pairs(devices)
      PROVE  selected(m) # <<>>
  <2>0. m \in Nat \ {0} /\ m \in Int
    BY <1>1 DEF m
  <2>1. Q \in kSubset(m, Q)
    <3>1. Cardinality(Q) = m
      BY <1>1, IDsOfListed, Zenon DEF Q
    <3> QED BY <3>1 DEF kSubset
  <2>2. Linking(Build(s), policy, Q)
    <3> SUFFICES ASSUME NEW a \in Q, NEW b \in Q, a # b
                 PROVE  Linked(Build(s), policy, a, b)
      BY DEF Linking
    <3>1. PICK i \in 1..m : a = devices[i].id
      BY <1>2
    <3>2. PICK j \in 1..m : b = devices[j].id
      BY <1>2
    <3>3. ASSUME NEW k \in 1..m, NEW l \in 1..m, k < l
          PROVE  Linked(Build(s), policy, devices[k].id, devices[l].id)
      <4>1. <<k, l>> \in Ordered(1..m)
        BY <3>3 DEF Ordered
      <4>2. <<k, l>> \in E
        BY <1>5, <1>7, <4>1
      <4> QED BY <4>2 DEF LinkedPairs
    <3>4. CASE i < j
      BY <3>1, <3>2, <3>3, <3>4
    <3>5. CASE j < i
      <4>1. Linked(Build(s), policy, b, a)
        BY <3>1, <3>2, <3>3, <3>5
      <4>2. Symmetric(Build(s), policy, IDs(s.devices))
        BY LinkedSymmetric
      <4> QED BY <1>1, <4>1, <4>2 DEF Symmetric
    <3>6. i # j
      BY <3>1, <3>2
    <3> QED BY <1>1, <3>4, <3>5, <3>6
  <2>3. combinations(m) # {}
    BY <1>4, <2>0, <2>1, <2>2
  <2> QED BY <1>3, <2>0, <2>3 DEF Decides
<1> QED BY <1>6, <1>7 DEF selected, m

\* A policy with another mode.
InMode(policy, mode) == [policy EXCEPT !.mode = mode]

\* Whether selectDeviceIDs finds count devices in another mode.
Selecting(snapshot, devices, policy, mode, count) ==
  selectDeviceIDs(snapshot, devices, InMode(policy, mode), count) # <<>>

\* The mode of a policy changes neither which devices it accepts nor which links.
LEMMA InModeFacts ==
  ASSUME NEW policy \in PolicySpec, NEW mode
  PROVE  /\ InMode(policy, mode).mode = mode
         /\ InMode(policy, mode).allowUnknown = policy.allowUnknown
         /\ InMode(policy, policy.mode) = policy
         /\ \A d : Eligible(d, InMode(policy, mode)) <=> Eligible(d, policy)
         /\ \A snapshot, a, b : Linked(snapshot, InMode(policy, mode), a, b)
                                  <=> Linked(snapshot, policy, a, b)
<1> DEFINE p == InMode(policy, mode)
<1>1. /\ p.mode = mode /\ p.allowUnknown = policy.allowUnknown
      /\ p.minMemory = policy.minMemory /\ p.resourceName = policy.resourceName
      /\ p.minBandwidth = policy.minBandwidth /\ p.maxHops = policy.maxHops
  BY DEF InMode, PolicySpec
<1>2. InMode(policy, policy.mode) = policy
  BY DEF InMode, PolicySpec
<1> HIDE DEF p
<1>3. \A health : Accepted(health, p) <=> Accepted(health, policy)
  BY <1>1 DEF Accepted
<1>4. \A d : Eligible(d, p) <=> Eligible(d, policy)
  BY <1>1, <1>3 DEF Eligible
<1>5. \A link : qualifiesFabricLink(link, p) <=> qualifiesFabricLink(link, policy)
  BY <1>1, <1>3 DEF qualifiesFabricLink
<1>6. \A snapshot, a, b : Linked(snapshot, p, a, b) <=> Linked(snapshot, policy, a, b)
  BY <1>5 DEF Linked
<1> QED BY <1>1, <1>2, <1>4, <1>6 DEF p

\* The locality modes find count devices only if the locality feature is at least
\* their share, and find all n devices if it is 100.
LocalityAgrees(snapshot, devices, policy, count, n, locality) ==
  LET finds(k) == \/ Selecting(snapshot, devices, policy, "single-numa", k)
                  \/ Selecting(snapshot, devices, policy, "same-pcie-root", k)
  IN /\ finds(count) => locality >= percentage(count, n)
     /\ locality = 100 => finds(n)
     /\ locality \in 0..100

\* The same for the clique mode and the fabric feature, in pairs of devices.
FabricAgrees(snapshot, devices, policy, count, n, fabric) ==
  LET finds(k) == Selecting(snapshot, devices, policy, "fabric-clique", k)
  IN /\ finds(count) => fabric >= percentage((count * (count - 1)) \div 2, (n * (n - 1)) \div 2)
     /\ fabric = 100 => finds(n)
     /\ fabric \in 0..100

\* The locality feature reflects what the two locality modes find.
LEMMA LocalityReflects ==
  ASSUME NEW snapshot, NEW policy \in PolicySpec, NEW devices, NEW n, Listed(devices, n),
         NEW count \in 1..n, NEW remaining, NEW allocatable
  PROVE  LocalityAgrees(snapshot, devices, policy, count, n,
           scoreFeatures(snapshot, devices, policy, count, remaining, allocatable).locality)
<1> DEFINE g(key) == maxGroup(devices, key, policy.allowUnknown)
           best == Max({g("numaNode"), g("pcieRoot")})
           locality == scoreFeatures(snapshot, devices, policy, count, remaining, allocatable).locality
           finds(k) == \/ Selecting(snapshot, devices, policy, "single-numa", k)
                       \/ Selecting(snapshot, devices, policy, "same-pcie-root", k)
<1>1. n \in Nat /\ Len(devices) = n
  BY ListedFacts
<1>2. policy.allowUnknown \in BOOLEAN
  BY DEF PolicySpec
<1>3. g("numaNode") \in 0..n /\ g("pcieRoot") \in 0..n
  <2>1. /\ Largest(g("numaNode"), devices, n, "numaNode", policy.allowUnknown)
        /\ Largest(g("pcieRoot"), devices, n, "pcieRoot", policy.allowUnknown)
    BY MaxGroupLargest
  <2> QED BY <2>1 DEF Largest
<1>4. ASSUME NEW k \in 1..n
      PROVE  /\ Selecting(snapshot, devices, policy, "single-numa", k) <=> g("numaNode") >= k
             /\ Selecting(snapshot, devices, policy, "same-pcie-root", k) <=> g("pcieRoot") >= k
  <2>1. ~(k < 1 \/ Len(devices) < k)
    BY <1>1
  <2>2. /\ InMode(policy, "single-numa").mode = "single-numa"
        /\ InMode(policy, "single-numa").allowUnknown = policy.allowUnknown
        /\ InMode(policy, "same-pcie-root").mode = "same-pcie-root"
        /\ InMode(policy, "same-pcie-root").allowUnknown = policy.allowUnknown
    BY InModeFacts
  <2>3. selectDeviceIDs(snapshot, devices, InMode(policy, "single-numa"), k)
          = selectDeviceGroup(devices, k, "numaNode", policy.allowUnknown)
    BY <2>1, <2>2 DEF selectDeviceIDs
  <2>4. selectDeviceIDs(snapshot, devices, InMode(policy, "same-pcie-root"), k)
          = selectDeviceGroup(devices, k, "pcieRoot", policy.allowUnknown)
    BY <2>1, <2>2 DEF selectDeviceIDs
  <2>5. selectDeviceGroup(devices, k, "numaNode", policy.allowUnknown) # <<>> <=> g("numaNode") >= k
    BY <1>2, GroupFits
  <2>6. selectDeviceGroup(devices, k, "pcieRoot", policy.allowUnknown) # <<>> <=> g("pcieRoot") >= k
    BY <1>2, GroupFits
  <2> QED BY <2>3, <2>4, <2>5, <2>6 DEF Selecting
<1>5. locality = percentage(best, n)
  BY <1>1 DEF scoreFeatures
<1> HIDE DEF g
<1>6. /\ best \in {g("numaNode"), g("pcieRoot")}
      /\ g("numaNode") <= best /\ g("pcieRoot") <= best
  <2>1. {g("numaNode"), g("pcieRoot")} \in SUBSET (0..n) /\ {g("numaNode"), g("pcieRoot")} # {}
    BY <1>3
  <2> QED BY <1>1, <2>1, MaxOf, Zenon
<1> HIDE DEF best
<1>7. best \in Nat /\ best <= n
  BY <1>1, <1>3, <1>6
<1>8. ASSUME NEW k \in 1..n
      PROVE  finds(k) <=> best >= k
  <2>1. finds(k) <=> g("numaNode") >= k \/ g("pcieRoot") >= k
    BY <1>4
  <2> HIDE DEF finds
  <2> QED BY <1>1, <1>3, <1>6, <1>7, <2>1
<1> HIDE DEF finds, locality
<1>9. finds(count) => locality >= percentage(count, n)
  <2>1. SUFFICES ASSUME best >= count PROVE percentage(best, n) >= percentage(count, n)
    BY <1>5, <1>8
  <2>2. count \in Int /\ best \in Int /\ n \in Int /\ count <= best
    BY <1>1, <1>7, <2>1
  <2>3. percentage(count, n) <= percentage(best, n)
    BY <2>2, PercentageMonotone
  <2>4. percentage(count, n) \in 0..100 /\ percentage(best, n) \in 0..100
    BY <2>2, PercentageBounds, Zenon
  <2> QED BY <2>3, <2>4
<1>10. locality = 100 => finds(n)
  <2>1. SUFFICES ASSUME percentage(best, n) = 100 PROVE finds(n)
    BY <1>5
  <2>2. best \in Int /\ n \in Int /\ n \in 1..n
    BY <1>1, <1>7
  <2>3. best >= n
    BY <2>1, <2>2, WholePercentage
  <2> QED BY <1>8, <2>2, <2>3
<1>11. locality \in 0..100
  <2>1. best \in Int /\ n \in Int
    BY <1>1, <1>7
  <2>2. percentage(best, n) \in 0..100
    BY <2>1, PercentageBounds, SMTT(30)
  <2> QED BY <1>5, <2>2
<1> QED BY <1>9, <1>10, <1>11 DEF LocalityAgrees, finds, locality

\* The fabric feature reflects what the clique mode finds.
LEMMA FabricReflects ==
  ASSUME NEW s \in TopologySpec, Valid(s), NEW policy \in PolicySpec, NEW reserved, NEW devices,
         Offered(devices, s, policy, reserved), NEW count \in 1..Len(devices),
         NEW remaining, NEW allocatable
  PROVE  FabricAgrees(Build(s), devices, policy, count, Len(devices),
           scoreFeatures(Build(s), devices, policy, count, remaining, allocatable).fabric)
<1> DEFINE n == Len(devices)
           p == InMode(policy, "fabric-clique")
           E == LinkedPairs(Build(s), devices, policy)
           c == Cardinality(Pairs(devices))
           fabric == scoreFeatures(Build(s), devices, policy, count, remaining, allocatable).fabric
           finds(k) == Selecting(Build(s), devices, policy, "fabric-clique", k)
           half(k) == (k * (k - 1)) \div 2
<1>1. Listed(devices, n) /\ n \in Nat /\ count \in Nat
  BY OfferedFacts
<1>2. /\ p.mode = "fabric-clique" /\ p.allowUnknown \in BOOLEAN
      /\ \A d : Eligible(d, p) <=> Eligible(d, policy)
      /\ \A a, b : Linked(Build(s), p, a, b) <=> Linked(Build(s), policy, a, b)
  BY InModeFacts DEF PolicySpec
<1>3. fabric = percentage(Cardinality(E), c)
  BY DEF scoreFeatures, LinkedPairs
<1>4. /\ IsFiniteSet(Pairs(devices)) /\ c \in Nat /\ 2 * c = n * (n - 1)
      /\ E \subseteq Pairs(devices) /\ IsFiniteSet(E) /\ Cardinality(E) \in Nat
  BY <1>1, PairsAre
<1>5. half(n) = c
  BY <1>1, <1>4, HalfOf, SMTT(30)
<1> HIDE DEF p
<1>6. Offered(devices, s, p, reserved)
  BY <1>2 DEF Offered
<1>7. LinkedPairs(Build(s), devices, p) = E
  BY <1>2 DEF LinkedPairs
<1>8. /\ selectDeviceIDs(Build(s), devices, p, count) # <<>> => half(count) <= Cardinality(E)
      /\ E = Pairs(devices) => selectDeviceIDs(Build(s), devices, p, n) # <<>>
  BY <1>2, <1>6, <1>7, CliqueFits
<1>9. \A k : finds(k) <=> selectDeviceIDs(Build(s), devices, p, k) # <<>>
  BY DEF Selecting, p
<1>10. half(count) \in Int
  <2>1. count * (count - 1) \in Int
    BY <1>1
  <2> QED BY <2>1
<1> HIDE DEF half, finds, E, c, fabric
<1>11. finds(count) => fabric >= percentage(half(count), half(n))
  <2>1. SUFFICES ASSUME half(count) <= Cardinality(E)
                 PROVE  percentage(Cardinality(E), c) >= percentage(half(count), c)
    BY <1>3, <1>5, <1>8, <1>9
  <2>2. percentage(half(count), c) <= percentage(Cardinality(E), c)
    BY <1>4, <1>10, <2>1, PercentageMonotone
  <2>3. percentage(half(count), c) \in 0..100 /\ percentage(Cardinality(E), c) \in 0..100
    <3>1. Cardinality(E) \in Int /\ c \in Int
      BY <1>4
    <3> QED BY <1>10, <3>1, PercentageBounds, Zenon
  <2> QED BY <2>2, <2>3
<1>12. fabric = 100 => finds(n)
  <2>1. SUFFICES ASSUME percentage(Cardinality(E), c) = 100 PROVE E = Pairs(devices)
    BY <1>3, <1>8, <1>9
  <2>2. Cardinality(E) >= c
    BY <1>4, <2>1, WholePercentage
  <2>3. Cardinality(E) <= c /\ (Cardinality(E) = c => E = Pairs(devices))
    BY <1>4, FS_Subset DEF c
  <2> QED BY <1>4, <2>2, <2>3
<1>13. fabric \in 0..100
  <2>1. Cardinality(E) \in Int /\ c \in Int
    BY <1>4
  <2>2. percentage(Cardinality(E), c) \in 0..100
    BY <2>1, PercentageBounds, Zenon
  <2> QED BY <1>3, <2>2
<1> QED BY <1>11, <1>12, <1>13 DEF FabricAgrees, half, finds, fabric

\* A node is feasible exactly when the scalar resource and the topology have
\* room, and its score is then the weighted mean.
VerdictAgrees(verdict, snapshot, devices, policy, count, used, total, features) ==
  /\ verdict.feasible <=>
       used + count <= total /\ selectDeviceIDs(snapshot, devices, policy, count) # <<>>
  /\ verdict.feasible => verdict.score = weightedMean(features, policy.weights)

\* The scalar resource has room for count devices when its headroom, which is
\* cut off at 0, does.
LEMMA HeadroomDecides ==
  ASSUME NEW total \in Nat, NEW used \in Int, NEW count \in Nat \ {0}
  PROVE  /\ scalarHeadroom(total, used) \in Int
         /\ scalarHeadroom(total, used) >= count <=> used + count <= total
BY DEF scalarHeadroom

\* Fragmentation and headroom are percentages.
LEMMA RoomIsPercentage ==
  ASSUME NEW total \in Nat, NEW remaining \in Int, NEW count \in Nat \ {0}, NEW n \in Nat
  PROVE  percentage(count, n) \in 0..100 /\ percentage(remaining - count, total) \in 0..100
<1>1. count \in Int /\ n \in Int /\ remaining - count \in Int /\ total \in Int
  OBVIOUS
<1> QED BY <1>1, PercentageBounds, Zenon

\* The features have their types once locality and fabric do.
LEMMA FeaturesTyped ==
  ASSUME NEW snapshot, NEW devices, NEW policy, NEW total \in Nat, NEW remaining \in Int,
         NEW count \in Nat \ {0}, Len(devices) \in Nat, NEW features,
         features = scoreFeatures(snapshot, devices, policy, count, remaining, total),
         features.locality \in 0..100, features.fabric \in 0..100
  PROVE  features \in Features
<1> DEFINE a == percentage(count, Len(devices))
           b == percentage(remaining - count, total)
<1>1. \E x, y : features = [locality |-> x, fabric |-> y, fragmentation |-> a, headroom |-> b]
  BY Zenon DEF scoreFeatures
<1>2. a \in 0..100 /\ b \in 0..100
  BY RoomIsPercentage, Zenon
<1> HIDE DEF a, b
<1>3. PICK x, y : features = [locality |-> x, fabric |-> y, fragmentation |-> a, headroom |-> b]
  BY <1>1, Zenon
<1>4. x \in 0..100 /\ y \in 0..100
  BY <1>3, SMTT(30)
<1> QED BY <1>2, <1>3, <1>4, SMTT(30) DEF Features

\* evaluate's verdict on a node whose topology is ready.
LEMMA VerdictIs ==
  ASSUME NEW snapshot, NEW policy \in PolicySpec, ValidWeights(policy.weights), NEW reserved,
         NEW total \in Nat, NEW used \in Int, NEW count \in Nat \ {0}, NEW devices,
         devices = excludeReservedDevices(eligibleDevices(snapshot, policy), reserved),
         Len(devices) \in Nat, count <= Len(devices),
         NEW features,
         features = scoreFeatures(snapshot, devices, policy, count, scalarHeadroom(total, used), total),
         features.locality \in 0..100, features.fabric \in 0..100
  PROVE  VerdictAgrees(evaluate([ready |-> TRUE, snapshot |-> snapshot], policy, reserved,
                                count, used, total),
                       snapshot, devices, policy, count, used, total, features)
<1> DEFINE verdict == evaluate([ready |-> TRUE, snapshot |-> snapshot], policy, reserved,
                               count, used, total)
           remaining == scalarHeadroom(total, used)
           fits == /\ Len(devices) >= count /\ remaining >= count
                   /\ selectDeviceIDs(snapshot, devices, policy, count) # <<>>
<1>1. verdict = IF ~fits THEN [feasible |-> FALSE, score |-> 0]
                ELSE [feasible |-> TRUE, score |-> weightedScore(features, policy.weights)]
  BY ZenonT(30) DEF evaluate
<1>2. remaining \in Int /\ (remaining >= count <=> used + count <= total)
  BY HeadroomDecides, ZenonT(30)
<1>3. features = scoreFeatures(snapshot, devices, policy, count, remaining, total)
  BY ZenonT(30)
<1> HIDE DEF verdict, fits, remaining
<1>4. features \in Features
  BY <1>2, <1>3, FeaturesTyped, SMTT(30)
<1>5. policy.weights \in Weights
  BY SMTT(30) DEF PolicySpec, Weights
<1>6. weightedScore(features, policy.weights) = weightedMean(features, policy.weights)
  BY <1>4, <1>5, ScoreNeverClamped, ZenonT(30)
<1>7. fits <=> used + count <= total /\ selectDeviceIDs(snapshot, devices, policy, count) # <<>>
  BY <1>2, SMTT(30) DEF fits
<1>8. (verdict.feasible <=> fits) /\ (fits => verdict.score = weightedScore(features, policy.weights))
  <2>1. CASE fits
    BY <1>1, <2>1, SMTT(30)
  <2>2. CASE ~fits
    BY <1>1, <2>2, SMTT(30)
  <2> QED BY <2>1, <2>2, ZenonT(30)
<1> QED BY <1>6, <1>7, <1>8, ZenonT(30) DEF VerdictAgrees, verdict
===============================================================================
