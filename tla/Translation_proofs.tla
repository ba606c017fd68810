-------------------------- MODULE Translation_proofs --------------------------
(***************************************************************************)
(* The algorithms around the snapshot, for inputs of any size: preferred   *)
(* allocation, the DRA driver's attributes and the claims made against     *)
(* them, and NVIDIA discovery.  The lemmas say what the loops compute.     *)
(***************************************************************************)
EXTENDS Snapshot_proofs, DRATranslation, NVIDIAProvider, PreferredAllocation

-------------------------------------------------------------------------------
\* The device plugin: preferredDevices.

\* sorted keeps the elements of a list and puts them in ascending order.
LEMMA SortedSorts ==
  ASSUME NEW T \in SUBSET Int, NEW n \in Nat, NEW ids \in [1..n -> T]
  PROVE  /\ sorted(ids) \in [1..n -> T]
         /\ Range(sorted(ids)) = Range(ids)
         /\ \A k, l \in 1..n : k < l => sorted(ids)[k] <= sorted(ids)[l]
<1> DEFINE D == DOMAIN ids
           before == {p \in D \X D : ids[p[1]] < ids[p[2]] \/ (ids[p[1]] = ids[p[2]] /\ p[1] < p[2])}
           a == inOrder(D, before)
           s == sorted(ids)
<1>1. \A x, y \in D : <<x, y>> \in before <=> ids[x] < ids[y] \/ (ids[x] = ids[y] /\ x < y)
  OBVIOUS
<1>2. s = [k \in D |-> ids[a[k]]]
  BY DEF sorted
<1>3. D = 1..n
  OBVIOUS
<1> HIDE DEF before, D, s
<1>4. Orders(before, D)
  <2>0. \A x \in D : x \in Int /\ ids[x] \in T
    BY <1>3
  <2>1. \A x \in D : x \in Int /\ ids[x] \in Int
    BY <2>0, Zenon
  <2> QED BY <1>1, <2>1 DEF Orders
<1>5. IsFiniteSet(D) /\ Cardinality(D) = n
  BY <1>3, FS_Interval
<1>6. InOrder(D, before, a)
  BY <1>4, <1>5, InOrderSorts
<1> HIDE DEF a
<1>7. a \in [1..n -> D] /\ \A x \in D : \E k \in 1..n : a[k] = x
  BY <1>5, <1>6, Zenon DEF InOrder
<1>8. \A k, l \in 1..n : <<a[k], a[l]>> \in before <=> k < l
  BY <1>5, <1>6, Zenon DEF InOrder
<1>9. s \in [1..n -> T] /\ \A k \in 1..n : s[k] = ids[a[k]]
  <2>1. \A k \in 1..n : ids[a[k]] \in T
    BY <1>3, <1>7
  <2> QED BY <2>1, <1>2, <1>3
<1>10. ASSUME NEW x
       PROVE  x \in Range(s) <=> x \in Range(ids)
  <2>1. x \in Range(s) <=> \E k \in 1..n : x = s[k]
    BY <1>9 DEF Range
  <2>2. x \in Range(ids) <=> \E k \in D : x = ids[k]
    BY <1>3 DEF Range
  <2> QED BY <2>1, <2>2, <1>3, <1>7, <1>9
<1>11. ASSUME NEW k \in 1..n, NEW l \in 1..n, k < l
       PROVE  s[k] <= s[l]
  <2>1. a[k] \in D /\ a[l] \in D /\ <<a[k], a[l]>> \in before
    BY <1>7, <1>8, <1>11
  <2>2. ids[a[k]] \in Int /\ ids[a[l]] \in Int
    BY <2>1, <1>3, Zenon
  <2>3. ids[a[k]] < ids[a[l]] \/ ids[a[k]] = ids[a[l]]
    BY <2>1, <1>1
  <2>4. s[k] = ids[a[k]] /\ s[l] = ids[a[l]]
    BY <1>9
  <2> QED BY <2>2, <2>3, <2>4
<1> QED BY <1>9, <1>10, <1>11, Zenon DEF s

\* A run of the loop of addAll.
AddRun(f, T, base, N, ids, limit) ==
  /\ f \in [0..N -> Seq(T)]
  /\ f[0] = base
  /\ \A n \in 1..N : f[n] = addNew(f[n - 1], ids[n], limit)
  /\ addAll(base, ids, limit) = f[N]

\* addAll is the last state of the loop that adds one ID after the other.
LEMMA AddAllLoop ==
  ASSUME NEW T, NEW base \in Seq(T), NEW N \in Nat, NEW ids \in [1..N -> T], NEW limit \in Int
  PROVE  \E f : AddRun(f, T, base, N, ids, limit)
<1> DEFINE V == Seq(T)
           g == [x \in V \X (1..N) |-> addNew(x[1], ids[x[2]], limit)]
           Loop(f) == f = [n \in 0..N |-> IF n = 0 THEN base ELSE addNew(f[n - 1], ids[n], limit)]
           after == CHOOSE f : Loop(f)
<1>1. addAll(base, ids, limit) = after[N]
  BY ListOf, Zenon DEF addAll
<1>2. \A x \in V, n \in 1..N : addNew(x, ids[n], limit) \in V
  BY DEF addNew
<1>3. base \in V
  OBVIOUS
<1> HIDE DEF V
<1>4. g \in Rounds(V, N)
  BY <1>2 DEF Rounds
<1>g. ASSUME NEW x \in V, NEW n \in 1..N
      PROVE  g[<<x, n>>] = addNew(x, ids[n], limit)
  OBVIOUS
<1> HIDE DEF g
<1>5. PICK f : Runs(f, N, V, base, g)
  BY <1>3, <1>4, LoopExists, Zenon
<1>r. f \in [0..N -> V] /\ f[0] = base
  BY <1>5 DEF Runs
<1>6. ASSUME NEW n \in 1..N
      PROVE  f[n] = addNew(f[n - 1], ids[n], limit)
  <2>1. n - 1 \in 0..N
    OBVIOUS
  <2>2. f[n - 1] \in V
    BY <2>1, <1>r
  <2>3. f[n] = g[<<f[n - 1], n>>]
    BY <1>5 DEF Runs
  <2> QED BY <2>2, <2>3, <1>g, Zenon
<1>7. Loop(after)
  <2>1. \A n \in 0..N : f[n] = IF n = 0 THEN base ELSE addNew(f[n - 1], ids[n], limit)
    BY <1>r, <1>6
  <2>2. Loop(f)
    BY <2>1, <1>r
  <2> HIDE DEF Loop
  <2> QED BY <2>2
<1> HIDE DEF after
<1>8. after[0] = base
  BY <1>7
<1>h. ASSUME NEW n \in 1..N, after[n - 1] \in V
      PROVE  after[n] = g[<<after[n - 1], n>>]
  <2>1. after[n] = addNew(after[n - 1], ids[n], limit)
    BY <1>7
  <2> QED BY <2>1, <1>h, <1>g, Zenon
<1>9. after[N] = f[N]
  <2>0. Follows(after, N, V, base, g)
    BY <1>8, <1>h, Zenon DEF Follows
  <2>1. \A n \in 0..N : after[n] = f[n]
    BY <1>5, <2>0, LoopUnique, SMT
  <2> QED BY <2>1
<1> QED BY <1>1, <1>r, <1>6, <1>9, Zenon DEF V, AddRun

\* What selected is after n IDs of the list: base and the first IDs it lacks, as
\* many as the limit allows.
Added(r, T, base, ids, n, limit) ==
  /\ r \in Seq(T) /\ Distinct(r)
  /\ Range(base) \subseteq Range(r)
  /\ Len(base) <= limit => Len(r) <= limit
  /\ \A x \in Range(r) : x \in Range(base) \/ \E i \in 1..n : ids[i] = x
  /\ Len(r) < limit => \A i \in 1..n : ids[i] \in Range(r)
  /\ \A j \in 1..n : ids[j] \notin Range(r) =>
       \A x \in Range(r) \ Range(base) : \E i \in 1..(j - 1) : ids[i] = x

\* One ID more.
LEMMA AddNewAdds ==
  ASSUME NEW T, NEW base \in Seq(T), NEW N \in Nat, NEW ids \in [1..N -> T], NEW limit \in Int,
         NEW n \in 1..N, NEW r, Added(r, T, base, ids, n - 1, limit)
  PROVE  Added(addNew(r, ids[n], limit), T, base, ids, n, limit)
<1> DEFINE id == ids[n]
<1>0. id \in T /\ r \in Seq(T) /\ Len(r) \in Nat
  BY DEF Added
<1>m. \A i \in 1..n : i \in 1..(n - 1) \/ i = n
  OBVIOUS
<1>i. \A i \in 1..(n - 1) : i \in 1..n
  OBVIOUS
<1>1. CASE Len(r) < limit /\ id \notin Range(r)
  <2> DEFINE t == Append(r, id)
  <2>1. addNew(r, ids[n], limit) = t
    BY <1>1 DEF addNew
  <2>2. /\ t \in Seq(T) /\ Len(t) = Len(r) + 1
        /\ Range(t) = Range(r) \cup {id}
        /\ Distinct(t)
    BY <1>0, <1>1, AppendAdds DEF Added
  <2> HIDE DEF t
  <2>3. \A i \in 1..n : ids[i] \in Range(t)
    BY <2>2, <1>1, <1>m DEF Added
  <2>4. Len(base) <= limit => Len(t) <= limit
    BY <2>2, <1>0, <1>1
  <2>5. \A x \in Range(t) : x \in Range(base) \/ \E i \in 1..n : ids[i] = x
    <3>1. \A x \in Range(r) : x \in Range(base) \/ \E i \in 1..n : ids[i] = x
      BY <1>i DEF Added
    <3>2. n \in 1..n
      OBVIOUS
    <3> QED BY <3>1, <3>2, <2>2
  <2>6. Range(base) \subseteq Range(t)
    BY <2>2 DEF Added
  <2> QED BY <2>1, <2>2, <2>3, <2>4, <2>5, <2>6 DEF Added
<1>2. CASE ~(Len(r) < limit /\ id \notin Range(r))
  <2>1. addNew(r, ids[n], limit) = r
    BY <1>2 DEF addNew
  <2>2. \A x \in Range(r) : x \in Range(base) \/ \E i \in 1..n : ids[i] = x
    BY <1>i DEF Added
  <2>3. Len(r) < limit => \A i \in 1..n : ids[i] \in Range(r)
    BY <1>2, <1>m DEF Added
  <2>4. ASSUME NEW j \in 1..n, ids[j] \notin Range(r), NEW x \in Range(r) \ Range(base)
        PROVE  \E i \in 1..(j - 1) : ids[i] = x
    <3>1. CASE j = n
      BY <3>1 DEF Added
    <3>2. CASE j \in 1..(n - 1)
      BY <2>4, <3>2 DEF Added
    <3> QED BY <3>1, <3>2, <1>m
  <2> QED BY <2>1, <2>2, <2>3, <2>4 DEF Added
<1> QED BY <1>1, <1>2

\* addAll after its last ID.
LEMMA AddAllAdds ==
  ASSUME NEW T, NEW base \in Seq(T), Distinct(base), NEW N \in Nat, NEW ids \in [1..N -> T],
         NEW limit \in Int
  PROVE  Added(addAll(base, ids, limit), T, base, ids, N, limit)
<1>0. PICK f : AddRun(f, T, base, N, ids, limit)
  BY AddAllLoop
<1>1. /\ f[0] = base
      /\ \A n \in 1..N : f[n] = addNew(f[n - 1], ids[n], limit)
      /\ addAll(base, ids, limit) = f[N]
  BY <1>0, Zenon DEF AddRun
<1> DEFINE S == {n \in 0..N : Added(f[n], T, base, ids, n, limit)}
<1>2. 0 \in S
  <2>1. Added(base, T, base, ids, 0, limit)
    BY DEF Added
  <2> QED BY <1>1, <2>1
<1>3. ASSUME NEW n \in 1..N, n - 1 \in S
      PROVE  n \in S
  <2>1. Added(f[n - 1], T, base, ids, n - 1, limit)
    BY <1>3
  <2>2. Added(addNew(f[n - 1], ids[n], limit), T, base, ids, n, limit)
    BY <2>1, AddNewAdds
  <2> QED BY <1>1, <2>2
<1> HIDE DEF S
<1>4. 0..N \subseteq S
  BY <1>2, <1>3, RoundInduction, Zenon
<1>5. N \in S
  BY <1>4
<1> QED BY <1>1, <1>5 DEF S

\* preferredDevices on any request whose available devices do not repeat.
THEOREM PreferredExact ==
  ASSUME NEW available \in Seq(Nat), Distinct(available), NEW must \in Seq(Nat), NEW size \in Int,
         NEW answer,
         answer = preferredDevices([available |-> available, must |-> must, size |-> size])
  PROVE  /\ answer # Refused <=>
              \E S \in SUBSET Range(available) : Range(must) \subseteq S /\ Cardinality(S) = size
         /\ answer # Refused =>
              /\ Len(answer) = size /\ Cardinality(Range(answer)) = size
              /\ Range(must) \subseteq Range(answer) /\ Range(answer) \subseteq Range(available)
              /\ \A a \in Range(answer) \ Range(must), b \in Range(available) \ Range(answer) : a < b
<1> DEFINE A == Range(available)
           M == Range(must)
           n == Len(available)
           m == Len(must)
           required == addAll(<<>>, sorted(must), m)
           refuses == size \notin 0..n \/ ~(M \subseteq A) \/ Len(required) > size
           chosen == addAll(required, sorted(available), size)
<1>1. answer = IF refuses THEN Refused ELSE chosen
  BY DEF preferredDevices
<1>2. available \in [1..n -> Nat] /\ n \in Nat /\ must \in [1..m -> Nat] /\ m \in Nat
  OBVIOUS
<1>3. IsFiniteSet(A) /\ Cardinality(A) = n /\ A \subseteq Nat
  BY <1>2, RangeCardinality, Zenon
<1>4. IsFiniteSet(M) /\ Cardinality(M) \in 0..m
  BY <1>2, RangeCardinality, Zenon
<1>5. /\ sorted(must) \in [1..m -> Nat] /\ Range(sorted(must)) = M
      /\ sorted(available) \in [1..n -> Nat] /\ Range(sorted(available)) = A
      /\ \A k, l \in 1..n : k < l => sorted(available)[k] <= sorted(available)[l]
  <2>1. Nat \in SUBSET Int
    OBVIOUS
  <2> QED BY <1>2, <2>1, SortedSorts, Zenon
<1> HIDE DEF n, m, A, M
\* The required devices, each once.
<1>6. /\ required \in Seq(Nat) /\ Distinct(required) /\ Range(required) = M
      /\ Len(required) = Cardinality(M)
  <2>1. <<>> \in Seq(Nat) /\ Distinct(<<>>) /\ Range(<<>>) = {} /\ Len(<<>>) = 0
    BY DEF Distinct, Range
  <2>2. Added(required, Nat, <<>>, sorted(must), m, m)
    <3>1. m \in Int
      BY <1>2
    <3> HIDE DEF required
    <3> QED BY <2>1, <1>2, <1>5, <3>1, AddAllAdds, Zenon DEF required
  <2> HIDE DEF required
  <2>3. required \in Seq(Nat) /\ Distinct(required) /\ Len(required) \in Nat /\ Len(required) <= m
    BY <2>1, <2>2, <1>2 DEF Added
  <2>4. Range(required) \subseteq M
    BY <2>1, <2>2, <1>5, Zenon DEF Added, Range
  <2>5. required \in [1..Len(required) -> Nat]
    BY <2>3
  <2>6. IsFiniteSet(Range(required)) /\ Cardinality(Range(required)) = Len(required)
    BY <2>3, <2>5, RangeCardinality, Zenon
  <2>7. M \subseteq Range(required)
    <3>1. CASE Len(required) < m
      BY <3>1, <2>2, <1>5 DEF Added, Range
    <3>2. CASE Len(required) = m
      <4>1. Cardinality(M) <= Cardinality(Range(required))
        BY <3>2, <2>6, <1>2, <1>4
      <4>2. Cardinality(Range(required)) <= Cardinality(M) /\
            (Cardinality(M) = Cardinality(Range(required)) => M = Range(required))
        BY <2>4, <1>4, FS_Subset
      <4>3. Cardinality(M) \in Nat /\ Cardinality(Range(required)) \in Nat
        BY <1>4, <2>3, <2>6
      <4> QED BY <4>1, <4>2, <4>3
    <3> QED BY <2>3, <3>1, <3>2, <1>2
  <2>8. Range(required) = M
    BY <2>4, <2>7, Zenon
  <2> QED BY <2>3, <2>6, <2>8
<1> HIDE DEF required
\* When it does not refuse.
<1>7. ASSUME ~refuses
      PROVE  /\ chosen \in Seq(Nat)
             /\ Len(chosen) = size /\ Cardinality(Range(chosen)) = size
             /\ M \subseteq Range(chosen) /\ Range(chosen) \subseteq A
             /\ \A a \in Range(chosen) \ M, b \in A \ Range(chosen) : a < b
  <2>1. size \in 0..n /\ M \subseteq A /\ Len(required) <= size /\ Len(required) \in Nat
    BY <1>2, <1>6, <1>7
  <2> DEFINE s == sorted(available)
  <2>2. Added(chosen, Nat, required, s, n, size)
    <3>1. size \in Int
      OBVIOUS
    <3> QED BY <1>2, <1>5, <1>6, <3>1, AddAllAdds, Zenon
  <2> HIDE DEF s, chosen
  <2>3. /\ chosen \in Seq(Nat) /\ Distinct(chosen) /\ Len(chosen) \in Nat
        /\ M \subseteq Range(chosen) /\ Len(chosen) <= size
    BY <2>1, <2>2, <1>6 DEF Added
  <2>4. Range(s) = A /\ s \in [1..n -> Nat] /\ \A i \in 1..n : s[i] \in A
    BY <1>5, Zenon DEF s, Range
  <2>5. Range(chosen) \subseteq A
    BY <2>1, <2>2, <2>4, <1>6 DEF Added
  <2>6. IsFiniteSet(Range(chosen)) /\ Cardinality(Range(chosen)) = Len(chosen)
    <3>1. chosen \in [1..Len(chosen) -> Nat]
      BY <2>3
    <3> QED BY <2>3, <3>1, RangeCardinality, Zenon
  <2>7. Len(chosen) = size
    <3> SUFFICES ASSUME Len(chosen) < size
                 PROVE  FALSE
      BY <2>1, <2>3
    <3>1. A \subseteq Range(chosen)
      BY <2>2, <2>4 DEF Added, Range
    <3>2. Cardinality(Range(chosen)) = n
      BY <3>1, <2>5, <1>3, Zenon
    <3> QED BY <3>2, <2>1, <2>6, <1>2
  <2>8. ASSUME NEW a \in Range(chosen) \ M, NEW b \in A \ Range(chosen)
        PROVE  a < b
    <3>1. PICK j \in 1..n : s[j] = b
      BY <2>4 DEF Range
    <3>2. PICK i \in 1..(j - 1) : s[i] = a
      BY <3>1, <2>2, <1>6 DEF Added
    <3>3. i \in 1..n /\ i < j /\ s[i] \in Nat /\ s[j] \in Nat
      BY <2>4, <1>2
    <3>4. s[i] <= s[j]
      BY <3>3, <1>5 DEF s
    <3> QED BY <3>1, <3>2, <3>3, <3>4
  <2> QED BY <2>3, <2>5, <2>6, <2>7, <2>8
<1>8. ASSUME ~refuses
      PROVE  chosen # Refused
  <2>1. Refused = <<-1>> /\ Refused[1] = -1 /\ Len(Refused) = 1
    BY DEF Refused
  <2>2. chosen \in Seq(Nat)
    BY <1>7, <1>8
  <2> HIDE DEF chosen
  <2> SUFFICES ASSUME chosen = Refused
               PROVE  FALSE
    OBVIOUS
  <2>3. chosen[1] \in Nat
    BY <2>1, <2>2
  <2> QED BY <2>1, <2>3
<1>9. ASSUME NEW S \in SUBSET A, M \subseteq S, Cardinality(S) = size
      PROVE  ~refuses
  <2>1. IsFiniteSet(S) /\ Cardinality(S) <= Cardinality(A)
    BY <1>3, FS_Subset, Zenon
  <2>2. Cardinality(S) \in Nat
    BY <2>1, FS_CardinalityType
  <2>3. Cardinality(M) <= Cardinality(S)
    BY <2>1, <1>9, FS_Subset
  <2> QED BY <2>1, <2>2, <2>3, <1>2, <1>3, <1>4, <1>6, <1>9
<1> HIDE DEF refuses, chosen
<1> QED BY <1>1, <1>7, <1>8, <1>9 DEF A, M

-------------------------------------------------------------------------------
\* The fabric facts of a device.

\* A run of the loop of fabricByID.
FactsRun(f, s, id, N) ==
  /\ f[0] = NoFacts
  /\ \A n \in 1..N : f[n] = IF CountsFor(s, s.links[n], id) THEN addLink(f[n - 1], s.links[n])
                            ELSE f[n - 1]
  /\ fabricByID(s, id) = f[N]

\* fabricByID runs addLink over the links that count.
LEMMA FactsLoop ==
  ASSUME NEW s \in TopologySpec, NEW id
  PROVE  \E f : FactsRun(f, s, id, Len(s.links))
<1> DEFINE N == Len(s.links)
           links == s.links
           V == [found : BOOLEAN, linkType : LinkTypes \cup {"none"}, minBandwidth : Int, maxHops : Int]
           Round(x, n) == IF CountsFor(s, links[n], id) THEN addLink(x, links[n]) ELSE x
           g == [x \in V \X (1..N) |-> Round(x[1], x[2])]
           Loop(f) == f = [n \in 0..N |-> IF n = 0 THEN NoFacts ELSE Round(f[n - 1], n)]
           after == CHOOSE f : Loop(f)
<1>0. N \in Nat /\ \A n \in 1..N : links[n] \in Link
  BY DEF TopologySpec
<1>1. fabricByID(s, id) = after[N]
  BY DEF fabricByID
<1> HIDE DEF N, links
<1>2. ASSUME NEW x \in V, NEW n \in 1..N
      PROVE  Round(x, n) \in V
  <2>1. links[n].bandwidth \in Int /\ links[n].hops \in Int /\ links[n].type \in LinkTypes
    BY <1>0 DEF Link
  <2>2. addLink(x, links[n]) \in V
    BY <2>1 DEF addLink
  <2> QED BY <2>2
<1>3. NoFacts \in V
  BY DEF NoFacts
<1> HIDE DEF V, Round
<1>4. g \in Rounds(V, N)
  BY <1>2 DEF Rounds
<1>5. ASSUME NEW x \in V, NEW n \in 1..N
      PROVE  g[<<x, n>>] = Round(x, n)
  OBVIOUS
<1> HIDE DEF g
<1>6. PICK f : Runs(f, N, V, NoFacts, g)
  BY <1>0, <1>3, <1>4, LoopExists, Zenon
<1>7. f \in [0..N -> V] /\ f[0] = NoFacts
  BY <1>6 DEF Runs
<1>8. ASSUME NEW n \in 1..N
      PROVE  f[n] = Round(f[n - 1], n)
  <2>1. n - 1 \in 0..N
    BY <1>0
  <2>2. f[n - 1] \in V
    BY <2>1, <1>7
  <2>3. f[n] = g[<<f[n - 1], n>>]
    BY <1>6 DEF Runs
  <2> QED BY <2>2, <2>3, <1>5, Zenon
<1>9. Loop(after)
  <2>1. \A n \in 0..N : f[n] = IF n = 0 THEN NoFacts ELSE Round(f[n - 1], n)
    BY <1>0, <1>7, <1>8
  <2>2. Loop(f)
    BY <2>1, <1>7
  <2> HIDE DEF Loop
  <2> QED BY <2>2
<1> HIDE DEF after
<1>10. after[0] = NoFacts
  BY <1>0, <1>9
<1>11. ASSUME NEW n \in 1..N
       PROVE  after[n] = Round(after[n - 1], n)
  BY <1>0, <1>9
<1>12. FactsRun(after, s, id, N)
  BY <1>1, <1>10, <1>11 DEF FactsRun, Round, links
<1> QED BY <1>12 DEF N

\* The facts of the links at the places in K: the type of one of them, the least
\* bandwidth and the most hops.
Summary(facts, links, K, t, i, j) ==
  /\ facts = [found |-> TRUE, linkType |-> links[t].type, minBandwidth |-> links[i].bandwidth,
              maxHops |-> links[j].hops]
  /\ \A k \in K : links[i].bandwidth <= links[k].bandwidth /\ links[k].hops <= links[j].hops

SumsUp(facts, links, K) ==
  \/ K = {} /\ facts = NoFacts
  \/ \E t, i, j \in K : Summary(facts, links, K, t, i, j)

\* One link more in the facts.
LEMMA SumsUpStep ==
  ASSUME NEW links, NEW K, NEW n, \A k \in K \cup {n} : links[k].bandwidth \in Nat /\ links[k].hops \in Nat,
         NEW facts, SumsUp(facts, links, K)
  PROVE  SumsUp(addLink(facts, links[n]), links, K \cup {n})
<1> DEFINE l == links[n]
           next == addLink(facts, l)
           b(k) == links[k].bandwidth
           h(k) == links[k].hops
<1>0. l.bandwidth \in Nat /\ l.hops \in Nat
  OBVIOUS
<1>1. CASE K = {} /\ facts = NoFacts
  <2>1. next = [found |-> TRUE, linkType |-> l.type, minBandwidth |-> l.bandwidth, maxHops |-> l.hops]
    <3>1. facts.found = FALSE /\ facts.maxHops = 0
      BY <1>1 DEF NoFacts
    <3>2. (IF l.hops > facts.maxHops THEN l.hops ELSE facts.maxHops) = l.hops
      BY <1>0, <3>1
    <3> HIDE DEF l
    <3> QED BY <3>1, <3>2, Zenon DEF addLink
  <2> QED BY <1>0, <1>1, <2>1 DEF SumsUp, Summary
<1>2. ASSUME NEW t \in K, NEW i \in K, NEW j \in K, Summary(facts, links, K, t, i, j)
      PROVE  SumsUp(next, links, K \cup {n})
  <2>0. /\ facts.found = TRUE /\ facts.minBandwidth = b(i) /\ facts.maxHops = h(j)
        /\ \A k \in K : b(i) <= b(k) /\ h(k) <= h(j)
    BY <1>2 DEF Summary
  <2>1. PICK p \in {i, n} : /\ next.minBandwidth = b(p) /\ \A k \in K \cup {n} : b(p) <= b(k)
    <3>1. CASE b(n) < b(i)
      BY <2>0, <3>1 DEF addLink
    <3>2. CASE ~(b(n) < b(i))
      BY <2>0, <3>2 DEF addLink
    <3> QED BY <3>1, <3>2
  <2>2. PICK q \in {j, n} : next.maxHops = h(q) /\ \A k \in K \cup {n} : h(k) <= h(q)
    <3>1. CASE h(n) > h(j)
      BY <2>0, <3>1 DEF addLink
    <3>2. CASE ~(h(n) > h(j))
      BY <2>0, <3>2 DEF addLink
    <3> QED BY <3>1, <3>2
  <2>3. next = [found |-> TRUE, linkType |-> links[n].type, minBandwidth |-> b(p), maxHops |-> h(q)]
    BY <2>1, <2>2, Zenon DEF addLink
  <2>4. p \in K \cup {n} /\ q \in K \cup {n} /\ n \in K \cup {n}
    OBVIOUS
  <2> HIDE DEF next
  <2>5. Summary(next, links, K \cup {n}, n, p, q)
    BY <2>1, <2>2, <2>3, Zenon DEF Summary
  <2> QED BY <2>4, <2>5, Zenon DEF SumsUp
<1> QED BY <1>1, <1>2, Zenon DEF SumsUp

\* fabricByID sums up the links that count for the device.
LEMMA FabricFacts ==
  ASSUME NEW s \in TopologySpec, Valid(s), NEW id
  PROVE  SumsUp(fabricByID(s, id), s.links, {k \in DOMAIN s.links : CountsFor(s, s.links[k], id)})
<1> DEFINE N == Len(s.links)
           links == s.links
           Counted(n) == {k \in 1..n : CountsFor(s, links[k], id)}
<1>0. N \in Nat /\ DOMAIN links = 1..N
  BY DEF TopologySpec
<1>1. \A k \in 1..N : links[k].bandwidth \in Nat /\ links[k].hops \in Nat
  <2> TAKE k \in 1..N
  <2>1. links[k] \in Link /\ links[k].bandwidth >= 0 /\ links[k].hops >= 0
    BY <1>0 DEF TopologySpec, Valid, validateLink
  <2> QED BY <2>1 DEF Link
<1>2. PICK f : FactsRun(f, s, id, N)
  BY FactsLoop
<1> DEFINE S == {n \in 0..N : SumsUp(f[n], links, Counted(n))}
<1>3. 0 \in S
  <2>1. Counted(0) = {} /\ f[0] = NoFacts
    BY <1>2 DEF FactsRun
  <2> QED BY <1>0, <2>1 DEF SumsUp
<1>4. ASSUME NEW n \in 1..N, n - 1 \in S
      PROVE  n \in S
  <2>1. f[n] = IF CountsFor(s, links[n], id) THEN addLink(f[n - 1], links[n]) ELSE f[n - 1]
    BY <1>2 DEF FactsRun
  <2>2. SumsUp(f[n - 1], links, Counted(n - 1))
    BY <1>4
  <2>3. \A k \in 1..n : k \in 1..(n - 1) \/ k = n
    BY <1>0
  <2>4. n \in 0..N /\ n \in 1..n /\ \A k \in 1..(n - 1) : k \in 1..n /\ k \in 1..N
    BY <1>0
  <2>5. CASE CountsFor(s, links[n], id)
    <3>1. Counted(n) = Counted(n - 1) \cup {n}
      BY <2>3, <2>4, <2>5
    <3>2. \A k \in Counted(n - 1) \cup {n} : links[k].bandwidth \in Nat /\ links[k].hops \in Nat
      BY <1>1, <2>4
    <3> HIDE DEF Counted, links
    <3>3. SumsUp(addLink(f[n - 1], links[n]), links, Counted(n - 1) \cup {n})
      BY <2>2, <3>2, SumsUpStep, Zenon
    <3> QED BY <2>1, <2>4, <2>5, <3>1, <3>3, Zenon
  <2>6. CASE ~CountsFor(s, links[n], id)
    <3>1. Counted(n) = Counted(n - 1)
      BY <2>3, <2>4, <2>6
    <3> QED BY <2>1, <2>2, <2>4, <2>6, <3>1, Zenon
  <2> QED BY <2>5, <2>6
<1>5. 0..N \subseteq S
  <2> HIDE DEF S
  <2> QED BY <1>0, <1>3, <1>4, RoundInduction, Zenon
<1>6. SumsUp(f[N], links, Counted(N))
  <2>1. N \in 0..N
    BY <1>0
  <2> QED BY <1>5, <2>1, Zenon
<1>7. fabricByID(s, id) = f[N]
  BY <1>2 DEF FactsRun
<1>8. Counted(N) = {k \in DOMAIN links : CountsFor(s, links[k], id)}
  BY <1>0
<1> QED BY <1>6, <1>7, <1>8, Zenon

\* The two facts are the same, except for types that occur among the links.
AlikeFacts(facts, other, types) ==
  /\ other.found = facts.found /\ other.minBandwidth = facts.minBandwidth
  /\ other.maxHops = facts.maxHops
  /\ other.linkType = facts.linkType \/ (facts.linkType \in types /\ other.linkType \in types)

\* The facts depend only on the types, bandwidths and hops.
LEMMA SumsUpAlike ==
  ASSUME NEW links, NEW K, NEW others, NEW J, NEW facts, NEW other,
         SumsUp(facts, links, K), SumsUp(other, others, J),
         \A k \in K : links[k].bandwidth \in Nat /\ links[k].hops \in Nat,
         \A j \in J : others[j].bandwidth \in Nat /\ others[j].hops \in Nat,
         \A k \in K : \E j \in J : others[j].bandwidth = links[k].bandwidth /\ others[j].hops = links[k].hops,
         \A j \in J : \E k \in K : /\ links[k].bandwidth = others[j].bandwidth
                                  /\ links[k].hops = others[j].hops /\ links[k].type = others[j].type
  PROVE  AlikeFacts(facts, other, {links[k].type : k \in K})
<1>1. CASE K = {}
  <2>1. J = {}
    BY <1>1
  <2>2. facts = NoFacts /\ other = NoFacts
    BY <1>1, <2>1 DEF SumsUp
  <2> QED BY <2>2 DEF AlikeFacts
<1>2. CASE K # {}
  <2>1. J # {}
    BY <1>2
  <2>2. PICK t, i, j \in K : Summary(facts, links, K, t, i, j)
    BY <1>2, Zenon DEF SumsUp
  <2>3. PICK u, p, q \in J : Summary(other, others, J, u, p, q)
    BY <2>1, Zenon DEF SumsUp
  <2>4. links[i].bandwidth = others[p].bandwidth
    <3>1. links[i].bandwidth <= others[p].bandwidth
      BY <2>2, <2>3 DEF Summary
    <3>2. others[p].bandwidth <= links[i].bandwidth
      BY <2>2, <2>3 DEF Summary
    <3> QED BY <3>1, <3>2
  <2>5. links[j].hops = others[q].hops
    <3>1. others[q].hops <= links[j].hops
      BY <2>2, <2>3 DEF Summary
    <3>2. links[j].hops <= others[q].hops
      BY <2>2, <2>3 DEF Summary
    <3> QED BY <3>1, <3>2
  <2>6. PICK k \in K : links[k].type = others[u].type
    BY <2>3
  <2>7. /\ facts.found = TRUE /\ other.found = TRUE
        /\ facts.minBandwidth = links[i].bandwidth /\ other.minBandwidth = others[p].bandwidth
        /\ facts.maxHops = links[j].hops /\ other.maxHops = others[q].hops
        /\ facts.linkType = links[t].type /\ other.linkType = others[u].type
    BY <2>2, <2>3 DEF Summary
  <2>8. facts.linkType \in {links[m].type : m \in K} /\ other.linkType \in {links[m].type : m \in K}
    <3>1. t \in K /\ k \in K /\ facts.linkType = links[t].type /\ other.linkType = links[k].type
      BY <2>2, <2>6, <2>7
    <3> QED BY <3>1
  <2> QED BY <2>4, <2>5, <2>7, <2>8, Zenon DEF AlikeFacts
<1> QED BY <1>1, <1>2

-------------------------------------------------------------------------------
\* The order in which links are declared.

\* The same devices, and the same links in another order or from other ends.
Rearranged(s, t) ==
  /\ t.observedGeneration = s.observedGeneration /\ t.devices = s.devices
  /\ DOMAIN t.links = DOMAIN s.links
  /\ \E p \in [DOMAIN s.links -> DOMAIN s.links] :
       /\ \A i \in DOMAIN s.links : p[p[i]] = i
       /\ \A i \in DOMAIN s.links : t.links[i] \in {s.links[p[i]], flipped(s.links[p[i]])}

\* Rearranging can be undone.
LEMMA RearrangedBack ==
  ASSUME NEW s \in TopologySpec, NEW t, Rearranged(s, t)
  PROVE  Rearranged(t, s)
<1> DEFINE D == DOMAIN s.links
<1>1. PICK p \in [D -> D] :
        /\ \A i \in D : p[p[i]] = i
        /\ \A i \in D : t.links[i] \in {s.links[p[i]], flipped(s.links[p[i]])}
  BY DEF Rearranged
<1>2. \A i \in D : s.links[i] \in Link
  BY DEF TopologySpec
<1>3. ASSUME NEW i \in D
      PROVE  s.links[i] \in {t.links[p[i]], flipped(t.links[p[i]])}
  <2>1. p[i] \in D /\ p[p[i]] = i
    BY <1>1
  <2>2. t.links[p[i]] \in {s.links[i], flipped(s.links[i])}
    BY <1>1, <2>1
  <2> QED BY <1>2, <2>2, EitherEnd
<1>4. DOMAIN t.links = D
  BY DEF Rearranged
<1> HIDE DEF D
<1>5. \E q \in [D -> D] :
        /\ \A i \in D : q[q[i]] = i
        /\ \A i \in D : s.links[i] \in {t.links[q[i]], flipped(t.links[q[i]])}
  BY <1>1, <1>3
<1> QED BY <1>4, <1>5, Zenon DEF Rearranged, D

\* The validators do not depend on the order or the direction of the links.
LEMMA RearrangedValid ==
  ASSUME NEW s \in TopologySpec, NEW t, Rearranged(s, t), Valid(s)
  PROVE  Valid(t)
<1> DEFINE D == DOMAIN s.links
<1>1. PICK p \in [D -> D] :
        /\ \A i \in D : p[p[i]] = i
        /\ \A i \in D : t.links[i] \in {s.links[p[i]], flipped(s.links[p[i]])}
  BY DEF Rearranged
<1>2. \A i \in D : s.links[i] \in Link
  BY DEF TopologySpec
<1>3. DOMAIN t.links = D /\ t.devices = s.devices /\ t.observedGeneration = s.observedGeneration
  BY DEF Rearranged
<1>4. ASSUME NEW i \in D
      PROVE  /\ linkKey(t.links[i]) = linkKey(s.links[p[i]])
             /\ validateLink(t.links[i], IDs(s.devices)) <=> validateLink(s.links[p[i]], IDs(s.devices))
  <2>1. p[i] \in D
    BY <1>1
  <2>2. s.links[p[i]] \in Link /\ t.links[i] \in {s.links[p[i]], flipped(s.links[p[i]])}
    BY <1>1, <1>2, <2>1
  <2> QED BY <2>2, EitherEnd
<1> HIDE DEF D
<1>5. /\ s.observedGeneration >= 1 /\ s.devices # <<>>
      /\ \A i \in DOMAIN s.devices : validateDevice(s.devices[i])
      /\ Cardinality(IDs(s.devices)) = Len(s.devices)
      /\ \A i \in D : validateLink(s.links[i], IDs(s.devices))
      /\ \A i, j \in D : linkKey(s.links[i]) = linkKey(s.links[j]) => i = j
  BY DEF Valid, D
<1>6. \A i \in D : validateLink(t.links[i], IDs(s.devices))
  BY <1>1, <1>4, <1>5
<1>7. \A i, j \in D : linkKey(t.links[i]) = linkKey(t.links[j]) => i = j
  <2> SUFFICES ASSUME NEW i \in D, NEW j \in D, linkKey(t.links[i]) = linkKey(t.links[j])
               PROVE  i = j
    OBVIOUS
  <2>1. p[i] \in D /\ p[j] \in D /\ linkKey(s.links[p[i]]) = linkKey(s.links[p[j]])
    BY <1>1, <1>4
  <2>2. p[i] = p[j]
    BY <1>5, <2>1
  <2> QED BY <1>1, <2>2
<1> QED BY <1>3, <1>5, <1>6, <1>7 DEF Valid

\* Two lists of the same keys in order have the same keys at every place.
LEMMA SameKeys ==
  ASSUME NEW n, NEW L \in SUBSET Link, NEW M \in SUBSET Link, NEW x, NEW y,
         Keyed(x, L, n), Keyed(y, M, n),
         \A l \in L : \E m \in M : linkKey(m) = linkKey(l),
         \A m \in M : \E l \in L : linkKey(l) = linkKey(m)
  PROVE  \A k \in 1..n : linkKey(x[k]) = linkKey(y[k])
<1> DEFINE a(k) == linkKey(x[k])
           b(k) == linkKey(y[k])
           Differ == {k \in 1..n : a(k) # b(k)}
<1>1. /\ n \in Nat /\ x \in [1..n -> L] /\ Range(x) = L
      /\ \A k, l \in 1..n : KeyBefore(a(k), a(l)) <=> k < l
  BY Zenon DEF Keyed
<1>2. /\ y \in [1..n -> M] /\ Range(y) = M
      /\ \A k, l \in 1..n : KeyBefore(b(k), b(l)) <=> k < l
  BY Zenon DEF Keyed
<1>3. ASSUME NEW k \in 1..n PROVE \E j \in 1..n : b(j) = a(k)
  <2>1. PICK m \in M : linkKey(m) = a(k)
    BY <1>1
  <2>2. PICK j \in 1..n : y[j] = m
    BY <1>2 DEF Range
  <2> QED BY <2>1, <2>2
<1>4. ASSUME NEW k \in 1..n PROVE \E j \in 1..n : a(j) = b(k)
  <2>1. PICK l \in L : linkKey(l) = b(k)
    BY <1>2
  <2>2. PICK j \in 1..n : x[j] = l
    BY <1>1 DEF Range
  <2> QED BY <2>1, <2>2
<1>5. \A k \in 1..n : a(k) \in Nat \X Nat \X (1..4) /\ b(k) \in Nat \X Nat \X (1..4)
  <2> TAKE k \in 1..n
  <2>1. x[k] \in Link /\ y[k] \in Link
    BY <1>1, <1>2
  <2> QED BY <2>1, KeyType
<1>6. \A u, v \in Nat \X Nat \X (1..4) : ~(KeyBefore(u, v) /\ KeyBefore(v, u)) /\ ~KeyBefore(u, u)
  BY DEF KeyBefore
<1> HIDE DEF a, b
<1>7. SUFFICES ASSUME Differ # {}
               PROVE  FALSE
  BY DEF a, b
<1>8. Differ \in SUBSET Nat
  BY <1>1
<1>9. PICK k \in Differ : \A j \in Differ : k <= j
  BY <1>7, <1>8, SmallestOf, Zenon
<1>10. PICK i \in 1..n : b(i) = a(k)
  BY <1>3
<1>11. PICK j \in 1..n : a(j) = b(k)
  BY <1>4
<1>12. k < i
  <2>1. i # k
    BY <1>9, <1>10
  <2>2. ~(i < k)
    <3> SUFFICES ASSUME i < k
                 PROVE  FALSE
      OBVIOUS
    <3>1. i \notin Differ
      BY <1>1, <1>9
    <3>2. a(i) = a(k)
      BY <1>10, <3>1
    <3>3. KeyBefore(a(i), a(k))
      BY <1>1
    <3> QED BY <1>5, <1>6, <3>2, <3>3
  <2> QED BY <1>1, <2>1, <2>2
<1>13. k < j
  <2>1. j # k
    BY <1>9, <1>11
  <2>2. ~(j < k)
    <3> SUFFICES ASSUME j < k
                 PROVE  FALSE
      OBVIOUS
    <3>1. j \notin Differ
      BY <1>1, <1>9
    <3>2. b(j) = b(k)
      BY <1>11, <3>1
    <3>3. KeyBefore(b(j), b(k))
      BY <1>2
    <3> QED BY <1>5, <1>6, <3>2, <3>3
  <2> QED BY <1>1, <2>1, <2>2
<1>14. KeyBefore(b(k), b(i)) /\ KeyBefore(a(k), a(j))
  BY <1>1, <1>2, <1>12, <1>13
<1>15. KeyBefore(b(k), a(k)) /\ KeyBefore(a(k), b(k))
  BY <1>10, <1>11, <1>14
<1> QED BY <1>5, <1>6, <1>15

\* Neither does the snapshot.
LEMMA RearrangedBuild ==
  ASSUME NEW s \in TopologySpec, NEW t \in TopologySpec, Rearranged(s, t), Valid(s)
  PROVE  Build(t) = Build(s)
<1> DEFINE L == Range(s.links)
           M == Range(t.links)
           n == Len(s.links)
           D == DOMAIN s.links
           x == byKey(L)
           y == byKey(M)
<1>1. Valid(t)
  BY RearrangedValid
<1>2. /\ IsFiniteSet(L) /\ L \subseteq Link /\ Keyed(x, L, Cardinality(L))
      /\ \A l, m \in L : linkKey(l) = linkKey(m) => l = m
  BY ValidLinks
<1>3. IsFiniteSet(M) /\ M \subseteq Link /\ Keyed(y, M, Cardinality(M))
  BY <1>1, ValidLinks
<1>4. /\ n \in Nat /\ D = 1..n /\ s.links \in [1..n -> Link]
      /\ DOMAIN t.links = D /\ t.links \in [1..n -> Link] /\ t.devices = s.devices
  <2>1. n \in Nat /\ D = 1..n /\ s.links \in [1..n -> Link]
    BY DEF TopologySpec
  <2>2. DOMAIN t.links = D /\ t.devices = s.devices
    BY DEF Rearranged
  <2>3. t.links \in [DOMAIN t.links -> Link]
    BY DEF TopologySpec
  <2> QED BY <2>1, <2>2, <2>3
<1>5. Cardinality(L) = n /\ Cardinality(M) = n
  <2>1. Distinct(s.links)
    <3>1. \A i, j \in DOMAIN s.links : linkKey(s.links[i]) = linkKey(s.links[j]) => i = j
      BY DEF Valid
    <3> QED BY <3>1 DEF Distinct
  <2>2. Distinct(t.links)
    <3>1. \A i, j \in DOMAIN t.links : linkKey(t.links[i]) = linkKey(t.links[j]) => i = j
      BY <1>1 DEF Valid
    <3> QED BY <3>1 DEF Distinct
  <2> QED BY <1>4, <2>1, <2>2, RangeCardinality, Zenon
<1>6. ASSUME NEW m \in M PROVE \E l \in L : m \in {l, flipped(l)}
  <2>1. PICK i \in D : t.links[i] = m
    BY <1>4 DEF Range
  <2>2. PICK j \in D : t.links[i] \in {s.links[j], flipped(s.links[j])}
    BY DEF Rearranged
  <2>3. s.links[j] \in L
    BY DEF Range
  <2> QED BY <2>1, <2>2, <2>3
<1>7. ASSUME NEW l \in L PROVE \E m \in M : linkKey(m) = linkKey(l)
  <2>1. PICK i \in D : s.links[i] = l
    BY DEF Range
  <2>0. Rearranged(t, s)
    BY RearrangedBack
  <2>2. PICK j \in D : s.links[i] \in {t.links[j], flipped(t.links[j])}
    BY <1>4, <2>0 DEF Rearranged
  <2>3. t.links[j] \in M /\ t.links[j] \in Link
    BY <1>4 DEF Range
  <2> QED BY <2>1, <2>2, <2>3, EitherEnd
<1> HIDE DEF L, M, n, D, x, y
<1>8. \A m \in M : \E l \in L : linkKey(l) = linkKey(m) /\ normalised(m) = normalised(l)
  BY <1>2, <1>6, EitherEnd
<1>9. \A k \in 1..n : linkKey(x[k]) = linkKey(y[k])
  <2>1. Keyed(x, L, n) /\ Keyed(y, M, n)
    BY <1>2, <1>3, <1>5
  <2>2. /\ \A l \in L : \E m \in M : linkKey(m) = linkKey(l)
        /\ \A m \in M : \E l \in L : linkKey(l) = linkKey(m)
    BY <1>7, <1>8
  <2> QED BY <1>2, <1>3, <2>1, <2>2, SameKeys
<1>10. x \in [1..n -> L] /\ y \in [1..n -> M]
  BY <1>2, <1>3, <1>5 DEF Keyed
<1>11. ASSUME NEW k \in 1..n PROVE normalised(y[k]) = normalised(x[k])
  <2>1. x[k] \in L /\ y[k] \in M
    BY <1>10
  <2>2. PICK l \in L : linkKey(l) = linkKey(y[k]) /\ normalised(y[k]) = normalised(l)
    BY <1>8, <2>1
  <2>3. l = x[k]
    BY <1>2, <1>9, <2>1, <2>2
  <2> QED BY <2>2, <2>3
<1>12. [i \in DOMAIN y |-> normalised(y[i])] = [i \in DOMAIN x |-> normalised(x[i])]
  BY <1>10, <1>11
<1> QED BY <1>1, <1>4, <1>12 DEF Build, x, y, L, M

\* The types of the links that count for a device.
CountedTypes(s, id) == {l.type : l \in {m \in Range(s.links) : CountsFor(s, m, id)}}

\* Neither do the fabric facts of a device, except for the type.
LEMMA RearrangedFacts ==
  ASSUME NEW s \in TopologySpec, NEW t \in TopologySpec, Rearranged(s, t), Valid(s), NEW id
  PROVE  AlikeFacts(fabricByID(s, id), fabricByID(t, id), CountedTypes(s, id))
<1> DEFINE D == DOMAIN s.links
           K == {k \in D : CountsFor(s, s.links[k], id)}
           J == {k \in D : CountsFor(t, t.links[k], id)}
<1>1. Valid(t)
  BY RearrangedValid
<1>2. DOMAIN t.links = D /\ t.devices = s.devices
  BY DEF Rearranged
<1>3. /\ SumsUp(fabricByID(s, id), s.links, K)
      /\ SumsUp(fabricByID(t, id), t.links, J)
  BY <1>1, <1>2, FabricFacts
<1>4. \A k \in D : s.links[k] \in Link /\ t.links[k] \in Link
  BY <1>2 DEF TopologySpec
<1>5. ASSUME NEW k \in D
      PROVE  /\ s.links[k].bandwidth \in Nat /\ s.links[k].hops \in Nat
             /\ t.links[k].bandwidth \in Nat /\ t.links[k].hops \in Nat
  <2>1. s.links[k].bandwidth >= 0 /\ s.links[k].hops >= 0
    BY DEF Valid, validateLink
  <2>2. t.links[k].bandwidth >= 0 /\ t.links[k].hops >= 0
    BY <1>1, <1>2 DEF Valid, validateLink
  <2> QED BY <1>4, <2>1, <2>2 DEF Link
<1>6. ASSUME NEW l \in Link, NEW m \in {l, flipped(l)}
      PROVE  CountsFor(t, m, id) <=> CountsFor(s, l, id)
  <2>1. /\ m.type = l.type /\ m.health = l.health /\ {m.source, m.target} = {l.source, l.target}
    BY EitherEnd
  <2>2. \/ m.source = l.source /\ m.target = l.target
        \/ m.source = l.target /\ m.target = l.source
    BY FlippedLink
  <2>3. \A i : DeviceByID(t, i) = DeviceByID(s, i)
    BY <1>2 DEF DeviceByID
  <2> QED BY <2>1, <2>2, <2>3 DEF CountsFor
<1>7. ASSUME NEW j \in J
      PROVE  \E k \in K : /\ s.links[k].bandwidth = t.links[j].bandwidth
                          /\ s.links[k].hops = t.links[j].hops /\ s.links[k].type = t.links[j].type
  <2>1. PICK k \in D : t.links[j] \in {s.links[k], flipped(s.links[k])}
    BY DEF Rearranged
  <2>2. CountsFor(s, s.links[k], id)
    BY <1>4, <1>6, <2>1
  <2>3. /\ s.links[k].bandwidth = t.links[j].bandwidth
        /\ s.links[k].hops = t.links[j].hops /\ s.links[k].type = t.links[j].type
    BY <1>4, <2>1, EitherEnd
  <2> QED BY <2>2, <2>3
<1>8. ASSUME NEW k \in K
      PROVE  \E j \in J : t.links[j].bandwidth = s.links[k].bandwidth /\ t.links[j].hops = s.links[k].hops
  <2>0. Rearranged(t, s)
    BY RearrangedBack
  <2>1. PICK j \in D : s.links[k] \in {t.links[j], flipped(t.links[j])}
    BY <1>2, <2>0 DEF Rearranged
  <2>2. t.links[j] \in {s.links[k], flipped(s.links[k])}
    BY <1>4, <2>1, EitherEnd
  <2>3. CountsFor(t, t.links[j], id)
    BY <1>4, <1>6, <2>2
  <2>4. s.links[k].bandwidth = t.links[j].bandwidth /\ s.links[k].hops = t.links[j].hops
    BY <1>4, <2>2, EitherEnd
  <2> QED BY <2>3, <2>4
<1>9. /\ \A k \in K : s.links[k].bandwidth \in Nat /\ s.links[k].hops \in Nat
      /\ \A j \in J : t.links[j].bandwidth \in Nat /\ t.links[j].hops \in Nat
  BY <1>5
<1>10. {s.links[k].type : k \in K} = CountedTypes(s, id)
  BY DEF CountedTypes, Range
<1> HIDE DEF K, J, D
<1>11. AlikeFacts(fabricByID(s, id), fabricByID(t, id), {s.links[k].type : k \in K})
  BY <1>3, <1>7, <1>8, <1>9, SumsUpAlike
<1> QED BY <1>10, <1>11

\* Attributes that differ at most in the type, which is then one of several.
SameButType(before, after, types) ==
  /\ after = [before EXCEPT !.fabricType = after.fabricType]
  /\ \/ after.fabricType = before.fabricType
     \/ {before.fabricType, after.fabricType} \subseteq types

\* Nor do the attributes that the DRA driver publishes, with the same exception.
LEMMA RearrangedAttributes ==
  ASSUME NEW s \in TopologySpec, NEW t \in TopologySpec, Rearranged(s, t), Valid(s), NEW d
  PROVE  SameButType(attributes(s, d), attributes(t, d), CountedTypes(s, d.id))
<1> DEFINE f == fabricByID(s, d.id)
           g == fabricByID(t, d.id)
           before == attributes(s, d)
           after == attributes(t, d)
<1>1. t.observedGeneration = s.observedGeneration
  BY DEF Rearranged
<1>2. AlikeFacts(f, g, CountedTypes(s, d.id))
  BY RearrangedFacts
<1>3. before.fabricType = f.linkType /\ after.fabricType = g.linkType
  BY DEF attributes
<1> HIDE DEF f, g
<1>4. after = [before EXCEPT !.fabricType = g.linkType]
  BY <1>1, <1>2 DEF attributes, AlikeFacts, f, g
<1> HIDE DEF before, after
<1>5. \/ after.fabricType = before.fabricType
      \/ {before.fabricType, after.fabricType} \subseteq CountedTypes(s, d.id)
  BY <1>2, <1>3 DEF AlikeFacts
<1> QED BY <1>3, <1>4, <1>5 DEF before, after, SameButType

-------------------------------------------------------------------------------
\* Claims made from a template.

\* The devices whose attributes the template's selectors accept, and what its
\* constraint asks of a set of IDs.
Accepts(s, policy) == {d \in Range(s.devices) : Selected(policy, attributes(s, d))}

Matching(s, policy, S) ==
  \A d, e \in Accepts(s, policy) : d.id \in S /\ e.id \in S =>
    /\ matchAttribute(policy, attributes(s, d)) # Unknown
    /\ matchAttribute(policy, attributes(s, d)) = matchAttribute(policy, attributes(s, e))

\* The allocator's choice, in terms of the devices.
LEMMA Allocates ==
  ASSUME NEW s \in TopologySpec, Valid(s), NEW policy, policy.deviceCount \in Nat
  PROVE  Allocatable(ResourcesForTopology(s), policy)
           = {S \in kSubset(policy.deviceCount, {d.id : d \in Accepts(s, policy)}) :
                Matching(s, policy, S)}
<1> DEFINE D == Range(s.devices)
           E == Accepts(s, policy)
           n == policy.deviceCount
           res(d) == [name |-> d.id, attributes |-> attributes(s, d)]
           selected == {r \in {res(d) : d \in D} : Selected(policy, r.attributes)}
           match(r) == matchAttribute(policy, r.attributes)
           Meets(T) == \A r, q \in T : match(r) # Unknown /\ match(r) = match(q)
           names(T) == {r.name : r \in T}
           Sets == {T \in kSubset(n, selected) : Meets(T)}
           ids == {d.id : d \in E}
<1>1. Allocatable(ResourcesForTopology(s), policy) = {names(T) : T \in Sets}
  BY DEF Allocatable, ResourcesForTopology
<1>2. IsFiniteSet(D) /\ \A d, e \in D : d.id = e.id => d = e
  BY ValidSpec
<1>3. E \subseteq D /\ IsFiniteSet(E)
  BY <1>2, FS_Subset DEF Accepts
<1>4. \A d : res(d).name = d.id /\ res(d).attributes = attributes(s, d)
  OBVIOUS
<1>5. selected = {res(d) : d \in E}
  BY <1>4 DEF Accepts
<1> DEFINE publish == [d \in E |-> res(d)]
<1>6. OneToOne(publish, E, selected)
  BY <1>2, <1>3, <1>4, <1>5 DEF OneToOne
<1> HIDE DEF D, E, res, selected, match, publish
<1>7. IsFiniteSet(selected)
  BY <1>3, <1>6, SameSize
<1>8. ASSUME NEW T \in Sets
      PROVE  names(T) \in kSubset(n, ids) /\ Matching(s, policy, names(T))
  <2>1. T \subseteq selected /\ Cardinality(T) = n /\ Meets(T)
    BY Zenon DEF kSubset
  <2>2. \A r \in T : \E d \in E : r = res(d)
    BY <1>5, <2>1
  <2> DEFINE f == [r \in T |-> r.name]
  <2>3. OneToOne(f, T, names(T))
    <3>1. \A r, q \in T : r.name = q.name => r = q
      BY <1>2, <1>3, <1>4, <2>2
    <3> QED BY <3>1 DEF OneToOne
  <2>4. IsFiniteSet(T)
    BY <1>7, <2>1, FS_Subset
  <2>5. Cardinality(names(T)) = n
    BY <2>1, <2>3, <2>4, SameSize
  <2>6. names(T) \subseteq ids
    BY <1>4, <2>2
  <2>7. ASSUME NEW d \in E, d.id \in names(T) PROVE res(d) \in T
    <3>1. PICK r \in T : r.name = d.id
      BY <2>7
    <3>2. PICK e \in E : r = res(e)
      BY <2>2
    <3> QED BY <1>2, <1>3, <1>4, <3>1, <3>2
  <2>8. Matching(s, policy, names(T))
    <3> SUFFICES ASSUME NEW d \in E, NEW e \in E, d.id \in names(T), e.id \in names(T)
                 PROVE  /\ matchAttribute(policy, attributes(s, d)) # Unknown
                        /\ matchAttribute(policy, attributes(s, d)) = matchAttribute(policy, attributes(s, e))
      BY DEF Matching, E
    <3>1. match(res(d)) # Unknown /\ match(res(d)) = match(res(e))
      BY <2>1, <2>7, Zenon
    <3> QED BY <1>4, <3>1 DEF match
  <2> QED BY <2>5, <2>6, <2>8 DEF kSubset
<1>9. ASSUME NEW S \in kSubset(n, ids), Matching(s, policy, S)
      PROVE  \E T \in Sets : S = names(T)
  <2> DEFINE C == {d \in E : d.id \in S}
             T == {res(d) : d \in C}
             f == [x \in C |-> res(x)]
             g == [x \in C |-> x.id]
  <2>1. S \subseteq ids /\ Cardinality(S) = n
    BY DEF kSubset
  <2>2. IsFiniteSet(C)
    BY <1>3, FS_Subset
  <2>3. OneToOne(g, C, S)
    BY <1>2, <1>3, <2>1 DEF OneToOne
  <2>4. OneToOne(f, C, T)
    BY <1>2, <1>3, <1>4 DEF OneToOne
  <2>5. Cardinality(S) = Cardinality(C)
    BY <2>2, <2>3, SameSize
  <2>6. Cardinality(T) = Cardinality(C)
    <3> HIDE DEF f, T, C
    <3> QED BY <2>2, <2>4, SameSize
  <2>7. T \subseteq selected
    BY <1>5
  <2>8. Meets(T)
    <3> SUFFICES ASSUME NEW d \in C, NEW e \in C
                 PROVE  match(res(d)) # Unknown /\ match(res(d)) = match(res(e))
      BY Zenon
    <3> QED BY <1>4, <1>9 DEF Matching, match, E
  <2>9. names(T) = S
    <3>1. ASSUME NEW r \in T PROVE r.name \in S
      BY <1>4
    <3>2. ASSUME NEW i \in S PROVE i \in names(T)
      <4>1. PICK d \in C : d.id = i
        BY <2>1
      <4>2. res(d) \in T /\ res(d).name = i
        BY <1>4, <4>1
      <4> QED BY <4>2
    <3> QED BY <3>1, <3>2
  <2> HIDE DEF T
  <2>10. T \in Sets
    BY <2>1, <2>5, <2>6, <2>7, <2>8, Zenon DEF kSubset
  <2> QED BY <2>9, <2>10, Zenon
<1> HIDE DEF Sets, names, ids
<1>10. {names(T) : T \in Sets} = {S \in kSubset(n, ids) : Matching(s, policy, S)}
  BY <1>8, <1>9
<1> QED BY <1>1, <1>10 DEF ids, E

\* The order and the direction of the links decide no claim: no selector and no
\* constraint reads the type.
LEMMA RearrangedClaims ==
  ASSUME NEW s \in TopologySpec, NEW t \in TopologySpec, Rearranged(s, t), Valid(s),
         NEW policy, policy.deviceCount \in Nat
  PROVE  Allocatable(ResourcesForTopology(t), policy) = Allocatable(ResourcesForTopology(s), policy)
<1>1. Valid(t) /\ t.devices = s.devices
  BY RearrangedValid DEF Rearranged
<1>2. ASSUME NEW d
      PROVE  /\ Selected(policy, attributes(t, d)) <=> Selected(policy, attributes(s, d))
             /\ matchAttribute(policy, attributes(t, d)) = matchAttribute(policy, attributes(s, d))
  <2> DEFINE before == attributes(s, d)
             after == attributes(t, d)
  <2>0. SameButType(before, after, CountedTypes(s, d.id))
    BY RearrangedAttributes
  <2> HIDE DEF before, after
  <2>1. after = [before EXCEPT !.fabricType = after.fabricType]
    BY <2>0, Zenon DEF SameButType
  <2>2. /\ after.health = before.health /\ after.matches = before.matches
        /\ after.memory = before.memory /\ after.fabricBandwidth = before.fabricBandwidth
        /\ after.fabricHops = before.fabricHops /\ after.numaNode = before.numaNode
        /\ after.pcieRoot = before.pcieRoot /\ after.fabricGroup = before.fabricGroup
    BY <2>1 DEF attributes, before
  <2>3. Selected(policy, after) <=> Selected(policy, before)
    BY <2>2, Zenon DEF Selected
  <2>4. matchAttribute(policy, after) = matchAttribute(policy, before)
    BY <2>2, Zenon DEF matchAttribute
  <2> QED BY <2>3, <2>4 DEF before, after
<1>3. Accepts(t, policy) = Accepts(s, policy)
  BY <1>1, <1>2, Zenon DEF Accepts
<1>4. \A S : Matching(t, policy, S) <=> Matching(s, policy, S)
  BY <1>2, <1>3, Zenon DEF Matching
<1>5. /\ Allocatable(ResourcesForTopology(t), policy)
           = {S \in kSubset(policy.deviceCount, {d.id : d \in Accepts(t, policy)}) : Matching(t, policy, S)}
      /\ Allocatable(ResourcesForTopology(s), policy)
           = {S \in kSubset(policy.deviceCount, {d.id : d \in Accepts(s, policy)}) : Matching(s, policy, S)}
  BY <1>1, Allocates, Zenon
<1> QED BY <1>3, <1>4, <1>5, Zenon

\* What the selectors accept outside the clique mode is what eligibleDevices
\* accepts; in the clique mode it is no more.
LEMMA AcceptsEligible ==
  ASSUME NEW s \in TopologySpec, Valid(s), NEW policy, policy.minMemory \in Nat,
         policy.allowUnknown = FALSE,
         \A d \in Range(s.devices) : d.resourceName = policy.resourceName
  PROVE  /\ IDs(eligibleDevices(Build(s), policy)) \ {}
              = {d.id : d \in {e \in Range(s.devices) : Eligible(e, policy)}}
         /\ Accepts(s, policy) \subseteq {d \in Range(s.devices) : Eligible(d, policy)}
         /\ policy.mode # "fabric-clique" =>
              Accepts(s, policy) = {d \in Range(s.devices) : Eligible(d, policy)}
<1> DEFINE D == Range(s.devices)
           devices == eligibleDevices(Build(s), policy)
           attrs(d) == attributes(s, d)
<1>1. D \subseteq Device /\ \A d \in D : validateDevice(d)
  BY ValidSpec
<1>2. \A d \in D : d.memory \in Int /\ d.memory >= 0
  BY <1>1 DEF validateDevice, Device
<1>3. \A d : attrs(d).health = d.health /\ attrs(d).matches = d.matches /\ attrs(d).memory = d.memory
  BY DEF attributes
<1>4. Offered(devices, s, policy, {})
  BY EligibleOffered
<1>5. IDs(devices) = {d.id : d \in Range(devices)} /\ Range(devices) = {d \in D : Eligible(d, policy)}
  <2>1. Range(devices) = {d \in D : Eligible(d, policy) /\ d.id \notin {}}
    BY <1>4 DEF Offered
  <2>2. IDs(devices) = {d.id : d \in Range(devices)}
    BY <1>4, OfferedFacts
  <2> QED BY <2>1, <2>2
<1> HIDE DEF attrs, devices
<1>6. ASSUME NEW d \in D
      PROVE  Eligible(d, policy) <=>
               /\ attrs(d).health = "Healthy" /\ attrs(d).matches
               /\ policy.minMemory > 0 => attrs(d).memory >= policy.minMemory
  BY <1>2, <1>3 DEF Eligible, Accepted
<1>7. ASSUME NEW d \in D
      PROVE  /\ Selected(policy, attrs(d)) => Eligible(d, policy)
             /\ policy.mode # "fabric-clique" => (Eligible(d, policy) <=> Selected(policy, attrs(d)))
  BY <1>6 DEF Selected
<1>8. /\ Accepts(s, policy) \subseteq {d \in D : Eligible(d, policy)}
      /\ policy.mode # "fabric-clique" => Accepts(s, policy) = {d \in D : Eligible(d, policy)}
  BY <1>7 DEF Accepts, attrs
<1> QED BY <1>5, <1>8 DEF devices

\* The claim's constraint on one attribute is TopologyFit's test of one group.
LEMMA MatchingAlike ==
  ASSUME NEW s, NEW policy, policy.allowUnknown = FALSE, NEW S,
         S \subseteq {d.id : d \in Accepts(s, policy)},
         \A d, e \in Range(s.devices) : d.id = e.id => d = e
  PROVE  /\ policy.mode = "best-effort" => Matching(s, policy, S)
         /\ policy.mode = "single-numa" =>
              (Matching(s, policy, S) <=> Alike(s, policy.allowUnknown, "numaNode", S))
         /\ policy.mode = "same-pcie-root" =>
              (Matching(s, policy, S) <=> Alike(s, policy.allowUnknown, "pcieRoot", S))
<1> DEFINE E == Accepts(s, policy)
           D == Range(s.devices)
           match(d) == matchAttribute(policy, attributes(s, d))
<1>1. E \subseteq D
  BY DEF Accepts
<1>2. \A d \in D : d.id \in S => d \in E
  BY <1>1
<1>3. Matching(s, policy, S) <=>
        \A d, e \in E : d.id \in S /\ e.id \in S => match(d) # Unknown /\ match(d) = match(e)
  BY DEF Matching
<1>4. policy.mode = "best-effort" => \A d : match(d) = 0
  BY DEF matchAttribute
<1>5. policy.mode = "single-numa" => \A d : match(d) = d["numaNode"]
  BY DEF matchAttribute, attributes
<1>6. policy.mode = "same-pcie-root" => \A d : match(d) = d["pcieRoot"]
  BY DEF matchAttribute, attributes
<1>7. 0 # Unknown
  BY DEF Unknown
<1> HIDE DEF E, match
<1>8. \A key : (\A d : match(d) = d[key]) =>
        (Matching(s, policy, S) <=> Alike(s, policy.allowUnknown, key, S))
  BY <1>1, <1>2, <1>3, Zenon DEF Alike
<1>9. policy.mode = "best-effort" => Matching(s, policy, S)
  BY <1>3, <1>4, <1>7, Zenon
<1> QED BY <1>5, <1>6, <1>8, <1>9, Zenon

\* The facts of a set of links bound each of them.
LEMMA SumsUpBounds ==
  ASSUME NEW links, NEW K, NEW facts, SumsUp(facts, links, K),
         \A k \in K : links[k].bandwidth \in Nat /\ links[k].hops \in Nat, NEW k \in K
  PROVE  /\ facts.found = TRUE /\ facts.minBandwidth \in Nat /\ facts.maxHops \in Nat
         /\ facts.minBandwidth <= links[k].bandwidth /\ links[k].hops <= facts.maxHops
<1>1. PICK t, i, j \in K : Summary(facts, links, K, t, i, j)
  BY Zenon DEF SumsUp
<1> QED BY <1>1 DEF Summary

\* Bandwidths that pass the selector, both sides rounded to whole GB/s, pass
\* TopologyFit's comparison.
LEMMA RoundedComparison ==
  ASSUME NEW least \in Nat, NEW asked \in Nat, least \div 2 >= (asked + 1) \div 2
  PROVE  least >= asked
OBVIOUS

-------------------------------------------------------------------------------
\* NVIDIA discovery.

\* A GPU and those linked to it.
Hood(m, i) == {i} \cup {j \in DOMAIN m : nvlink(m, i, j)}

\* The passes of componentOf.
PassRun(f, m, start, N) ==
  /\ f[0] = {start}
  /\ \A n \in 1..N :
       f[n] = f[n - 1] \cup {j \in DOMAIN m : \E i \in f[n - 1] : nvlink(m, i, j)}
  /\ componentOf(m, start) = f[N]

\* componentOf runs those passes.
LEMMA PassLoop ==
  ASSUME NEW N \in Nat, NEW m, DOMAIN m = 1..N, NEW start \in 1..N
  PROVE  \E f : PassRun(f, m, start, N)
<1> DEFINE V == SUBSET (1..N)
           Round(x) == x \cup {j \in DOMAIN m : \E i \in x : nvlink(m, i, j)}
           g == [x \in V \X (1..N) |-> Round(x[1])]
           Loop(f) == f = [n \in 0..N |-> IF n = 0 THEN {start} ELSE Round(f[n - 1])]
           after == CHOOSE f : Loop(f)
<1>0. Cardinality(DOMAIN m) = N
  <2>1. 1 \in Int /\ N \in Int
    OBVIOUS
  <2> QED BY <2>1, FS_Interval
<1>1. componentOf(m, start) = after[N]
  BY <1>0, Zenon DEF componentOf
<1>2. ASSUME NEW x \in V
      PROVE  Round(x) \in V
  BY Zenon
<1>3. {start} \in V
  OBVIOUS
<1> HIDE DEF V, Round
<1>4. g \in Rounds(V, N)
  BY <1>2 DEF Rounds
<1>5. ASSUME NEW x \in V, NEW n \in 1..N
      PROVE  g[<<x, n>>] = Round(x)
  OBVIOUS
<1> HIDE DEF g
<1>6. PICK f : Runs(f, N, V, {start}, g)
  BY <1>3, <1>4, LoopExists, Zenon
<1>7. f \in [0..N -> V] /\ f[0] = {start}
  BY <1>6 DEF Runs
<1>8. ASSUME NEW n \in 1..N
      PROVE  f[n] = Round(f[n - 1])
  <2>1. n - 1 \in 0..N
    OBVIOUS
  <2>2. f[n - 1] \in V
    BY <2>1, <1>7
  <2>3. f[n] = g[<<f[n - 1], n>>]
    BY <1>6 DEF Runs
  <2> QED BY <2>2, <2>3, <1>5, Zenon
<1>9. Loop(after)
  <2>1. \A n \in 0..N : f[n] = IF n = 0 THEN {start} ELSE Round(f[n - 1])
    BY <1>7, <1>8
  <2>2. Loop(f)
    BY <2>1, <1>7
  <2> HIDE DEF Loop
  <2> QED BY <2>2
<1> HIDE DEF after
<1>10. after[0] = {start}
  BY <1>9
<1>11. ASSUME NEW n \in 1..N
       PROVE  after[n] = Round(after[n - 1])
  <2>1. n \in 0..N /\ n # 0
    OBVIOUS
  <2>2. \A k \in 0..N : after[k] = IF k = 0 THEN {start} ELSE Round(after[k - 1])
    BY <1>9
  <2> QED BY <2>1, <2>2
<1>12. PassRun(after, m, start, N)
  BY <1>1, <1>10, <1>11 DEF PassRun, Round
<1> QED BY <1>12

\* What n passes have reached.
Reached(x, m, start, N, n) ==
  /\ start \in x /\ x \subseteq 1..N
  /\ n >= 1 => Hood(m, start) \subseteq x
  /\ n >= 2 => \A k \in Hood(m, start) : Hood(m, k) \subseteq x
  /\ (\A k \in Hood(m, start) : Hood(m, k) = Hood(m, start)) => x \subseteq Hood(m, start)

\* The component is what N passes have reached.
LEMMA ComponentReached ==
  ASSUME NEW N \in Nat, NEW m, DOMAIN m = 1..N, NEW start \in 1..N
  PROVE  Reached(componentOf(m, start), m, start, N, N)
<1>1. PICK f : PassRun(f, m, start, N)
  BY PassLoop
<1> DEFINE S == {n \in 0..N : Reached(f[n], m, start, N, n)}
<1>2. 0 \in S
  <2>1. f[0] = {start}
    BY <1>1 DEF PassRun
  <2> QED BY <2>1 DEF Reached, Hood
<1>3. ASSUME NEW n \in 1..N, n - 1 \in S
      PROVE  n \in S
  <2> DEFINE x == f[n - 1]
             y == f[n]
  <2>1. y = x \cup {j \in DOMAIN m : \E i \in x : nvlink(m, i, j)}
    BY <1>1 DEF PassRun
  <2>2. Reached(x, m, start, N, n - 1)
    BY <1>3
  <2>3. \A k \in x : Hood(m, k) \subseteq y
    BY <2>1 DEF Hood
  <2>4. \A j \in y : \E k \in x : j \in Hood(m, k)
    BY <2>1 DEF Hood
  <2> HIDE DEF x, y
  <2>5. /\ start \in x /\ x \subseteq 1..N
        /\ n - 1 >= 1 => Hood(m, start) \subseteq x
        /\ (\A k \in Hood(m, start) : Hood(m, k) = Hood(m, start)) => x \subseteq Hood(m, start)
    BY <2>2 DEF Reached
  <2>6. start \in y /\ y \subseteq 1..N
    BY <2>1, <2>5, Zenon
  <2>7. Hood(m, start) \subseteq y
    BY <2>3, <2>5
  <2>8. n >= 2 => \A k \in Hood(m, start) : Hood(m, k) \subseteq y
    <3> SUFFICES ASSUME n >= 2, NEW k \in Hood(m, start)
                 PROVE  Hood(m, k) \subseteq y
      OBVIOUS
    <3>1. n - 1 >= 1
      OBVIOUS
    <3> QED BY <2>3, <2>5, <3>1, Zenon
  <2>9. (\A k \in Hood(m, start) : Hood(m, k) = Hood(m, start)) => y \subseteq Hood(m, start)
    <3> SUFFICES ASSUME \A k \in Hood(m, start) : Hood(m, k) = Hood(m, start), NEW j \in y
                 PROVE  j \in Hood(m, start)
      OBVIOUS
    <3>1. PICK k \in x : j \in Hood(m, k)
      BY <2>4
    <3>2. k \in Hood(m, start)
      BY <2>5
    <3> QED BY <3>1, <3>2
  <2>10. Reached(y, m, start, N, n)
    BY <2>6, <2>7, <2>8, <2>9 DEF Reached
  <2> QED BY <2>10 DEF y
<1>4. 0..N \subseteq S
  <2> HIDE DEF S
  <2> QED BY <1>2, <1>3, RoundInduction
<1>5. N \in 0..N
  OBVIOUS
<1>6. Reached(f[N], m, start, N, N)
  BY <1>4, <1>5
<1> QED BY <1>1, <1>6 DEF PassRun

\* A GPU in a set of GPUs linked with each other and with no other.
InClique(m, i) ==
  Hood(m, i) # {i} /\ \A k \in Hood(m, i) : Hood(m, k) = Hood(m, i)

\* The component of a GPU is complete exactly when the GPU is in such a set, and is
\* that set.
LEMMA CompleteComponent ==
  ASSUME NEW N \in Nat, NEW m, DOMAIN m = 1..N, NEW i \in 1..N
  PROVE  /\ complete(m, componentOf(m, i)) <=> InClique(m, i)
         /\ InClique(m, i) => componentOf(m, i) = Hood(m, i)
         /\ Hood(m, i) \subseteq 1..N
<1> DEFINE C == componentOf(m, i)
           H == Hood(m, i)
<1>1. /\ i \in C /\ C \subseteq 1..N
      /\ N >= 1 => H \subseteq C
      /\ N >= 2 => \A k \in H : Hood(m, k) \subseteq C
      /\ (\A k \in H : Hood(m, k) = H) => C \subseteq H
  BY ComponentReached, Zenon DEF Reached
<1>2. H \subseteq C
  BY <1>1
<1>3. IsFiniteSet(1..N) /\ Cardinality(1..N) = N /\ IsFiniteSet(C)
  <2>1. 1 \in Int /\ N \in Int
    OBVIOUS
  <2>2. IsFiniteSet(1..N) /\ Cardinality(1..N) = N
    BY <2>1, FS_Interval
  <2> QED BY <1>1, <2>2, FS_Subset
<1>4. i \in H /\ H \subseteq 1..N
  BY <1>1, <1>2 DEF Hood
<1> HIDE DEF C
<1>5. ASSUME complete(m, C)
      PROVE  InClique(m, i)
  <2>1. Cardinality(C) > 1 /\ \A a, b \in C : a # b => nvlink(m, a, b)
    BY <1>5 DEF complete
  <2>2. N >= 2
    <3>1. Cardinality(C) <= N /\ Cardinality(C) \in Nat
      BY <1>1, <1>3, FS_Subset, FS_CardinalityType, Zenon
    <3> QED BY <2>1, <3>1
  <2>3. \A a \in C : C \subseteq Hood(m, a)
    BY <1>1, <2>1 DEF Hood
  <2>4. C = H
    BY <1>1, <1>2, <2>3, Zenon
  <2>5. \A k \in H : Hood(m, k) = H
    BY <1>1, <2>2, <2>3, <2>4
  <2>6. H # {i}
    <3>1. Cardinality({i}) = 1
      BY FS_Singleton, Zenon
    <3>2. C # {i}
      BY <2>1, <3>1
    <3> QED BY <2>4, <3>2
  <2> QED BY <2>5, <2>6 DEF InClique
<1>6. ASSUME InClique(m, i)
      PROVE  complete(m, C) /\ C = H
  <2>1. H # {i} /\ \A k \in H : Hood(m, k) = H
    BY <1>6 DEF InClique
  <2>2. C = H
    BY <1>1, <1>2, <2>1, Zenon
  <2>3. \A a, b \in C : a # b => nvlink(m, a, b)
    <3> SUFFICES ASSUME NEW a \in C, NEW b \in C, a # b
                 PROVE  nvlink(m, a, b)
      OBVIOUS
    <3>1. b \in Hood(m, a)
      BY <2>1, <2>2
    <3> QED BY <3>1 DEF Hood
  <2>4. Cardinality(C) > 1
    <3>1. Cardinality(C) \in Nat
      BY <1>3, FS_CardinalityType
    <3>2. Cardinality(C) # 0
      BY <1>1, <1>3, FS_EmptySet
    <3>3. Cardinality(C) # 1
      <4> SUFFICES ASSUME Cardinality(C) = 1 PROVE FALSE
        OBVIOUS
      <4>1. PICK x : C = {x}
        BY <1>3, FS_Singleton, Zenon
      <4> QED BY <1>1, <2>1, <2>2, <4>1
    <3> QED BY <3>1, <3>2, <3>3
  <2> QED BY <2>2, <2>3, <2>4 DEF complete
<1> QED BY <1>4, <1>5, <1>6 DEF C

\* The number of a group.
Numbered(groups, m, N) ==
  /\ groups \in [1..N -> Nat \cup {Unknown}]
  /\ \A i \in 1..N : groups[i] # Unknown <=> InClique(m, i)
  /\ \A i, j \in 1..N : InClique(m, i) /\ InClique(m, j) =>
       (groups[i] = groups[j] <=> Hood(m, i) = Hood(m, j))

\* completeNVLinkGroups numbers the GPUs in such sets, one number for each set.
LEMMA GroupsNumbered ==
  ASSUME NEW N \in Nat, NEW m, DOMAIN m = 1..N
  PROVE  Numbered(completeNVLinkGroups(m), m, N)
<1> DEFINE C(i) == componentOf(m, i)
           H(i) == Hood(m, i)
           firsts == {i \in 1..N : complete(m, C(i)) /\ i = Min(C(i))}
           below(x) == {f \in firsts : f < x}
           groups == completeNVLinkGroups(m)
<1>1. groups = [i \in 1..N |-> IF complete(m, C(i)) THEN Cardinality(below(Min(C(i)))) ELSE Unknown]
  BY DEF completeNVLinkGroups
<1>2. \A i \in 1..N : /\ complete(m, C(i)) <=> InClique(m, i)
                      /\ InClique(m, i) => C(i) = H(i)
                      /\ H(i) \subseteq 1..N
  BY CompleteComponent
<1>3. \A i \in 1..N : i \in H(i)
  BY DEF Hood
<1>4. \A i \in 1..N : InClique(m, i) => H(i) # {i} /\ \A k \in H(i) : H(k) = H(i)
  BY DEF InClique
<1>5. \A x : IsFiniteSet(below(x)) /\ Cardinality(below(x)) \in Nat
  <2>1. 1 \in Int /\ N \in Int
    OBVIOUS
  <2>2. IsFiniteSet(1..N)
    BY <2>1, FS_Interval
  <2>3. \A x : below(x) \subseteq 1..N
    OBVIOUS
  <2> HIDE DEF below
  <2> QED BY <2>2, <2>3, FS_Subset, FS_CardinalityType
<1> HIDE DEF C, groups
<1>6. ASSUME NEW i \in 1..N, InClique(m, i)
      PROVE  /\ Min(C(i)) \in firsts /\ Min(C(i)) \in H(i)
             /\ C(i) = H(i) /\ H(Min(C(i))) = H(i)
             /\ groups[i] = Cardinality(below(Min(C(i))))
  <2> DEFINE f == Min(H(i))
  <2>1. H(i) \in SUBSET Nat /\ H(i) # {}
    BY <1>2, <1>3
  <2>2. f \in H(i)
    <3> HIDE DEF H
    <3> QED BY <2>1, MinOf
  <2> HIDE DEF f
  <2>3. f \in 1..N /\ H(f) = H(i)
    BY <1>2, <1>4, <1>6, <2>2
  <2>4. InClique(m, f)
    <3>1. H(f) # {f}
      BY <1>3, <1>4, <1>6, <2>3
    <3>2. \A k \in H(f) : H(k) = H(f)
      BY <1>4, <1>6, <2>3
    <3> QED BY <3>1, <3>2 DEF InClique
  <2>5. C(i) = H(i) /\ C(f) = H(i) /\ complete(m, C(f)) /\ complete(m, C(i))
    BY <1>2, <1>6, <2>3, <2>4
  <2>6. f \in firsts
    BY <2>3, <2>5 DEF f
  <2>7. Min(C(i)) = f
    BY <2>5 DEF f
  <2>8. groups[i] = Cardinality(below(f))
    <3> HIDE DEF below
    <3> QED BY <1>1, <2>5, <2>7
  <2> QED BY <2>2, <2>3, <2>5, <2>6, <2>7, <2>8
<1>7. ASSUME NEW x \in firsts, NEW y \in firsts, x < y
      PROVE  Cardinality(below(x)) < Cardinality(below(y))
  <2>1. below(x) \subseteq below(y) /\ x \in below(y) /\ x \notin below(x)
    BY <1>7
  <2> HIDE DEF below
  <2>2. Cardinality(below(x)) <= Cardinality(below(y)) /\ Cardinality(below(x)) # Cardinality(below(y))
    BY <1>5, <2>1, FS_Subset
  <2> QED BY <1>5, <2>2
<1>8. groups \in [1..N -> Nat \cup {Unknown}]
  <2> HIDE DEF below
  <2> QED BY <1>1, <1>5
<1>9. \A i \in 1..N : groups[i] # Unknown <=> InClique(m, i)
  <2> SUFFICES ASSUME NEW i \in 1..N
               PROVE  groups[i] # Unknown <=> InClique(m, i)
    OBVIOUS
  <2>1. \A k \in Nat : k # Unknown
    BY DEF Unknown
  <2>2. CASE InClique(m, i)
    <3>1. groups[i] = Cardinality(below(Min(C(i))))
      BY <1>6, <2>2
    <3> HIDE DEF below
    <3> QED BY <1>5, <2>1, <2>2, <3>1
  <2>3. CASE ~InClique(m, i)
    BY <1>1, <1>2, <2>3
  <2> QED BY <2>2, <2>3
<1>10. ASSUME NEW i \in 1..N, NEW j \in 1..N, InClique(m, i), InClique(m, j)
       PROVE  groups[i] = groups[j] <=> H(i) = H(j)
  <2> DEFINE x == Min(C(i))
             y == Min(C(j))
  <2>1. x \in firsts /\ H(x) = H(i) /\ C(i) = H(i) /\ groups[i] = Cardinality(below(x))
    BY <1>6, <1>10
  <2>2. y \in firsts /\ H(y) = H(j) /\ C(j) = H(j) /\ groups[j] = Cardinality(below(y))
    BY <1>6, <1>10
  <2>3. ASSUME H(i) = H(j) PROVE groups[i] = groups[j]
    BY <2>1, <2>2, <2>3
  <2>4. ASSUME groups[i] = groups[j] PROVE H(i) = H(j)
    <3>1. x \in 1..N /\ y \in 1..N
      BY <2>1, <2>2
    <3>2. Cardinality(below(x)) \in Nat /\ Cardinality(below(y)) \in Nat
      BY <1>5, Zenon
    <3> HIDE DEF x, y, below, firsts
    <3>3. ~(x < y) /\ ~(y < x)
      <4>1. Cardinality(below(x)) = Cardinality(below(y))
        BY <2>1, <2>2, <2>4
      <4>2. x < y => Cardinality(below(x)) < Cardinality(below(y))
        BY <1>7, <2>1, <2>2
      <4>3. y < x => Cardinality(below(y)) < Cardinality(below(x))
        BY <1>7, <2>1, <2>2
      <4> QED BY <3>2, <4>1, <4>2, <4>3
    <3>4. x = y
      BY <3>1, <3>3
    <3> QED BY <2>1, <2>2, <3>4
  <2> QED BY <2>3, <2>4
<1>11. Numbered(groups, m, N)
  BY <1>8, <1>9, <1>10 DEF Numbered
<1> QED BY <1>11 DEF groups

\* The pairs of GPUs, each once.
LEMMA PairsListed ==
  ASSUME NEW N \in Nat
  PROVE  \E P \in Nat :
           /\ pairsOf(N) \in [1..P -> {p \in (1..N) \X (1..N) : p[1] < p[2]}]
           /\ \A i, j \in 1..N : i < j => \E k \in 1..P : pairsOf(N)[k] = <<i, j>>
           /\ \A k, l \in 1..P : pairsOf(N)[k] = pairsOf(N)[l] => k = l
<1> DEFINE pairs == {p \in (1..N) \X (1..N) : p[1] < p[2]}
           Lex(p, q) == p[1] < q[1] \/ (p[1] = q[1] /\ p[2] < q[2])
           before == {q \in pairs \X pairs : Lex(q[1], q[2])}
           P == Cardinality(pairs)
<1>1. pairsOf(N) = inOrder(pairs, before)
  BY DEF pairsOf
<1>2. IsFiniteSet(pairs)
  <2>1. 1 \in Int /\ N \in Int
    OBVIOUS
  <2>2. IsFiniteSet(1..N)
    BY <2>1, FS_Interval
  <2>3. IsFiniteSet((1..N) \X (1..N))
    BY <2>2, FS_Product
  <2> QED BY <2>3, FS_Subset
<1>3. \A p \in pairs : p[1] \in Nat /\ p[2] \in Nat /\ p = <<p[1], p[2]>>
  OBVIOUS
<1>4. \A i, j \in 1..N : i < j => <<i, j>> \in pairs
  OBVIOUS
<1>5. \A p, q \in pairs : <<p, q>> \in before <=> Lex(p, q)
  OBVIOUS
<1> HIDE DEF pairs, before
<1>6. Orders(before, pairs)
  <2>1. \A p \in pairs : ~Lex(p, p)
    BY <1>3
  <2>2. \A p, q, r \in pairs : Lex(p, q) /\ Lex(q, r) => Lex(p, r)
    BY <1>3
  <2>3. \A p, q \in pairs : p # q => Lex(p, q) \/ Lex(q, p)
    <3> SUFFICES ASSUME NEW p \in pairs, NEW q \in pairs, ~Lex(p, q), ~Lex(q, p)
                 PROVE  p = q
      OBVIOUS
    <3>1. p[1] = q[1] /\ p[2] = q[2]
      BY <1>3
    <3> QED BY <1>3, <3>1
  <2> HIDE DEF Lex
  <2> QED BY <1>5, <2>1, <2>2, <2>3 DEF Orders
<1>7. InOrder(pairs, before, pairsOf(N)) /\ P \in Nat
  BY <1>1, <1>2, <1>6, InOrderSorts
<1>8. /\ pairsOf(N) \in [1..P -> pairs]
      /\ \A x \in pairs : \E k \in 1..P : pairsOf(N)[k] = x
      /\ \A k, l \in 1..P : pairsOf(N)[k] = pairsOf(N)[l] => k = l
  BY <1>7, Zenon DEF InOrder
<1> HIDE DEF P
<1>9. \A i, j \in 1..N : i < j => \E k \in 1..P : pairsOf(N)[k] = <<i, j>>
  BY <1>4, <1>8, Zenon
<1> QED BY <1>7, <1>8, <1>9, Zenon DEF pairs

\* The PCIe codes of the matrix are one to five hops.
LEMMA CodeHops == \A c \in DOMAIN PCIeHops : PCIeHops[c] \in 1..5
BY DEF PCIeHops

\* The link of a pair.
LEMMA PairLink ==
  ASSUME NEW N \in Nat, NEW m, Parses(m, N), NEW i \in 1..N, NEW j \in 1..N, i < j
  PROVE  /\ linkOf(m, i, j) \in Link /\ validateLink(linkOf(m, i, j), 1..N)
         /\ linkOf(m, i, j).source = i /\ linkOf(m, i, j).target = j
         /\ linkOf(m, i, j).bandwidth = 0 /\ linkOf(m, i, j).health = "Unknown"
         /\ m[i][j] \in NVLinkCodes => linkOf(m, i, j).type = "nvlink" /\ linkOf(m, i, j).hops = 1
         /\ m[i][j] \notin NVLinkCodes => linkOf(m, i, j).type = "pcie"
<1> DEFINE nv == m[i][j] \in NVLinkCodes
           type == IF nv THEN "nvlink" ELSE "pcie"
           hops == IF nv THEN 1 ELSE PCIeHops[m[i][j]]
           l == linkOf(m, i, j)
<1>1. l = [source |-> i, target |-> j, bandwidth |-> 0, health |-> "Unknown", wellFormed |-> TRUE,
           type |-> type, hops |-> hops]
  BY DEF linkOf
<1>2. type \in LinkTypes
  BY DEF LinkTypes
<1>3. hops \in 1..5
  <2>1. m[i][j] \in NVLinkCodes \cup DOMAIN PCIeHops
    BY DEF Parses
  <2> QED BY <2>1, CodeHops
<1>4. nv => type = "nvlink" /\ hops = 1
  OBVIOUS
<1>5. ~nv => type = "pcie"
  OBVIOUS
<1> HIDE DEF type, hops, l, nv
<1>6. /\ l.source = i /\ l.target = j /\ l.bandwidth = 0 /\ l.health = "Unknown"
      /\ l.wellFormed = TRUE /\ l.type = type /\ l.hops = hops
  BY <1>1
<1>7. l \in Link
  BY <1>1, <1>2, <1>3 DEF Link, Healths
<1>8. validateLink(l, 1..N)
  BY <1>3, <1>6 DEF validateLink
<1> QED BY <1>4, <1>5, <1>6, <1>7, <1>8 DEF l, nv

\* The spec the provider makes.
Made(found, m, N) ==
  /\ found \in TopologySpec /\ Valid(found) /\ IDs(found.devices) = 1..N
  /\ \A l \in Range(found.links) : \E i, j \in 1..N : i < j /\ l = linkOf(m, i, j)
  /\ \A i, j \in 1..N : i < j => linkOf(m, i, j) \in Range(found.links)
  /\ \A i \in 1..N : found.devices[i].fabricGroup = completeNVLinkGroups(m)[i]

\* Discover makes such a spec of every matrix that parses, and it is valid.
LEMMA DiscoverMakes ==
  ASSUME NEW N \in Nat \ {0}, NEW m, Parses(m, N)
  PROVE  Made(Discover(m, N, 1), m, N)
<1> DEFINE groups == completeNVLinkGroups(m)
           pairs == pairsOf(N)
           devices == [i \in 1..N |->
             [id |-> i, resourceName |-> 1, matches |-> TRUE, memory |-> 1, wellFormed |-> TRUE,
              health |-> "Unknown", numaNode |-> Unknown, pcieRoot |-> Unknown,
              fabricGroup |-> groups[i]]]
           links == [k \in DOMAIN pairs |-> linkOf(m, pairs[k][1], pairs[k][2])]
           found == Discover(m, N, 1)
<1>1. found = [observedGeneration |-> 1, devices |-> devices, links |-> links]
  BY DEF Discover
<1>2. \A i \in 1..N : groups[i] \in Nat \cup {Unknown}
  <2>1. DOMAIN m = 1..N
    BY DEF Parses
  <2>2. Numbered(groups, m, N)
    BY <2>1, GroupsNumbered
  <2> QED BY <2>2 DEF Numbered
<1> HIDE DEF groups
<1>3. \A i \in 1..N : /\ devices[i] \in Device /\ devices[i].id = i /\ validateDevice(devices[i])
                      /\ devices[i].fabricGroup = groups[i]
  <2> TAKE i \in 1..N
  <2>1. devices[i] = [id |-> i, resourceName |-> 1, matches |-> TRUE, memory |-> 1, wellFormed |-> TRUE,
              health |-> "Unknown", numaNode |-> Unknown, pcieRoot |-> Unknown,
              fabricGroup |-> groups[i]]
    OBVIOUS
  <2> HIDE DEF devices
  <2>2. devices[i] \in Device
    BY <1>2, <2>1 DEF Device, Healths
  <2> QED BY <2>1, <2>2 DEF validateDevice
<1>4. devices \in [1..N -> Device]
  BY <1>3
<1>5. devices \in Seq(Device) /\ Len(devices) = N /\ DOMAIN devices = 1..N /\ devices # <<>>
  <2> HIDE DEF devices
  <2>1. devices \in Seq(Device) /\ Len(devices) = N /\ DOMAIN devices = 1..N
    BY <1>4, ListOf
  <2> QED BY <2>1
<1>6. PICK P \in Nat :
        /\ pairs \in [1..P -> {p \in (1..N) \X (1..N) : p[1] < p[2]}]
        /\ \A i, j \in 1..N : i < j => \E k \in 1..P : pairs[k] = <<i, j>>
        /\ \A k, l \in 1..P : pairs[k] = pairs[l] => k = l
  BY PairsListed, Zenon
<1> HIDE DEF pairs
<1>7. \A k \in 1..P : /\ pairs[k][1] \in 1..N /\ pairs[k][2] \in 1..N /\ pairs[k][1] < pairs[k][2]
                      /\ pairs[k] = <<pairs[k][1], pairs[k][2]>>
  <2> TAKE k \in 1..P
  <2>1. pairs[k] \in (1..N) \X (1..N) /\ pairs[k][1] < pairs[k][2]
    BY <1>6
  <2> QED BY <2>1
<1>8. DOMAIN links = 1..P /\ \A k \in 1..P : links[k] = linkOf(m, pairs[k][1], pairs[k][2])
  BY <1>6
<1>9. \A k \in 1..P : /\ links[k] \in Link /\ validateLink(links[k], 1..N)
                      /\ links[k].source = pairs[k][1] /\ links[k].target = pairs[k][2]
  <2> TAKE k \in 1..P
  <2> DEFINE a == pairs[k][1]
             b == pairs[k][2]
  <2>1. a \in 1..N /\ b \in 1..N /\ a < b /\ links[k] = linkOf(m, a, b)
    BY <1>7, <1>8
  <2> HIDE DEF a, b, links
  <2>2. /\ linkOf(m, a, b) \in Link /\ validateLink(linkOf(m, a, b), 1..N)
        /\ linkOf(m, a, b).source = a /\ linkOf(m, a, b).target = b
    <3>1. N \in Nat /\ Parses(m, N) /\ a \in 1..N /\ b \in 1..N /\ a < b
      BY <2>1
    <3> QED BY <3>1, PairLink
  <2>3. /\ links[k] \in Link /\ validateLink(links[k], 1..N)
        /\ links[k].source = a /\ links[k].target = b
    BY <2>1, <2>2
  <2> QED BY <2>3 DEF a, b
<1>10. links \in [1..P -> Link]
  BY <1>8, <1>9
<1>11. links \in Seq(Link)
  <2> HIDE DEF links
  <2> QED BY <1>10, ListOf
<1> HIDE DEF devices, links
<1>12. found \in TopologySpec /\ found.devices = devices /\ found.links = links
       /\ found.observedGeneration = 1
  BY <1>1, <1>5, <1>11 DEF TopologySpec
<1>13. IDs(devices) = 1..N
  BY <1>3, <1>5 DEF IDs
<1>14. Cardinality(IDs(devices)) = Len(devices)
  <2>1. 1 \in Int /\ N \in Int /\ ~(1 > N)
    OBVIOUS
  <2>2. Cardinality(1..N) = N
    BY <2>1, FS_Interval
  <2> QED BY <1>5, <1>13, <2>2
<1>15. \A k, l \in 1..P : linkKey(links[k]) = linkKey(links[l]) => k = l
  <2> SUFFICES ASSUME NEW k \in 1..P, NEW l \in 1..P, linkKey(links[k]) = linkKey(links[l])
               PROVE  k = l
    OBVIOUS
  <2>1. /\ links[k].source = pairs[k][1] /\ links[k].target = pairs[k][2]
        /\ links[l].source = pairs[l][1] /\ links[l].target = pairs[l][2]
    BY <1>9
  <2>2. ~(links[k].target < links[k].source) /\ ~(links[l].target < links[l].source)
    BY <1>7, <2>1
  <2>3. links[k].source = links[l].source /\ links[k].target = links[l].target
    BY <2>2 DEF linkKey
  <2>4. pairs[k] = pairs[l]
    BY <1>7, <2>1, <2>3, Zenon
  <2> QED BY <1>6, <2>4
<1>16. Valid(found)
  <2> HIDE DEF found
  <2>1. found.observedGeneration >= 1 /\ found.devices # <<>>
    BY <1>5, <1>12
  <2>2. \A i \in DOMAIN found.devices : validateDevice(found.devices[i])
    BY <1>3, <1>5, <1>12
  <2>3. Cardinality(IDs(found.devices)) = Len(found.devices)
    BY <1>12, <1>14
  <2>4. \A i \in DOMAIN found.links : validateLink(found.links[i], IDs(found.devices))
    BY <1>8, <1>9, <1>12, <1>13
  <2>5. \A i, j \in DOMAIN found.links : linkKey(found.links[i]) = linkKey(found.links[j]) => i = j
    BY <1>8, <1>12, <1>15
  <2> QED BY <2>1, <2>2, <2>3, <2>4, <2>5 DEF Valid
<1>17. \A l \in Range(links) : \E i, j \in 1..N : i < j /\ l = linkOf(m, i, j)
  BY <1>7, <1>8 DEF Range
<1>18. ASSUME NEW i \in 1..N, NEW j \in 1..N, i < j
       PROVE  linkOf(m, i, j) \in Range(links)
  <2>1. PICK k \in 1..P : pairs[k] = <<i, j>>
    BY <1>6, <1>18, Zenon
  <2>2. links[k] = linkOf(m, i, j)
    BY <1>8, <2>1
  <2> QED BY <1>8, <2>2 DEF Range
<1> HIDE DEF found
<1>19. Made(found, m, N)
  BY <1>3, <1>12, <1>13, <1>16, <1>17, <1>18 DEF Made, groups
<1> QED BY <1>19 DEF found

\* TopologyFit links two GPUs exactly when the matrix has an NVLink code.
LEMMA LinkedByCode ==
  ASSUME NEW N \in Nat \ {0}, NEW m, Parses(m, N), NEW found, Made(found, m, N),
         NEW policy, policy.allowUnknown = TRUE, policy.minBandwidth = 0, policy.maxHops = 1,
         NEW i \in 1..N, NEW j \in 1..N, i # j
  PROVE  Linked(Build(found), policy, i, j) <=> m[i][j] \in NVLinkCodes
<1> DEFINE L == Range(found.links)
           link == LinkBetween(Build(found), i, j)
<1>1. /\ found \in TopologySpec /\ Valid(found) /\ IDs(found.devices) = 1..N
      /\ \A l \in L : \E a, b \in 1..N : a < b /\ l = linkOf(m, a, b)
      /\ \A a, b \in 1..N : a < b => linkOf(m, a, b) \in L
  BY Zenon DEF Made
<1>2. Governs(link, L, i, j)
  BY <1>1, LinkBetweenGoverns, Zenon
<1>3. PICK a, b \in 1..N : a < b /\ {a, b} = {i, j} /\ m[a][b] = m[i][j] /\ linkOf(m, a, b) \in L
  <2>1. CASE i < j
    BY <1>1, <2>1, Zenon
  <2>2. CASE j < i
    <3>1. m[j][i] = m[i][j]
      BY <2>2 DEF Parses
    <3>2. linkOf(m, j, i) \in L
      BY <1>1, <2>2
    <3>3. {j, i} = {i, j}
      OBVIOUS
    <3> QED BY <2>2, <3>1, <3>2, <3>3
  <2> QED BY <2>1, <2>2
<1> DEFINE p == linkOf(m, a, b)
<1>4. /\ p \in Link /\ p.source = a /\ p.target = b
      /\ p.bandwidth = 0 /\ p.health = "Unknown"
      /\ m[i][j] \in NVLinkCodes => p.type = "nvlink" /\ p.hops = 1
      /\ m[i][j] \notin NVLinkCodes => p.type = "pcie"
  <2>1. /\ p \in Link /\ p.source = a /\ p.target = b
        /\ p.bandwidth = 0 /\ p.health = "Unknown"
        /\ m[a][b] \in NVLinkCodes => p.type = "nvlink" /\ p.hops = 1
        /\ m[a][b] \notin NVLinkCodes => p.type = "pcie"
    BY <1>3, PairLink
  <2> HIDE DEF p
  <2>2. m[a][b] = m[i][j]
    BY <1>3
  <2> QED BY <2>1, <2>2
<1>5. Joins(p, i, j)
  BY <1>3, <1>4 DEF Joins
<1>6. \A l \in L : Joins(l, i, j) => l = p
  <2> SUFFICES ASSUME NEW l \in L, Joins(l, i, j)
               PROVE  l = p
    OBVIOUS
  <2>1. PICK c, d \in 1..N : c < d /\ l = linkOf(m, c, d)
    BY <1>1
  <2>2. l.source = c /\ l.target = d
    <3>1. N \in Nat /\ Parses(m, N) /\ c \in 1..N /\ d \in 1..N /\ c < d
      BY <2>1
    <3> QED BY <2>1, <3>1, PairLink
  <2>3. {c, d} = {i, j}
    BY <2>2 DEF Joins
  <2>4. c = a /\ d = b
    BY <1>3, <2>1, <2>3
  <2> QED BY <2>1, <2>4
<1> HIDE DEF link, L, p
<1>7. StoredFor(link, p, i, j)
  BY <1>2, <1>3, <1>5, <1>6 DEF Governs, p
<1>8. link \in Link /\ link \in {p, flipped(p)}
  BY <1>7 DEF StoredFor
<1>9. /\ link # NoLink /\ link.type = p.type /\ link.health = "Unknown" /\ link.bandwidth = 0
      /\ link.hops = p.hops
  BY <1>4, <1>8, EitherEnd, NoLinkIsNone
<1>10. qualifiesFabricLink(link, policy) <=> m[i][j] \in NVLinkCodes
  <2>1. Accepted(link.health, policy)
    BY <1>9 DEF Accepted
  <2>2. link.bandwidth >= policy.minBandwidth
    BY <1>9
  <2>3. CASE m[i][j] \in NVLinkCodes
    BY <1>4, <1>9, <2>1, <2>2, <2>3 DEF qualifiesFabricLink
  <2>4. CASE m[i][j] \notin NVLinkCodes
    BY <1>4, <1>9, <2>4 DEF qualifiesFabricLink
  <2> QED BY <2>3, <2>4
<1> QED BY <1>9, <1>10 DEF Linked, link
===============================================================================
