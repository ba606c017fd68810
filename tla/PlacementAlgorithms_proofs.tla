---------------------- MODULE PlacementAlgorithms_proofs ----------------------
(***************************************************************************)
(* The invariants of PlacementAlgorithms, for any inventories, policies,   *)
(* numbers of GPUs and requests.                                           *)
(*                                                                         *)
(* The algorithms are pure, so the inductive invariant is the type of the  *)
(* inputs, InputType.  Each theorem shows that a well-typed input implies  *)
(* the property, from what Selection_proofs and Translation_proofs say of  *)
(* the algorithms.                                                         *)
(***************************************************************************)
EXTENDS PlacementAlgorithms, Selection_proofs, Translation_proofs

-------------------------------------------------------------------------------
\* The inputs.

\* The inputs have the types of the API, and a request repeats no available device.
InputType ==
  /\ spec \in TopologySpec
  /\ gpus \in Nat
  /\ request \in [available : Seq(Nat), must : Seq(Nat)]
  /\ Distinct(request.available)

\* The topologies of the repository's three-node fixture are well typed.
LEMMA FixtureTypes == ThreeNodeTopologies \subseteq TopologySpec
<1>1. ASSUME NEW linkType \in LinkTypes, NEW bandwidth \in Int
      PROVE  buildTopology(linkType, bandwidth) \in TopologySpec
  <2> DEFINE fabric(i, j) == [source |-> i, target |-> j, type |-> linkType, bandwidth |-> bandwidth,
                              hops |-> 1, health |-> "Healthy", wellFormed |-> TRUE]
             clique(n) == <<fabric(n, n + 1), fabric(n, n + 2), fabric(n, n + 3),
                            fabric(n + 1, n + 2), fabric(n + 1, n + 3), fabric(n + 2, n + 3)>>
             bridge == [fabric(4, 5) EXCEPT !.type = "pcie", !.bandwidth = 128, !.hops = 2]
             devices == [i \in 1..8 |->
               [id |-> i, resourceName |-> 1, matches |-> TRUE, memory |-> 1, wellFormed |-> TRUE,
                health |-> "Healthy", numaNode |-> group(i), pcieRoot |-> group(i),
                fabricGroup |-> group(i)]]
             links == clique(1) \o clique(5) \o <<bridge>>
  <2>1. buildTopology(linkType, bandwidth)
          = [observedGeneration |-> 1, devices |-> devices, links |-> links]
    BY DEF buildTopology
  <2>2. \A i, j \in Nat : fabric(i, j) \in Link
    BY DEF Link, Healths
  <2> HIDE DEF fabric
  <2>3. bridge \in Link
    <3>1. fabric(4, 5) \in Link
      BY <2>2
    <3>2. "pcie" \in LinkTypes /\ 128 \in Int /\ 2 \in Int
      BY DEF LinkTypes
    <3> QED BY <3>1, <3>2, Zenon DEF Link
  <2> HIDE DEF bridge
  <2>4. clique(1) \in Seq(Link) /\ clique(5) \in Seq(Link)
    BY <2>2
  <2>5. links \in Seq(Link)
    <3> HIDE DEF clique
    <3> QED BY <2>3, <2>4
  <2>6. \A i \in 1..8 : group(i) \in Nat
    BY DEF group
  <2>7. devices \in [1..8 -> Device]
    BY <2>6 DEF Device, Healths
  <2>8. devices \in Seq(Device)
    <3> HIDE DEF devices
    <3>1. 8 \in Nat
      OBVIOUS
    <3> QED BY <2>7, <3>1, ListOf, Zenon
  <2> HIDE DEF devices, links
  <2> QED BY <2>1, <2>5, <2>8 DEF TopologySpec
<1> QED BY <1>1 DEF ThreeNodeTopologies, LinkTypes

\* Every input that the module builds step by step is well typed: InputType is
\* inductive.
LEMMA InputTyped == Spec => []InputType
<1>1. Init => InputType
  <2> SUFFICES ASSUME Init
               PROVE  InputType
    OBVIOUS
  <2>1. spec \in TopologySpec
    <3>1. NoSpec \in TopologySpec
      BY DEF NoSpec, TopologySpec
    <3> QED BY <3>1, FixtureTypes, InputAssumption DEF Init
  <2>2. gpus \in Nat
    <3>1. gpus \in GPUs \cup {0}
      BY Zenon DEF Init
    <3> QED BY <3>1, InputAssumption
  <2>3. request \in [available : Seq(Nat), must : Seq(Nat)] /\ Distinct(request.available)
    BY DEF Init, NoRequest, Distinct
  <2> QED BY <2>1, <2>2, <2>3 DEF InputType
<1>2. InputType /\ [Next]_vars => InputType'
  <2> SUFFICES ASSUME InputType, [Next]_vars
               PROVE  InputType'
    OBVIOUS
  <2> USE DEF InputType
  <2>1. CASE DeclareLink
    <3>1. PICK link \in NextLinks(spec) \cap Link : spec' = [spec EXCEPT !.links = Append(@, link)]
      BY <2>1, Zenon DEF DeclareLink
    <3>2. Append(spec.links, link) \in Seq(Link)
      BY DEF TopologySpec
    <3>3. spec' \in TopologySpec
      BY <3>1, <3>2, Zenon DEF TopologySpec
    <3> QED BY <2>1, <3>3 DEF DeclareLink
  <2>2. CASE LinkFails
    <3>1. PICK k \in DOMAIN spec.links : spec' = [spec EXCEPT !.links[k].health = "Unhealthy"]
      BY <2>2, Zenon DEF LinkFails
    <3> DEFINE failed == [spec.links[k] EXCEPT !.health = "Unhealthy"]
               links == [spec.links EXCEPT ![k] = failed]
    <3>2. spec.links \in Seq(Link) /\ spec.links[k] \in Link
      BY DEF TopologySpec
    <3>3. failed \in Link
      BY <3>2, Zenon DEF Link, Healths
    <3> HIDE DEF failed
    <3>4. links \in Seq(Link)
      BY <3>2, <3>3
    <3>5. spec' = [spec EXCEPT !.links = links]
      BY <3>1 DEF failed
    <3> HIDE DEF links
    <3>6. spec' \in TopologySpec
      BY <3>4, <3>5, Zenon DEF TopologySpec
    <3> QED BY <2>2, <3>6 DEF LinkFails
  <2>3. CASE ReadPair
    BY <2>3 DEF ReadPair
  <2>4. CASE Ask
    <3>1. PICK id \in IDsAsked :
            \/ /\ id \notin Range(request.available)
               /\ request' = [request EXCEPT !.available = Append(@, id)]
            \/ request' = [request EXCEPT !.must = Append(@, id)]
      BY <2>4, Zenon DEF Ask
    <3>2. id \in Nat
      BY InputAssumption
    <3>3. request.available \in Seq(Nat) /\ request.must \in Seq(Nat)
      OBVIOUS
    <3>4. CASE /\ id \notin Range(request.available)
               /\ request' = [request EXCEPT !.available = Append(@, id)]
      <4> DEFINE more == Append(request.available, id)
      <4>1. more \in Seq(Nat) /\ Distinct(more)
        BY <3>2, <3>3, <3>4, AppendAdds
      <4>2. request' = [request EXCEPT !.available = more]
        BY <3>4
      <4> HIDE DEF more
      <4>3. request' \in [available : Seq(Nat), must : Seq(Nat)] /\ request'.available = more
        BY <4>1, <4>2, Zenon
      <4> QED BY <2>4, <4>1, <4>3 DEF Ask
    <3>5. CASE request' = [request EXCEPT !.must = Append(@, id)]
      <4>1. Append(request.must, id) \in Seq(Nat)
        BY <3>2, <3>3
      <4>2. request' \in [available : Seq(Nat), must : Seq(Nat)]
            /\ request'.available = request.available
        BY <3>5, <4>1, Zenon
      <4> QED BY <2>4, <4>2 DEF Ask
    <3> QED BY <3>1, <3>4, <3>5
  <2>5. CASE UNCHANGED vars
    BY <2>5 DEF vars
  <2> QED BY <2>1, <2>2, <2>3, <2>4, <2>5 DEF Next
<1> QED BY <1>1, <1>2, PTL DEF Spec

\* Whatever the declared links, two devices count as linked only by a link of the
\* spec between them that qualifies, from both ends, and they do when all the
\* links between them qualify (Build's index and LinkBetween).
THEOREM LinkedIsAsDeclared == Spec => []LinkedAsDeclared
<1>1. InputType => LinkedAsDeclared
  <2> SUFFICES ASSUME InputType, Valid(spec), NEW policy \in Validated,
                      NEW a \in IDs(spec.devices), NEW b \in IDs(spec.devices)
               PROVE  LET qualifying == {l \in Between(a, b) : qualifiesFabricLink(l, policy)}
                          linked == Linked(Build(spec), policy, a, b)
                      IN /\ linked => Linked(Build(spec), policy, b, a) /\ qualifying # {}
                         /\ qualifying = Between(a, b) /\ qualifying # {} => linked
    BY Zenon DEF LinkedAsDeclared
  <2> DEFINE L == Range(spec.links)
             link == LinkBetween(Build(spec), a, b)
             back == LinkBetween(Build(spec), b, a)
             qualifying == {l \in Between(a, b) : qualifiesFabricLink(l, policy)}
             linked == Linked(Build(spec), policy, a, b)
  <2>1. spec \in TopologySpec
    BY DEF InputType
  <2>2. Governs(link, L, a, b) /\ Mirrored(link, back)
    BY <2>1, LinkBetweenGoverns, LinkBetweenMirrored
  <2>3. L \subseteq Link
    BY <2>1, ValidLinks
  <2>4. Between(a, b) = {l \in L : Joins(l, a, b)}
    BY DEF Between, Joins
  <2>5. /\ linked <=> link # NoLink /\ qualifiesFabricLink(link, policy)
        /\ Linked(Build(spec), policy, b, a) <=> back # NoLink /\ qualifiesFabricLink(back, policy)
    BY Zenon DEF Linked
  <2>6. ASSUME NEW l \in Link, NEW m \in Link, l.type = m.type, l.health = m.health,
               l.bandwidth = m.bandwidth, l.hops = m.hops
        PROVE  qualifiesFabricLink(l, policy) <=> qualifiesFabricLink(m, policy)
    BY <2>6, Zenon DEF qualifiesFabricLink
  <2> HIDE DEF L, link, back
  <2>7. linked => Linked(Build(spec), policy, b, a)
    BY <2>2, <2>5, <2>6, NoLinkIsNone DEF Mirrored
  <2>8. ASSUME link = NoLink /\ \A l \in L : ~Joins(l, a, b)
        PROVE  qualifying = {} /\ ~linked
    BY <2>4, <2>5, <2>8
  <2>9. ASSUME NEW l \in L, Joins(l, a, b), StoredFor(link, l, a, b)
        PROVE  /\ linked => qualifying # {}
               /\ qualifying = Between(a, b) => linked
    <3>1. link \in Link /\ link \in {l, flipped(l)} /\ l \in Link
      BY <2>3, <2>9 DEF StoredFor
    <3>2. /\ link.type = l.type /\ link.health = l.health
          /\ link.bandwidth = l.bandwidth /\ link.hops = l.hops
      BY <3>1, EitherEnd
    <3>3. linked <=> qualifiesFabricLink(l, policy)
      BY <2>5, <2>6, <3>1, <3>2, NoLinkIsNone
    <3>4. l \in Between(a, b)
      BY <2>4, <2>9
    <3> HIDE DEF linked
    <3> QED BY <3>3, <3>4
  <2>10. (linked => qualifying # {}) /\ (qualifying = Between(a, b) /\ qualifying # {} => linked)
    <3> HIDE DEF qualifying, linked
    <3> QED BY <2>2, <2>8, <2>9, Zenon DEF Governs
  <2> QED BY <2>7, <2>10
<1> QED BY <1>1, InputTyped, PTL

\* For every topology, policy, reserved set and count that the module reaches,
\* selectDeviceIDs returns a combination of free devices that the mode allows, and
\* returns nothing only when there is none: the pruned clique search and the
\* breadth-first search of the connected mode are exact.
THEOREM SelectionIsExact == Spec => []SelectionDecides
<1>1. InputType => SelectionDecides
  <2> SUFFICES ASSUME InputType, Valid(spec), NEW policy \in Validated, NEW reserved \in Reserved,
                      NEW count \in 1..(Len(spec.devices) + 1)
               PROVE  LET snapshot == Build(spec)
                          devices == excludeReservedDevices(eligibleDevices(snapshot, policy), reserved)
                          selected == selectDeviceIDs(snapshot, devices, policy, count)
                          combinations == CombinationsOf(snapshot, policy, reserved, count)
                      IN Decides(selected, combinations, count)
    BY DEF SelectionDecides, Decides
  <2>1. spec \in TopologySpec /\ count \in Nat \ {0}
    BY DEF InputType, TopologySpec
  <2>2. policy.mode \in Modes /\ policy.allowUnknown \in BOOLEAN
    BY InputAssumption DEF Validated, validatePolicy, PolicySpec
  <2>3. Offered(excludeReservedDevices(eligibleDevices(Build(spec), policy), reserved),
                spec, policy, reserved)
    BY <2>1, ExcludedOffered
  <2> QED BY <2>1, <2>2, <2>3, SelectsCombination
<1> QED BY <1>1, InputTyped, PTL

\* In the NUMA and PCIe root modes selectDeviceIDs takes the devices of a smallest
\* group that has enough, for every topology and policy: small requests never break
\* up a large group while a smaller one would do.
THEOREM SmallestGroupAlwaysUsed == Spec => []SmallestGroupUsed
<1>1. InputType => SmallestGroupUsed
  <2> SUFFICES ASSUME InputType, Valid(spec), NEW policy \in Validated,
                      policy.mode \in {"single-numa", "same-pcie-root"},
                      NEW count \in 1..Len(spec.devices)
               PROVE  LET devices == eligibleDevices(Build(spec), policy)
                          Key(d) == IF policy.mode = "single-numa" THEN d.numaNode ELSE d.pcieRoot
                          Group(k) == {d \in Range(devices) : Key(d) = k}
                          selected == selectDeviceIDs(Build(spec), devices, policy, count)
                      IN selected # <<>> =>
                           LET used == Key(CHOOSE d \in Range(devices) : d.id = selected[1])
                           IN \A k \in {Key(d) : d \in Range(devices)} :
                                /\ k # Unknown \/ policy.allowUnknown
                                /\ Cardinality(Group(k)) >= count
                                => Cardinality(Group(used)) <= Cardinality(Group(k))
    BY Zenon DEF SmallestGroupUsed
  <2> DEFINE devices == eligibleDevices(Build(spec), policy)
             m == Len(devices)
             key == IF policy.mode = "single-numa" THEN "numaNode" ELSE "pcieRoot"
             Key(d) == IF policy.mode = "single-numa" THEN d.numaNode ELSE d.pcieRoot
             Group(k) == {d \in Range(devices) : Key(d) = k}
             selected == selectDeviceIDs(Build(spec), devices, policy, count)
             used == Key(CHOOSE d \in Range(devices) : d.id = selected[1])
  <2> SUFFICES ASSUME selected # <<>>, NEW e \in Range(devices),
                      Key(e) # Unknown \/ policy.allowUnknown,
                      Cardinality(Group(Key(e))) >= count
               PROVE  Cardinality(Group(used)) <= Cardinality(Group(Key(e)))
    OBVIOUS
  <2>1. spec \in TopologySpec /\ policy.allowUnknown \in BOOLEAN /\ count \in Nat \ {0}
    BY InputAssumption DEF InputType, TopologySpec, Validated, PolicySpec
  <2>2. Listed(devices, m)
    BY <2>1, EligibleOffered DEF Offered
  <2>3. /\ m \in Nat /\ DOMAIN devices = 1..m /\ Range(devices) = {devices[i] : i \in 1..m}
        /\ \A i, j \in 1..m : devices[i].id = devices[j].id => i = j
    BY <2>2, ListedFacts
  <2>4. key \in {"numaNode", "pcieRoot"} /\ \A d : Key(d) = d[key]
    OBVIOUS
  <2>5. /\ count \in 1..m
        /\ selected = selectDeviceGroup(devices, count, key, policy.allowUnknown)
    BY <2>1, <2>3 DEF selectDeviceIDs
  <2> HIDE DEF devices, m, selected, key, Key
  <2>6. PICK i \in 1..m :
          FromGroup(selected, devices, key, policy.allowUnknown, count, devices[i][key])
    BY <2>1, <2>2, <2>4, <2>5, GroupChosen
  <2> DEFINE k == devices[i][key]
             kept == keep(devices, Members(devices, key, k))
  <2>7. /\ Choice(selected, kept, count)
        /\ \A j \in DOMAIN devices :
             Suits(devices, key, policy.allowUnknown, count, devices[j][key]) =>
               Cardinality(Members(devices, key, k)) <= Cardinality(Members(devices, key, devices[j][key]))
    BY <2>6 DEF FromGroup
  <2>8. PICK j \in 1..m : devices[j][key] = k /\ devices[j].id = selected[1]
    <3>1. selected \in [1..count -> IDs(kept)]
      BY <2>7 DEF Choice
    <3>2. selected[1] \in IDs(kept)
      BY <3>1, <2>1
    <3>3. Members(devices, key, k) \in SUBSET (1..m)
      BY <2>3 DEF Members
    <3>4. /\ Listed(kept, Cardinality(Members(devices, key, k)))
          /\ Range(kept) = {devices[l] : l \in Members(devices, key, k)}
      BY <2>2, <3>3, KeepListed
    <3>5. \E d \in Range(kept) : d.id = selected[1]
      <4> HIDE DEF kept
      <4> QED BY <3>2 DEF IDs, Range
    <3>6. \A l \in Members(devices, key, k) : l \in 1..m /\ devices[l][key] = k
      BY <2>3 DEF Members
    <3> QED BY <3>4, <3>5, <3>6
  <2>9. used = k
    <3>1. devices[j] \in Range(devices)
      BY <2>3
    <3>2. \A d \in Range(devices) : d.id = selected[1] => d = devices[j]
      BY <2>3, <2>8
    <3>3. (CHOOSE d \in Range(devices) : d.id = selected[1]) = devices[j]
      BY <2>8, <3>1, <3>2
    <3> QED BY <2>4, <2>8, <3>3, Zenon
  <2>10. \A q : Group(q) = {d \in Range(devices) : d[key] = q}
    BY <2>4
  <2>11. \A q : Cardinality(Group(q)) = Cardinality(Members(devices, key, q))
    <3> TAKE q
    <3> QED BY <2>2, <2>4, <2>10, MembersOfGroup
  <2>12. PICK l \in 1..m : e = devices[l]
    BY <2>3
  <2> HIDE DEF Group, used
  <2>13. Suits(devices, key, policy.allowUnknown, count, devices[l][key])
    BY <2>4, <2>11, <2>12 DEF Suits
  <2>14. Cardinality(Members(devices, key, k)) <= Cardinality(Members(devices, key, Key(e)))
    BY <2>3, <2>4, <2>7, <2>12, <2>13
  <2> QED BY <2>9, <2>11, <2>14
<1> QED BY <1>1, InputTyped, PTL

\* The score agrees with the selection on the same devices, for every topology
\* the validators accept: what scoreFeatures counts is what selectDeviceIDs finds,
\* and the clamp in weightedScore never changes evaluate's score.
THEOREM ScoreAlwaysReflectsSelection == Spec => []ScoreReflectsSelection
<1>1. InputType => ScoreReflectsSelection
  <2> SUFFICES ASSUME InputType, Valid(spec), NEW policy \in Validated, NEW reserved \in Reserved,
                      NEW devices,
                      devices = excludeReservedDevices(eligibleDevices(Build(spec), policy), reserved),
                      NEW count \in 1..Len(devices)
               PROVE  LET n == Len(devices)
                          total == Len(spec.devices)
                          features(used) == scoreFeatures(Build(spec), devices, policy, count,
                                                          scalarHeadroom(total, used), total)
                          finds(mode, k) == Selecting(Build(spec), devices, policy, mode, k)
                          verdict(used) == evaluate([ready |-> TRUE, snapshot |-> Build(spec)], policy,
                                                    reserved, count, used, total)
                      IN /\ finds("single-numa", count) \/ finds("same-pcie-root", count) =>
                              features(0).locality >= percentage(count, n)
                         /\ finds("fabric-clique", count) =>
                              features(0).fabric >= percentage((count * (count - 1)) \div 2,
                                                               (n * (n - 1)) \div 2)
                         /\ features(0).locality = 100 =>
                              finds("single-numa", n) \/ finds("same-pcie-root", n)
                         /\ features(0).fabric = 100 => finds("fabric-clique", n)
                         /\ \A used \in {Cardinality(reserved), total - 1, total + 1} :
                              /\ verdict(used).feasible <=>
                                   used + count <= total /\ finds(policy.mode, count)
                              /\ verdict(used).feasible =>
                                   verdict(used).score = weightedMean(features(used), policy.weights)
    BY Zenon DEF ScoreReflectsSelection, Selecting, InMode
  <2> DEFINE n == Len(devices)
             total == Len(spec.devices)
             features(used) == scoreFeatures(Build(spec), devices, policy, count,
                                             scalarHeadroom(total, used), total)
             finds(mode, k) == Selecting(Build(spec), devices, policy, mode, k)
             verdict(used) == evaluate([ready |-> TRUE, snapshot |-> Build(spec)], policy,
                                       reserved, count, used, total)
  <2>1. spec \in TopologySpec /\ total \in Nat
    BY DEF InputType, TopologySpec
  <2>2. policy \in PolicySpec /\ ValidWeights(policy.weights)
    BY InputAssumption DEF Validated, validatePolicy
  <2>3. Offered(devices, spec, policy, reserved)
    BY <2>1, ExcludedOffered
  <2>4. Listed(devices, n) /\ n \in Nat /\ count \in Nat \ {0} /\ count <= n
    BY <2>1, <2>3, OfferedFacts
  <2>5. ASSUME NEW used
        PROVE  /\ finds("single-numa", count) \/ finds("same-pcie-root", count) =>
                    features(used).locality >= percentage(count, n)
               /\ features(used).locality = 100 =>
                    finds("single-numa", n) \/ finds("same-pcie-root", n)
               /\ features(used).locality \in 0..100
    <3>1. LocalityAgrees(Build(spec), devices, policy, count, n, features(used).locality)
      BY <2>2, <2>4, LocalityReflects
    <3> QED BY <3>1, Zenon DEF LocalityAgrees
  <2>6. ASSUME NEW used
        PROVE  /\ finds("fabric-clique", count) =>
                    features(used).fabric >= percentage((count * (count - 1)) \div 2,
                                                        (n * (n - 1)) \div 2)
               /\ features(used).fabric = 100 => finds("fabric-clique", n)
               /\ features(used).fabric \in 0..100
    <3>1. FabricAgrees(Build(spec), devices, policy, count, n, features(used).fabric)
      BY <2>1, <2>2, <2>3, FabricReflects
    <3> QED BY <3>1, Zenon DEF FabricAgrees
  <2>7. ASSUME NEW used \in {Cardinality(reserved), total - 1, total + 1}
        PROVE  /\ verdict(used).feasible <=>
                    used + count <= total /\ finds(policy.mode, count)
               /\ verdict(used).feasible =>
                    verdict(used).score = weightedMean(features(used), policy.weights)
    <3>1. Cardinality(reserved) \in Nat
      <4>1. IsFiniteSet(reserved)
        <5>1. reserved = {} \/ \E id \in IDs(spec.devices) : reserved = {id}
          BY DEF Reserved
        <5>2. IsFiniteSet({}) /\ \A id : IsFiniteSet({id})
          BY FS_EmptySet, FS_Singleton, Zenon
        <5> QED BY <5>1, <5>2, Zenon
      <4> QED BY <4>1, FS_CardinalityType
    <3>2. used \in Int
      BY <2>1, <3>1
    <3>3. finds(policy.mode, count) <=> selectDeviceIDs(Build(spec), devices, policy, count) # <<>>
      <4>1. InMode(policy, policy.mode) = policy
        BY <2>2, InModeFacts
      <4> QED BY <4>1 DEF Selecting
    <3>4. features(used).locality \in 0..100 /\ features(used).fabric \in 0..100
      BY <2>5, <2>6, ZenonT(30)
    <3> HIDE DEF finds
    <3>5. VerdictAgrees(verdict(used), Build(spec), devices, policy, count, used, total, features(used))
      BY <2>1, <2>2, <2>4, <3>2, <3>4, VerdictIs, ZenonT(30)
    <3> QED BY <3>3, <3>5, Zenon DEF VerdictAgrees
  <2> HIDE DEF finds, features, verdict
  <2>8. /\ finds("single-numa", count) \/ finds("same-pcie-root", count) =>
             features(0).locality >= percentage(count, n)
        /\ finds("fabric-clique", count) =>
             features(0).fabric >= percentage((count * (count - 1)) \div 2, (n * (n - 1)) \div 2)
        /\ features(0).locality = 100 => finds("single-numa", n) \/ finds("same-pcie-root", n)
        /\ features(0).fabric = 100 => finds("fabric-clique", n)
    BY <2>5, <2>6, Zenon
  <2> QED BY <2>7, <2>8, Zenon DEF finds, features, verdict
<1> QED BY <1>1, InputTyped, PTL

\* GetPreferredAllocation answers exactly the requests that can be met: for every
\* request the kubelet may send, preferredDevices returns the required devices and
\* the smallest available others, as many as asked for, or refuses when no such set
\* exists.
THEOREM PreferredAllocationIsExact == Spec => []PreferredAllocationExact
<1>1. InputType => PreferredAllocationExact
  <2> SUFFICES ASSUME InputType, NEW size \in -1..(MaxAvailable + 1)
               PROVE  LET answer == preferredDevices([available |-> request.available,
                                                      must |-> request.must, size |-> size])
                          chosen == Range(answer)
                      IN /\ answer # Refused <=>
                              \E S \in SUBSET Range(request.available) :
                                Range(request.must) \subseteq S /\ Cardinality(S) = size
                         /\ answer # Refused =>
                              /\ Len(answer) = size /\ Cardinality(chosen) = size
                              /\ Range(request.must) \subseteq chosen
                              /\ chosen \subseteq Range(request.available)
                              /\ \A a \in chosen \ Range(request.must),
                                    b \in Range(request.available) \ chosen : a < b
    BY Zenon DEF PreferredAllocationExact
  <2>1. /\ request.available \in Seq(Nat) /\ Distinct(request.available)
        /\ request.must \in Seq(Nat)
    BY DEF InputType
  <2>2. size \in Int
    BY InputAssumption
  <2> QED BY <2>1, <2>2, PreferredExact, SMTT(30)
<1> QED BY <1>1, InputTyped, PTL

\* Reordering the links of a spec, or swapping their ends, changes no claim against
\* what the DRA driver publishes and no attribute but the type of a device with
\* several; swapping ends does not change the snapshot that Build makes.
THEOREM OrderNeverDecides == Spec => []OrderDecidesNoClaim
<1>1. ASSUME InputType, Valid(spec),
             NEW other \in {Exchanged(k) : k \in 1..(Len(spec.links) - 1)}
                             \cup {FromOtherEnd(k) : k \in DOMAIN spec.links}
      PROVE  other \in TopologySpec /\ Rearranged(spec, other)
  <2> DEFINE n == Len(spec.links)
             D == DOMAIN spec.links
  <2>1. /\ spec \in TopologySpec /\ n \in Nat /\ D = 1..n
        /\ spec.links \in Seq(Link) /\ \A i \in D : spec.links[i] \in Link
    BY <1>1 DEF InputType, TopologySpec
  <2>2. ASSUME NEW links \in [D -> Link], NEW p \in [D -> D], \A i \in D : p[p[i]] = i,
               \A i \in D : links[i] \in {spec.links[p[i]], flipped(spec.links[p[i]])},
               NEW t, t = [spec EXCEPT !.links = links]
        PROVE  t \in TopologySpec /\ Rearranged(spec, t)
    <3>1. links \in Seq(Link)
      BY <2>1, ListOf, Zenon
    <3>2. t \in TopologySpec
      BY <2>1, <2>2, <3>1, ZenonT(30) DEF TopologySpec
    <3>3. t.links = links /\ t.devices = spec.devices /\ t.observedGeneration = spec.observedGeneration
      BY <2>1, <2>2 DEF TopologySpec
    <3> QED BY <2>2, <3>2, <3>3 DEF Rearranged
  <2>3. other \in TopologySpec /\ Rearranged(spec, other)
    <3>1. CASE \E k \in 1..(n - 1) : other = Exchanged(k)
      <4>1. PICK k \in 1..(n - 1) : other = Exchanged(k)
        BY <3>1
      <4> DEFINE links == [spec.links EXCEPT ![k] = spec.links[k + 1], ![k + 1] = spec.links[k]]
                 p == [i \in D |-> IF i = k THEN k + 1 ELSE IF i = k + 1 THEN k ELSE i]
      <4>2. k \in D /\ k + 1 \in D /\ k # k + 1
        BY <2>1
      <4>3. links \in [D -> Link] /\ \A i \in D : links[i] = spec.links[p[i]]
        BY <2>1, <4>2, SMTT(30)
      <4>4. p \in [D -> D] /\ \A i \in D : p[p[i]] = i
        BY <4>2
      <4>5. other = [spec EXCEPT !.links = links]
        BY <4>1, ZenonT(30) DEF Exchanged
      <4> HIDE DEF links, p, D
      <4>6. \A i \in D : links[i] \in {spec.links[p[i]], flipped(spec.links[p[i]])}
        BY <4>3
      <4> QED BY <2>2, <4>3, <4>4, <4>5, <4>6
    <3>2. CASE \E k \in D : other = FromOtherEnd(k)
      <4>1. PICK k \in D : other = FromOtherEnd(k)
        BY <3>2
      <4> DEFINE links == [spec.links EXCEPT ![k] = flipped(spec.links[k])]
                 p == [i \in D |-> i]
      <4>2. flipped(spec.links[k]) \in Link
        BY <2>1, FlippedLink
      <4>3. links \in [D -> Link] /\ \A i \in D : links[i] \in {spec.links[i], flipped(spec.links[i])}
        BY <2>1, <4>2
      <4>4. p \in [D -> D] /\ \A i \in D : p[p[i]] = i /\ p[i] = i
        OBVIOUS
      <4>5. other = [spec EXCEPT !.links = links]
        BY <4>1 DEF FromOtherEnd
      <4> HIDE DEF links, p, D
      <4>6. \A i \in D : links[i] \in {spec.links[p[i]], flipped(spec.links[p[i]])}
        BY <4>3, <4>4
      <4> QED BY <2>2, <4>3, <4>4, <4>5, <4>6
    <3> QED BY <1>1, <3>1, <3>2
  <2> QED BY <2>3
<1>2. ASSUME InputType, Valid(spec), NEW k \in DOMAIN spec.links
      PROVE  Build(FromOtherEnd(k)) = Build(spec)
  <2>1. spec \in TopologySpec
    BY <1>2 DEF InputType
  <2> QED BY <1>1, <1>2, <2>1, RearrangedBuild
<1>3. ASSUME InputType, Valid(spec),
             NEW other \in {Exchanged(k) : k \in 1..(Len(spec.links) - 1)}
                             \cup {FromOtherEnd(k) : k \in DOMAIN spec.links}
      PROVE  /\ \A p \in Policies, count \in 1..Len(spec.devices) :
                  LET policy == [p EXCEPT !.deviceCount = count] IN
                  Translatable(policy) =>
                    Allocatable(ResourcesForTopology(other), policy)
                      = Allocatable(ResourcesForTopology(spec), policy)
             /\ \A d \in Range(spec.devices) :
                  LET before == attributes(spec, d)
                      after == attributes(other, d)
                      types == {l.type : l \in {m \in Range(spec.links) : CountsFor(spec, m, d.id)}}
                  IN /\ after = [before EXCEPT !.fabricType = after.fabricType]
                     /\ \/ after.fabricType = before.fabricType
                        \/ {before.fabricType, after.fabricType} \subseteq types
  <2>1. spec \in TopologySpec /\ other \in TopologySpec /\ Rearranged(spec, other)
    BY <1>1, <1>3 DEF InputType
  <2>2. ASSUME NEW p \in Policies, NEW count \in 1..Len(spec.devices)
        PROVE  Allocatable(ResourcesForTopology(other), [p EXCEPT !.deviceCount = count])
                 = Allocatable(ResourcesForTopology(spec), [p EXCEPT !.deviceCount = count])
    <3> DEFINE policy == [p EXCEPT !.deviceCount = count]
    <3>1. policy.deviceCount \in Nat
      BY InputAssumption DEF PolicySpec
    <3> HIDE DEF policy
    <3>2. Allocatable(ResourcesForTopology(other), policy) = Allocatable(ResourcesForTopology(spec), policy)
      BY <1>3, <2>1, <3>1, RearrangedClaims, Zenon
    <3> QED BY <3>2 DEF policy
  <2>3. ASSUME NEW d \in Range(spec.devices)
        PROVE  SameButType(attributes(spec, d), attributes(other, d), CountedTypes(spec, d.id))
    BY <1>3, <2>1, RearrangedAttributes, Zenon
  <2> QED BY <2>2, <2>3, Zenon DEF SameButType, CountedTypes
<1>4. InputType => OrderDecidesNoClaim
  BY <1>2, <1>3, Zenon DEF OrderDecidesNoClaim
<1> QED BY <1>4, InputTyped, PTL

\* Two devices of a group that the selectors accept, with a healthy fabric link
\* between them, are linked.
LEMMA GroupLinked ==
  ASSUME spec \in TopologySpec, Valid(spec),
         NEW policy, policy.mode = "fabric-clique",
         policy.minBandwidth \in Nat, policy.maxHops \in Nat,
         NEW d \in Accepts(spec, policy), NEW e \in Accepts(spec, policy), d.id # e.id,
         d.fabricGroup = e.fabricGroup, d.fabricGroup # Unknown,
         HealthyFabric(Build(spec), {d.id, e.id})
  PROVE  Linked(Build(spec), policy, d.id, e.id)
<1> DEFINE D == Range(spec.devices)
           links == spec.links
           K == DOMAIN links
           a == d.id
           b == e.id
           facts == fabricByID(spec, a)
           attrs == attributes(spec, d)
           link == LinkBetween(Build(spec), a, b)
<1>1. d \in D /\ e \in D /\ Selected(policy, attrs)
  BY DEF Accepts
<1>2. link # NoLink /\ link.type # "pcie" /\ link.health = "Healthy"
  BY Zenon DEF HealthyFabric
<1>3. /\ \A k \in K : links[k] \in Link
      /\ \A k \in K : links[k].bandwidth \in Nat /\ links[k].hops \in Nat
  <2>1. \A k \in K : links[k] \in Link /\ links[k].bandwidth >= 0 /\ links[k].hops >= 0
    BY DEF TopologySpec, Valid, validateLink
  <2> QED BY <2>1 DEF Link
<1>4. /\ a \in IDs(spec.devices) /\ b \in IDs(spec.devices)
      /\ DeviceByID(spec, a) = d /\ DeviceByID(spec, b) = e
  <2>1. IDs(spec.devices) = {x.id : x \in D} /\ \A x, y \in D : x.id = y.id => x = y
    BY ValidSpec, ZenonT(30)
  <2>2. DeviceByID(spec, a) = d /\ DeviceByID(spec, b) = e
    BY <1>1, <2>1 DEF DeviceByID
  <2> QED BY <1>1, <2>1, <2>2
<1>5. PICK l \in Range(links) : Joins(l, a, b) /\ StoredFor(link, l, a, b)
  <2>1. Governs(link, Range(links), a, b)
    BY <1>4, LinkBetweenGoverns
  <2> HIDE DEF link
  <2> QED BY <1>2, <2>1, Zenon DEF Governs
<1>7. PICK k \in K :
        /\ links[k] \in Link /\ Joins(links[k], a, b)
        /\ links[k].type # "pcie" /\ links[k].health = "Healthy" /\ link.type # "pcie"
        /\ link.health = "Healthy" /\ link.bandwidth = links[k].bandwidth /\ link.hops = links[k].hops
  <2>1. PICK k \in K : links[k] = l
    BY <1>5 DEF Range
  <2>2. links[k] \in Link /\ link \in {links[k], flipped(links[k])}
    BY <1>3, <1>5, <2>1 DEF StoredFor
  <2> HIDE DEF link
  <2>3. /\ link.type = links[k].type /\ link.health = links[k].health
        /\ link.bandwidth = links[k].bandwidth /\ link.hops = links[k].hops
    BY <2>2, EitherEnd
  <2> QED BY <1>2, <1>5, <2>1, <2>2, <2>3
<1>8. /\ facts.found = TRUE /\ facts.minBandwidth \in Nat /\ facts.maxHops \in Nat
      /\ facts.minBandwidth <= links[k].bandwidth /\ links[k].hops <= facts.maxHops
  <2> DEFINE counted == {j \in K : CountsFor(spec, links[j], a)}
  <2>1. CountsFor(spec, links[k], a)
    BY <1>4, <1>7 DEF CountsFor, Joins
  <2>2. SumsUp(facts, links, counted)
    BY FabricFacts
  <2>3. k \in counted /\ \A j \in counted : links[j].bandwidth \in Nat /\ links[j].hops \in Nat
    BY <1>3, <1>7, <2>1
  <2> HIDE DEF counted, facts
  <2> QED BY <2>2, <2>3, SumsUpBounds, Zenon
<1>9. attrs.fabricBandwidth = facts.minBandwidth \div 2 /\ attrs.fabricHops = facts.maxHops
  BY <1>8 DEF attributes
<1>10. /\ policy.minBandwidth > 0 => attrs.fabricBandwidth >= (policy.minBandwidth + 1) \div 2
       /\ attrs.fabricHops <= policy.maxHops
  BY <1>1 DEF Selected
<1> HIDE DEF facts, attrs, link, K, links
<1>11. link.bandwidth >= policy.minBandwidth
  <2>1. links[k].bandwidth \in Nat
    BY <1>3
  <2>2. CASE policy.minBandwidth = 0
    BY <1>7, <2>1, <2>2
  <2>3. CASE policy.minBandwidth > 0
    <3>1. facts.minBandwidth >= policy.minBandwidth
      BY <1>8, <1>9, <1>10, <2>3, RoundedComparison
    <3> QED BY <1>7, <1>8, <2>1, <3>1
  <2> QED BY <2>2, <2>3
<1>12. link.hops <= policy.maxHops
  <2>1. links[k].hops \in Nat
    BY <1>3
  <2> QED BY <1>7, <1>8, <1>9, <1>10, <2>1
<1>13. qualifiesFabricLink(link, policy)
  BY <1>7, <1>11, <1>12 DEF qualifiesFabricLink, Accepted
<1> QED BY <1>2, <1>13 DEF Linked, link

\* A claim made from a policy's template may get exactly the combinations that
\* TopologyFit accepts.  In the clique mode, where an attribute per device cannot
\* say which pairs of a group lack a healthy link, it is a clique for TopologyFit
\* exactly when LinkBetween finds one for every pair: bandwidths, with their
\* roundings to whole GB/s, and hops never make the difference.
THEOREM ClaimsMatchTopologyFit == Spec => []DRAMatchesTopologyFit
<1>1. InputType => DRAMatchesTopologyFit
  <2> SUFFICES ASSUME InputType, Valid(spec), NEW p \in Validated, NEW count \in 0..Len(spec.devices)
               PROVE  LET policy == [p EXCEPT !.deviceCount = count]
                          allocatable == Allocatable(ResourcesForTopology(spec), policy)
                          combinations == CombinationsOf(Build(spec), policy, {}, count)
                      IN /\ validatePolicy(policy) <=> Translatable(policy)
                         /\ Translatable(policy)
                            /\ (\A d \in Range(spec.devices) : d.resourceName = policy.resourceName) =>
                              IF policy.mode = "fabric-clique"
                              THEN \A S \in allocatable :
                                     S \in combinations <=> HealthyFabric(Build(spec), S)
                              ELSE allocatable = combinations
    BY Zenon DEF DRAMatchesTopologyFit
  <2> DEFINE policy == [p EXCEPT !.deviceCount = count]
             allocatable == Allocatable(ResourcesForTopology(spec), policy)
             combinations == CombinationsOf(Build(spec), policy, {}, count)
             D == Range(spec.devices)
             E == Accepts(spec, policy)
             C == {d \in D : Eligible(d, policy)}
             ids == {d.id : d \in C}
  <2>1. spec \in TopologySpec /\ count \in Nat
    BY DEF InputType, TopologySpec
  <2>2. p \in PolicySpec /\ validatePolicy(p)
    BY InputAssumption DEF Validated
  <2>3. /\ policy.deviceCount = count /\ policy.mode = p.mode /\ policy.allowUnknown = p.allowUnknown
        /\ policy.minMemory = p.minMemory /\ policy.minBandwidth = p.minBandwidth
        /\ policy.maxHops = p.maxHops /\ policy.failurePolicy = p.failurePolicy
        /\ policy.weights = p.weights
    BY <2>2 DEF PolicySpec
  <2>4. /\ policy.mode \in Modes /\ policy.allowUnknown \in BOOLEAN
        /\ policy.minMemory \in Nat /\ policy.minBandwidth \in Nat /\ policy.maxHops \in Nat
    BY <2>2, <2>3 DEF PolicySpec, validatePolicy
  <2> HIDE DEF policy
  <2>5. validatePolicy(policy) <=> Translatable(policy)
    <3>1. count # NoDRA
      BY <2>1 DEF NoDRA
    <3>2. validatePolicy(policy) <=>
            policy.deviceCount >= 1 /\ policy.mode # "fabric-connected" /\ ~policy.allowUnknown
      BY <2>2, <2>3, <3>1 DEF validatePolicy
    <3> QED BY <2>4, <3>2 DEF Translatable, Modes
  <2>6. ASSUME Translatable(policy), \A d \in D : d.resourceName = policy.resourceName
        PROVE  IF policy.mode = "fabric-clique"
               THEN \A S \in allocatable : S \in combinations <=> HealthyFabric(Build(spec), S)
               ELSE allocatable = combinations
    <3>1. policy.allowUnknown = FALSE
      BY <2>4, <2>6 DEF Translatable
    <3>2. /\ IDs(eligibleDevices(Build(spec), policy)) \ {} = ids
          /\ E \subseteq C /\ (policy.mode # "fabric-clique" => E = C)
      BY <2>1, <2>4, <2>6, <3>1, AcceptsEligible, Zenon
    <3>3. allocatable = {S \in kSubset(count, {d.id : d \in E}) : Matching(spec, policy, S)}
      BY <2>1, <2>3, Allocates, Zenon
    <3>4. combinations = {S \in kSubset(count, ids) : Satisfies(Build(spec), policy, S)}
      BY <3>2, Zenon DEF CombinationsOf
    <3>5. ids \subseteq IDs(spec.devices) /\ \A d, e \in D : d.id = e.id => d = e
      BY <2>1, ValidSpec
    <3>6. \A S \in kSubset(count, ids) : S \in SUBSET IDs(spec.devices)
      BY <3>5 DEF kSubset
    <3> HIDE DEF allocatable, combinations, ids, C, E
    <3>7. CASE policy.mode = "fabric-clique"
      <4> SUFFICES ASSUME NEW S \in kSubset(count, {d.id : d \in E}), Matching(spec, policy, S)
                   PROVE  /\ S \in kSubset(count, ids)
                          /\ Satisfies(Build(spec), policy, S) <=> HealthyFabric(Build(spec), S)
        BY <3>3, <3>4, <3>7
      <4>1. S \in kSubset(count, ids)
        BY <3>2 DEF kSubset, ids
      <4>2. ASSUME HealthyFabric(Build(spec), S)
            PROVE  Linking(Build(spec), policy, S)
        <5> SUFFICES ASSUME NEW a \in S, NEW b \in S, a # b
                     PROVE  Linked(Build(spec), policy, a, b)
          BY DEF Linking
        <5>0. HealthyFabric(Build(spec), {a, b})
          BY <4>2, Zenon DEF HealthyFabric
        <5>1. PICK d \in E : d.id = a
          BY DEF kSubset
        <5>2. PICK e \in E : e.id = b
          BY DEF kSubset
        <5>3. /\ matchAttribute(policy, attributes(spec, d)) # Unknown
              /\ matchAttribute(policy, attributes(spec, d)) = matchAttribute(policy, attributes(spec, e))
          BY <5>1, <5>2 DEF Matching, E
        <5>4. d.fabricGroup # Unknown /\ d.fabricGroup = e.fabricGroup
          BY <3>7, <5>3 DEF matchAttribute, attributes
        <5> QED BY <2>1, <2>4, <3>7, <5>0, <5>1, <5>2, <5>4, GroupLinked DEF E
      <4>3. ASSUME Linking(Build(spec), policy, S)
            PROVE  HealthyFabric(Build(spec), S)
        BY <3>1, <4>3, Zenon DEF Linking, Linked, qualifiesFabricLink, Accepted, HealthyFabric
      <4>4. Satisfies(Build(spec), policy, S) <=> Linking(Build(spec), policy, S)
        BY <2>1, <3>6, <3>7, <4>1, SatisfiesFacts
      <4> QED BY <4>1, <4>2, <4>3, <4>4
    <3>8. CASE policy.mode # "fabric-clique"
      <4>1. {d.id : d \in E} = ids
        BY <3>2, <3>8 DEF ids
      <4>2. ASSUME NEW S \in kSubset(count, ids)
            PROVE  Matching(spec, policy, S) <=> Satisfies(Build(spec), policy, S)
        <5>1. S \subseteq {d.id : d \in Accepts(spec, policy)}
          BY <4>1 DEF kSubset, E
        <5>2. /\ policy.mode = "best-effort" => Matching(spec, policy, S)
              /\ policy.mode = "single-numa" =>
                   (Matching(spec, policy, S) <=> Alike(spec, policy.allowUnknown, "numaNode", S))
              /\ policy.mode = "same-pcie-root" =>
                   (Matching(spec, policy, S) <=> Alike(spec, policy.allowUnknown, "pcieRoot", S))
          BY <3>1, <3>5, <5>1, MatchingAlike, Zenon
        <5>3. /\ policy.mode = "best-effort" => Satisfies(Build(spec), policy, S)
              /\ policy.mode = "single-numa" =>
                   (Satisfies(Build(spec), policy, S) <=> Alike(spec, policy.allowUnknown, "numaNode", S))
              /\ policy.mode = "same-pcie-root" =>
                   (Satisfies(Build(spec), policy, S) <=> Alike(spec, policy.allowUnknown, "pcieRoot", S))
          BY <2>1, <3>6, SatisfiesFacts
        <5>4. policy.mode \in {"best-effort", "single-numa", "same-pcie-root"}
          BY <2>6, <3>8 DEF Translatable
        <5> QED BY <5>2, <5>3, <5>4
      <4>3. allocatable = combinations
        BY <3>3, <3>4, <4>1, <4>2
      <4> QED BY <3>8, <4>3
    <3> QED BY <3>7, <3>8
  <2> QED BY <2>5, <2>6 DEF policy
<1> QED BY <1>1, InputTyped, PTL

\* The NVIDIA provider gives two GPUs the same fabric group exactly when they are in
\* a set of GPUs that are all linked by NVLink with each other and with no other GPU,
\* and TopologyFit finds every such group to be a clique, for every number of GPUs
\* and every matrix nvidia-smi may print.
THEOREM DiscoveredGroupsAlwaysCliques == Spec => []DiscoveredGroupsAreCliques
<1>1. InputType => DiscoveredGroupsAreCliques
  <2> DEFINE found == Discover(matrix, gpus, 1)
             snapshot == Build(found)
             policy == [allowUnknown |-> TRUE, minBandwidth |-> 0, maxHops |-> 1]
             Close(i) == {i} \cup {j \in 1..gpus : Linked(snapshot, policy, i, j)}
             groupOf(i) == found.devices[i].fabricGroup
             groups == completeNVLinkGroups(matrix)
             H(i) == Hood(matrix, i)
  <2> SUFFICES ASSUME InputType, gpus > 0, Parses(matrix, gpus)
               PROVE  /\ Valid(found)
                      /\ \A i, j \in 1..gpus : i # j =>
                           /\ j \in Close(i) <=> matrix[i][j] \in NVLinkCodes
                           /\ groupOf(i) = groupOf(j) /\ groupOf(i) # Unknown
                                <=> j \in Close(i) /\ \A k \in Close(i) : Close(k) = Close(i)
                      /\ \A i \in 1..gpus : groupOf(i) # Unknown =>
                           \E j \in 1..gpus \ {i} : groupOf(j) = groupOf(i)
    BY ZenonT(30) DEF DiscoveredGroupsAreCliques
  <2>1. gpus \in Nat \ {0} /\ DOMAIN matrix = 1..gpus
    BY DEF InputType, Parses
  <2>2. Made(found, matrix, gpus)
    BY <2>1, DiscoverMakes
  <2>3. Valid(found) /\ \A i \in 1..gpus : groupOf(i) = groups[i]
    BY <2>2 DEF Made
  <2>4. Numbered(groups, matrix, gpus)
    BY <2>1, GroupsNumbered
  <2>5. policy.allowUnknown = TRUE /\ policy.minBandwidth = 0 /\ policy.maxHops = 1
    OBVIOUS
  <2> HIDE DEF found, policy, groups
  <2>6. \A i, j \in 1..gpus : i # j => (Linked(snapshot, policy, i, j) <=> matrix[i][j] \in NVLinkCodes)
    BY <2>1, <2>2, <2>5, LinkedByCode, Zenon
  <2> HIDE DEF snapshot
  <2>7. \A i \in 1..gpus : Close(i) = H(i) /\ H(i) \subseteq 1..gpus /\ i \in H(i)
    BY <2>1, <2>6 DEF Hood, nvlink
  <2>8. /\ \A i \in 1..gpus : groups[i] # Unknown <=> InClique(matrix, i)
        /\ \A i, j \in 1..gpus : InClique(matrix, i) /\ InClique(matrix, j) =>
             (groups[i] = groups[j] <=> H(i) = H(j))
    BY <2>4 DEF Numbered
  <2>9. \A i \in 1..gpus : InClique(matrix, i) <=> H(i) # {i} /\ \A k \in H(i) : H(k) = H(i)
    BY DEF InClique
  <2> HIDE DEF H, Close, groupOf
  <2>10. ASSUME NEW i \in 1..gpus, NEW j \in H(i), j # i, \A k \in H(i) : H(k) = H(i)
         PROVE  j \in 1..gpus /\ groups[i] = groups[j] /\ groups[i] # Unknown
    <3>1. j \in 1..gpus /\ H(j) = H(i)
      BY <2>7, <2>10
    <3>2. InClique(matrix, i) /\ InClique(matrix, j)
      BY <2>7, <2>9, <2>10, <3>1
    <3> QED BY <2>8, <3>1, <3>2
  <2>11. ASSUME NEW i \in 1..gpus, NEW j \in 1..gpus, i # j
         PROVE  /\ j \in Close(i) <=> matrix[i][j] \in NVLinkCodes
                /\ groupOf(i) = groupOf(j) /\ groupOf(i) # Unknown
                     <=> j \in Close(i) /\ \A k \in Close(i) : Close(k) = Close(i)
    <3>1. j \in Close(i) <=> matrix[i][j] \in NVLinkCodes
      BY <2>6, <2>11 DEF Close
    <3>2. ASSUME groups[i] = groups[j], groups[i] # Unknown
          PROVE  j \in H(i) /\ \A k \in H(i) : H(k) = H(i)
      <4>1. InClique(matrix, i) /\ InClique(matrix, j)
        BY <2>8, <3>2
      <4>2. H(i) = H(j)
        BY <2>8, <3>2, <4>1
      <4> QED BY <2>7, <2>9, <4>1, <4>2
    <3>3. ASSUME j \in H(i), \A k \in H(i) : H(k) = H(i)
          PROVE  groups[i] = groups[j] /\ groups[i] # Unknown
      BY <2>10, <2>11, <3>3
    <3>4. Close(i) = H(i) /\ \A k \in H(i) : Close(k) = H(k)
      BY <2>7
    <3>5. groupOf(i) = groups[i] /\ groupOf(j) = groups[j]
      BY <2>3
    <3> QED BY <3>1, <3>2, <3>3, <3>4, <3>5
  <2>12. ASSUME NEW i \in 1..gpus, groupOf(i) # Unknown
         PROVE  \E j \in 1..gpus \ {i} : groupOf(j) = groupOf(i)
    <3>1. H(i) # {i} /\ \A k \in H(i) : H(k) = H(i)
      BY <2>3, <2>8, <2>9, <2>12
    <3>2. PICK j \in H(i) : j # i
      BY <2>7, <3>1
    <3>3. j \in 1..gpus /\ groups[i] = groups[j]
      BY <2>10, <3>1, <3>2
    <3> QED BY <2>3, <3>2, <3>3
  <2> QED BY <2>3, <2>11, <2>12
<1> QED BY <1>1, InputTyped, PTL
===============================================================================
