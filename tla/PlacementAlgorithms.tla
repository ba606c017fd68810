-------------------------- MODULE PlacementAlgorithms --------------------------
(***************************************************************************)
(* The pure algorithms that turn a topology into placements, against       *)
(* definitions of what they should compute:                                *)
(*   - Build, selectDeviceIDs and scoreFeatures, on a topology spec;       *)
(*   - ResourcesForTopology and ResourceClaimTemplateForPolicy, compared   *)
(*     with TopologyFit on the same spec and policy;                       *)
(*   - the NVIDIA provider, on the matrix nvidia-smi prints;               *)
(*   - preferredDevices, on a request of the kubelet.                      *)
(* The code runs each on whatever input it is given, so the state is an    *)
(* input and a step changes it: a link is declared, a link fails, a cell   *)
(* of the matrix is read, an ID is put on a list of the request.           *)
(***************************************************************************)
EXTENDS Combinations, DRATranslation, NVIDIAProvider, PreferredAllocation, Fixtures

CONSTANTS
  Inventories,    \* specs without links
  NextLinks(_),   \* the links that may be declared next in a spec
  Policies,       \* the policies of the Pods
  MaxFailures,    \* how many links of a fixture topology fail
  GPUs,           \* the numbers of GPUs of the NVIDIA nodes
  Codes(_),       \* for a number of GPUs, what the two cells of a pair may hold
  IDsAsked,       \* the device IDs in requests of the kubelet
  MaxAvailable,   \* the longest list of available devices
  MaxMust         \* the longest list of required devices

\* The inputs have the types of the API.
ASSUME InputAssumption ==
  /\ Inventories \subseteq TopologySpec
  /\ Policies \subseteq PolicySpec
  /\ GPUs \subseteq Nat
  /\ IDsAsked \subseteq Nat
  /\ MaxAvailable \in Nat

VARIABLES
  spec,      \* a topology spec
  gpus,      \* the number of GPUs the device query returns, 0 for none
  matrix,    \* the rows of nvidia-smi topo -m
  request    \* a container's preferred allocation request

vars == <<spec, gpus, matrix, request>>

NoSpec == [observedGeneration |-> 0, devices |-> <<>>, links |-> <<>>]
NoRequest == [available |-> <<>>, must |-> <<>>]

\* Every pair's cells start as SYS; the last row may be missing.
Unread(n) == {[i \in 1..n |-> [j \in 1..n |-> IF i = j THEN "X" ELSE "SYS"]],
              [i \in 1..(n - 1) |-> [j \in 1..n |-> IF i = j THEN "X" ELSE "SYS"]]}

Init ==
  /\ request = NoRequest
  /\ \/ spec \in Inventories \cup ThreeNodeTopologies /\ gpus = 0 /\ matrix = <<>>
     \/ spec = NoSpec /\ gpus \in GPUs \cup {0} /\ matrix \in Unread(gpus)

DeclareLink ==
  /\ \E link \in NextLinks(spec) \cap Link : spec' = [spec EXCEPT !.links = Append(@, link)]
  /\ UNCHANGED <<gpus, matrix, request>>

LinkFails ==
  /\ Len(spec.devices) = 8
  /\ Cardinality({k \in DOMAIN spec.links : spec.links[k].health # "Healthy"}) < MaxFailures
  /\ \E k \in DOMAIN spec.links : spec' = [spec EXCEPT !.links[k].health = "Unhealthy"]
  /\ UNCHANGED <<gpus, matrix, request>>

\* Cells are read in order: no later pair has been read.
ReadPair ==
  /\ gpus > 0 /\ DOMAIN matrix = 1..gpus
  /\ \E i, j \in 1..gpus, cells \in Codes(gpus) :
       /\ i < j /\ matrix[i][j] = "SYS" /\ matrix[j][i] = "SYS"
       /\ \A k, l \in 1..gpus : k < l /\ (k > i \/ (k = i /\ l > j)) => matrix[k][l] = "SYS"
       /\ matrix' = [matrix EXCEPT ![i][j] = cells[1], ![j][i] = cells[2]]
  /\ UNCHANGED <<spec, gpus, request>>

Ask ==
  /\ gpus = 0 /\ spec.devices = <<>>
  /\ \E id \in IDsAsked :
       \/ /\ Len(request.available) < MaxAvailable /\ id \notin Range(request.available)
          /\ request' = [request EXCEPT !.available = Append(@, id)]
       \/ /\ Len(request.must) < MaxMust
          /\ request' = [request EXCEPT !.must = Append(@, id)]
  /\ UNCHANGED <<spec, gpus, matrix>>

Next == DeclareLink \/ LinkFails \/ ReadPair \/ Ask
Spec == Init /\ [][Next]_vars

-------------------------------------------------------------------------------
\* The policies of Pods that PreFilter lets through.
Validated == {policy \in Policies : validatePolicy(policy)}

\* Reserved sets: none, or one device.
Reserved == {{}} \cup {{id} : id \in IDs(spec.devices)}

\* selectDeviceIDs finds devices exactly when some combination exists, and what
\* it returns is one: the pruned depth-first search of the clique mode misses no
\* clique, the breadth-first search of the connected mode cut off at the
\* requested size returns a connected set, and no mode uses a reserved device.
\* Filter's verdict and Reserve's choice of devices rest on this.
SelectionDecides ==
  Valid(spec) =>
    LET snapshot == Build(spec) IN
    \A policy \in Validated, reserved \in Reserved :
      LET devices == excludeReservedDevices(eligibleDevices(snapshot, policy), reserved) IN
      \A count \in 1..(Len(spec.devices) + 1) :
        LET selected == selectDeviceIDs(snapshot, devices, policy, count)
            combinations == CombinationsOf(snapshot, policy, reserved, count)
        IN /\ selected = <<>> <=> combinations = {}
           /\ selected # <<>> => Len(selected) = count /\ Range(selected) \in combinations

\* In the NUMA and PCIe modes the devices come from a smallest group that is
\* large enough (the sort in selectDeviceGroup), so a Pod never breaks up a
\* larger group while a smaller one would do.
SmallestGroupUsed ==
  Valid(spec) =>
    LET snapshot == Build(spec) IN
    \A policy \in {p \in Validated : p.mode \in {"single-numa", "same-pcie-root"}},
       count \in 1..Len(spec.devices) :
      LET devices == eligibleDevices(snapshot, policy)
          Key(d) == IF policy.mode = "single-numa" THEN d.numaNode ELSE d.pcieRoot
          Members(k) == {d \in Range(devices) : Key(d) = k}
          selected == selectDeviceIDs(snapshot, devices, policy, count)
      IN selected # <<>> =>
           LET used == Key(CHOOSE d \in Range(devices) : d.id = selected[1])
           IN \A k \in {Key(d) : d \in Range(devices)} :
                /\ k # Unknown \/ policy.allowUnknown
                /\ Cardinality(Members(k)) >= count
                => Cardinality(Members(used)) <= Cardinality(Members(k))

\* The spec with links k and k + 1 exchanged, or link k declared from its other
\* end.
Exchanged(k) == [spec EXCEPT !.links[k] = spec.links[k + 1], !.links[k + 1] = spec.links[k]]
FromOtherEnd(k) == [spec EXCEPT !.links[k] = flipped(spec.links[k])]

\* The order in which links are declared, and from which end, decides no claim:
\* ResourcesForTopology folds the list as it is, and publishes the same
\* attributes, except for the type of the fabric of a device whose links that
\* count have several types.  Build's snapshot is the same from either end.
OrderDecidesNoClaim ==
  Valid(spec) =>
    /\ \A k \in DOMAIN spec.links : Build(FromOtherEnd(k)) = Build(spec)
    /\ \A other \in {Exchanged(k) : k \in 1..(Len(spec.links) - 1)}
                      \cup {FromOtherEnd(k) : k \in DOMAIN spec.links} :
         /\ \A p \in Policies, count \in 1..Len(spec.devices) :
              LET policy == [p EXCEPT !.deviceCount = count] IN
              Translatable(policy) =>
                Allocatable(ResourcesForTopology(other), policy)
                  = Allocatable(ResourcesForTopology(spec), policy)
         /\ \A d \in Range(spec.devices) :
              LET before == attributes(spec, d)
                  after == attributes(other, d)
                  types == {l.type : l \in {m \in Range(spec.links) : CountsFor(spec, m, d.id)}}
              IN /\ after = [before EXCEPT !.fabricType = after.fabricType]
                 /\ \/ after.fabricType = before.fabricType
                    \/ {before.fabricType, after.fabricType} \subseteq types

\* The links that a spec declares between two devices.
Between(a, b) == {l \in Range(spec.links) : {l.source, l.target} = {a, b}}

\* Two devices count as linked only by a declared link between them that
\* qualifies, whichever end it is declared from, and each of them sees the other.
\* They do count as linked when all the links declared between them qualify.
LinkedAsDeclared ==
  Valid(spec) =>
    LET snapshot == Build(spec) IN
    \A policy \in Validated, a, b \in IDs(spec.devices) :
      LET qualifying == {l \in Between(a, b) : qualifiesFabricLink(l, policy)}
          linked == Linked(snapshot, policy, a, b)
      IN /\ linked => Linked(snapshot, policy, b, a) /\ qualifying # {}
         /\ qualifying = Between(a, b) /\ qualifying # {} => linked

\* ADR-0003: "Fabric modes use healthy non-PCIe links that satisfy minimum
\* bandwidth and maximum hops": any such link makes its ends neighbours, other
\* links between the two notwithstanding.
FabricModesUseFabricLinks ==
  Valid(spec) =>
    LET snapshot == Build(spec) IN
    \A policy \in Validated, a, b \in IDs(spec.devices) :
      (\E l \in Between(a, b) : qualifiesFabricLink(l, policy)) => Linked(snapshot, policy, a, b)

\* The score agrees with the selection on the same devices.  Devices chosen in
\* one NUMA node or PCIe root, or as a clique, force the locality or fabric
\* feature up to their share of the node; locality 100 means all devices share a
\* NUMA node or PCIe root, fabric 100 that they are a clique.  evaluate's score
\* is the weighted mean itself: the clamp in weightedScore never acts.  A node with
\* too few devices left, or overcommitted, is not feasible.
ScoreReflectsSelection ==
  Valid(spec) =>
    LET snapshot == Build(spec)
        total == Len(spec.devices)
        edges(k) == (k * (k - 1)) \div 2 IN
    \A policy \in Validated, reserved \in Reserved :
      LET devices == excludeReservedDevices(eligibleDevices(snapshot, policy), reserved)
          n == Len(devices)
          Selects(mode, count) ==
            selectDeviceIDs(snapshot, devices, [policy EXCEPT !.mode = mode], count) # <<>>
          Features(count, used) ==
            scoreFeatures(snapshot, devices, policy, count, scalarHeadroom(total, used), total)
          Verdict(count, used) ==
            evaluate([ready |-> TRUE, snapshot |-> snapshot], policy, reserved, count, used, total)
      IN \A count \in 1..n :
        LET features == Features(count, 0) IN
        /\ Selects("single-numa", count) \/ Selects("same-pcie-root", count) =>
             features.locality >= percentage(count, n)
        /\ Selects("fabric-clique", count) =>
             features.fabric >= percentage(edges(count), edges(n))
        /\ features.locality = 100 => Selects("single-numa", n) \/ Selects("same-pcie-root", n)
        /\ features.fabric = 100 => Selects("fabric-clique", n)
        /\ \A used \in {Cardinality(reserved), total - 1, total + 1} :
             LET verdict == Verdict(count, used) IN
             /\ verdict.feasible <=> used + count <= total /\ Selects(policy.mode, count)
             /\ verdict.feasible =>
                  verdict.score = weightedMean(Features(count, used), policy.weights)

\* LinkBetween finds a healthy fabric link between every two devices of the set.
HealthyFabric(snapshot, S) ==
  \A a, b \in S : a # b =>
    LET link == LinkBetween(snapshot, a, b)
    IN link # NoLink /\ link.type # "pcie" /\ link.health = "Healthy"

\* A claim made from a policy's template may get exactly the combinations that
\* TopologyFit would accept under the policy, in the modes without fabric
\* constraints.  In the clique mode an attribute per device cannot say which pairs
\* of a group lack a healthy link: what the claim gets is a clique for TopologyFit
\* exactly when no pair lacks one, so that bandwidths, with their roundings, and
\* hops never make a difference.  The node's devices share one resource name;
\* templates do not select on it.  With DRA parameters a policy passes PreFilter
\* exactly when the policy controller can make a template of it.
DRAMatchesTopologyFit ==
  Valid(spec) =>
    LET snapshot == Build(spec)
        resources == ResourcesForTopology(spec) IN
    \A p \in Validated, count \in 0..Len(spec.devices) :
      LET policy == [p EXCEPT !.deviceCount = count]
          allocatable == Allocatable(resources, policy)
          combinations == CombinationsOf(snapshot, policy, {}, count)
      IN /\ validatePolicy(policy) <=> Translatable(policy)
         /\ Translatable(policy)
            /\ (\A d \in Range(spec.devices) : d.resourceName = policy.resourceName) =>
              IF policy.mode = "fabric-clique"
              THEN \A S \in allocatable : S \in combinations <=> HealthyFabric(snapshot, S)
              ELSE allocatable = combinations

\* What the NVIDIA provider makes of a matrix it accepts is a spec that Build
\* accepts.  Its links agree with both halves of the matrix, and two GPUs get the
\* same group exactly when they belong to a set of GPUs linked with each other
\* and with no other GPU, as TopologyFit sees the links of unknown health.
DiscoveredGroupsAreCliques ==
  gpus > 0 /\ Parses(matrix, gpus) =>
    LET found == Discover(matrix, gpus, 1)
        snapshot == Build(found)
        policy == [allowUnknown |-> TRUE, minBandwidth |-> 0, maxHops |-> 1]
        Near(i) == {i} \cup {j \in 1..gpus : Linked(snapshot, policy, i, j)}
        groupOf(i) == found.devices[i].fabricGroup
    IN /\ Valid(found)
       /\ \A i, j \in 1..gpus : i # j =>
            /\ j \in Near(i) <=> matrix[i][j] \in NVLinkCodes
            /\ groupOf(i) = groupOf(j) /\ groupOf(i) # Unknown
                 <=> j \in Near(i) /\ \A k \in Near(i) : Near(k) = Near(i)
       /\ \A i \in 1..gpus : groupOf(i) # Unknown =>
            \E j \in 1..gpus \ {i} : groupOf(j) = groupOf(i)

\* preferredDevices answers exactly when some set of the requested size holds the
\* required devices and only available ones.  The answer is such a set, without
\* repetition, and takes the smallest IDs beside the required ones.
PreferredAllocationExact ==
  \A size \in -1..(MaxAvailable + 1) :
    LET available == Range(request.available)
        must == Range(request.must)
        answer == preferredDevices([available |-> request.available, must |-> request.must,
                                    size |-> size])
        chosen == Range(answer)
    IN /\ answer # Refused <=>
            \E S \in SUBSET available : must \subseteq S /\ Cardinality(S) = size
       /\ answer # Refused =>
            /\ Len(answer) = size /\ Cardinality(chosen) = size
            /\ must \subseteq chosen /\ chosen \subseteq available
            /\ \A a \in chosen \ must, b \in available \ chosen : a < b
===============================================================================
