------------------------------- MODULE Selection -------------------------------
(***************************************************************************)
(* selectDeviceIDs (pkg/plugin/topologyfit/selection.go): the concrete     *)
(* devices each topology mode chooses, as the code's algorithms compute    *)
(* them.  devices is the eligible devices without the reserved ones, in    *)
(* the order of their IDs; the result is a list of IDs, empty when there   *)
(* is no choice.                                                           *)
(***************************************************************************)
EXTENDS Evaluation

Modes == {"best-effort", "single-numa", "same-pcie-root", "fabric-clique", "fabric-connected"}

\* spec.dra.deviceCount of a policy without DRA parameters.
NoDRA == -1

PolicySpec == [mode : STRING, allowUnknown : BOOLEAN, minMemory : Int, minBandwidth : Int,
               maxHops : Int, resourceName : Nat, failurePolicy : STRING, deviceCount : Int,
               weights : [locality : Int, fabric : Int, fragmentation : Int, headroom : Int]]

\* PreFilter rejects a Pod whose policy fails this.  Unsupported vendors and
\* empty product names, which it rejects too, are not shown.
validatePolicy(policy) ==
  /\ policy.deviceCount # NoDRA =>
       policy.deviceCount >= 1 /\ policy.mode # "fabric-connected" /\ ~policy.allowUnknown
  /\ policy.minMemory >= 0 /\ policy.minBandwidth >= 0 /\ policy.maxHops >= 0
  /\ policy.mode \in Modes
  /\ policy.failurePolicy \in {"FailClosed", "BestEffort"}
  /\ ValidWeights(policy.weights)

firstDeviceIDs(devices, requested) == [i \in 1..requested |-> devices[i].id]

\* The key "~unknown" sorts after the keys of known groups.
keyLess(left, right) == left # Unknown /\ (right = Unknown \/ left < right)

\* A mutant of groupBefore: groups are ordered by key alone.
keyBefore(left, right) == keyLess(left.key, right.key)

\* Smaller groups come first, ties broken by the key.
groupBefore(left, right) ==
  \/ left.size < right.size
  \/ left.size = right.size /\ keyLess(left.key, right.key)

\* The first group that is large enough.
selectDeviceGroup(devices, requested, key, allowUnknown) ==
  LET members(k) == {i \in DOMAIN devices : devices[i][key] = k}
      keys == {k \in {devices[i][key] : i \in DOMAIN devices} : k # Unknown \/ allowUnknown}
      groups == {g \in {[key |-> k, size |-> Cardinality(members(k))] : k \in keys} :
                   g.size >= requested}
      first == CHOOSE g \in groups : \A h \in groups \ {g} : groupBefore(g, h)
  IN IF groups = {} THEN <<>>
     ELSE firstDeviceIDs(keep(devices, members(first.key)), requested)

\* The depth-first search of selectFabricClique when the last k of the ids are
\* candidates: the first candidate linked to every chosen device that leads to a
\* full clique.
searchClique(snapshot, policy, requested, ids) ==
  LET search[k \in 0..Len(ids)] ==
        [chosen \in Seq(Range(ids)) |->
           IF Len(chosen) >= requested THEN chosen
           ELSE IF Len(chosen) + k < requested THEN <<>>
           ELSE LET linked(i) == \A m \in DOMAIN chosen :
                                   Linked(snapshot, policy, ids[i], chosen[m])
                    found(i) == search[Len(ids) - i][Append(chosen, ids[i])]
                    leads == {i \in (Len(ids) - k + 1)..Len(ids) :
                                linked(i) /\ found(i) # <<>>}
                IN IF leads = {} THEN <<>> ELSE found(Min(leads))]
  IN search

\* A mutant of selectFabricClique: the search does not go back on a choice.
selectGreedyClique(snapshot, devices, policy, requested) ==
  LET ids == firstDeviceIDs(devices, Len(devices))
      grown[n \in 0..Len(ids)] ==
        IF n = 0 THEN <<>>
        ELSE LET chosen == grown[n - 1]
             IN IF /\ Len(chosen) < requested
                   /\ \A m \in DOMAIN chosen : Linked(snapshot, policy, ids[n], chosen[m])
                THEN Append(chosen, ids[n]) ELSE chosen
  IN IF Len(grown[Len(ids)]) = requested THEN grown[Len(ids)] ELSE <<>>

selectFabricClique(snapshot, devices, policy, requested) ==
  LET ids == firstDeviceIDs(devices, Len(devices))
  IN searchClique(snapshot, policy, requested, ids)[Len(ids)][<<>>]

\* The breadth-first search of selectFabricConnected from one start, after n
\* rounds of its loop.
searchConnected(snapshot, policy, requested, ids, start) ==
  LET neighbors(b) == {c \in Range(ids) \ b.visited : Linked(snapshot, policy, Head(b.queue), c)}
      after[n \in 0..requested] ==
        IF n = 0 THEN [visited |-> {start}, queue |-> <<start>>, selected |-> <<>>]
        ELSE LET b == after[n - 1]
             IN IF b.queue = <<>> THEN b
                ELSE [visited  |-> b.visited \cup neighbors(b),
                      queue    |-> Tail(b.queue) \o ascending(neighbors(b)),
                      selected |-> Append(b.selected, Head(b.queue))]
  IN after

selectFabricConnected(snapshot, devices, policy, requested) ==
  LET ids == firstDeviceIDs(devices, Len(devices))
      from(i) == searchConnected(snapshot, policy, requested, ids, ids[i])[requested].selected
      starts == {i \in DOMAIN ids : Len(from(i)) = requested}
  IN IF starts = {} THEN <<>> ELSE from(Min(starts))

selectDeviceIDs(snapshot, devices, policy, requested) ==
  IF requested < 1 \/ Len(devices) < requested THEN <<>> ELSE
  CASE policy.mode = "best-effort" -> firstDeviceIDs(devices, requested)
    [] policy.mode = "single-numa" ->
         selectDeviceGroup(devices, requested, "numaNode", policy.allowUnknown)
    [] policy.mode = "same-pcie-root" ->
         selectDeviceGroup(devices, requested, "pcieRoot", policy.allowUnknown)
    [] policy.mode = "fabric-clique" ->
         selectFabricClique(snapshot, devices, policy, requested)
    [] policy.mode = "fabric-connected" ->
         selectFabricConnected(snapshot, devices, policy, requested)

\* evaluate: the verdict and the score of a node whose Pods use used devices.  cached is what the store
\* returns, [ready, snapshot]; an unavailable topology is feasible, with score
\* 0, only under the BestEffort failure policy.
evaluate(cached, policy, reserved, requested, used, allocatable) ==
  LET remaining == scalarHeadroom(allocatable, used)
      devices == excludeReservedDevices(eligibleDevices(cached.snapshot, policy), reserved)
      feasible == /\ Len(devices) >= requested
                  /\ remaining >= requested
                  /\ selectDeviceIDs(cached.snapshot, devices, policy, requested) # <<>>
  IN IF ~cached.ready THEN [feasible |-> policy.failurePolicy = "BestEffort", score |-> 0]
     ELSE IF ~feasible THEN [feasible |-> FALSE, score |-> 0]
     ELSE [feasible |-> TRUE,
           score |-> weightedScore(scoreFeatures(cached.snapshot, devices, policy, requested,
                                                 remaining, allocatable), policy.weights)]
===============================================================================
