----------------------------- MODULE Combinations -----------------------------
(***************************************************************************)
(* What selectDeviceIDs and a claim's template are measured against: the   *)
(* sets of devices that a policy allows on a node.                         *)
(***************************************************************************)
EXTENDS Selection

\* What a topology mode asks of a set of devices.
Satisfies(snapshot, policy, S) ==
  LET device(id) == CHOOSE d \in Range(snapshot.devices) : d.id = id
      Together(key) == \A a, b \in S :
        /\ device(a)[key] = device(b)[key]
        /\ device(a)[key] # Unknown \/ policy.allowUnknown
  IN CASE policy.mode = "best-effort" -> TRUE
       [] policy.mode = "single-numa" -> Together("numaNode")
       [] policy.mode = "same-pcie-root" -> Together("pcieRoot")
       [] policy.mode = "fabric-clique" ->
            \A a, b \in S : a # b => Linked(snapshot, policy, a, b)
       [] policy.mode = "fabric-connected" ->
            \A T \in (SUBSET S) \ {{}, S} :
              \E a \in T, b \in S \ T : Linked(snapshot, policy, a, b)

\* The combinations of a node for a policy: the sets of count devices, without
\* the reserved ones, that the policy accepts and its mode allows.
CombinationsOf(snapshot, policy, reserved, count) ==
  {S \in kSubset(count, IDs(eligibleDevices(snapshot, policy)) \ reserved) :
     Satisfies(snapshot, policy, S)}
===============================================================================
