------------------------------ MODULE TopologyFit ------------------------------
(***************************************************************************)
(* The TopologyFit scheduler plugin (pkg/plugin/topologyfit/plugin.go) in  *)
(* the Kubernetes scheduling framework, over the reservation ledger.       *)
(*                                                                         *)
(* The framework runs scheduling cycles one at a time (PreFilter, Filter   *)
(* on each node, Reserve), hands the Pod to a binding goroutine of its own *)
(* (Permit, PreBind, Bind, PostBind) and calls Unreserve whenever a step   *)
(* after Reserve fails.  The topology informer changes the store between   *)
(* any two of these steps, and users change the placement policy.          *)
(*                                                                         *)
(* A Ready topology is abstracted to its combinations: the sets of devices *)
(* that satisfy the policy's constraints and its topology mode.  Selecting *)
(* devices picks one that has the requested size and avoids the reserved   *)
(* devices.  Scores only rank nodes, so Reserve takes any feasible node.   *)
(***************************************************************************)
EXTENDS ReservationLedger, FiniteSets, Naturals

CONSTANTS
  Annotated,      \* the Pods with a placement-policy annotation
  Requested,      \* Requested[p]: number of devices Pod p asks for
  Gang,           \* Gang[p]: the members of p's PodGroup, {p} without one
  NoNode,         \* node of a Pod outside a cycle
  Combinations    \* what a Ready topology can offer: sets of device sets

ASSUME TopologyFitAssumption ==
  /\ NoNode \notin Nodes
  /\ Annotated \subseteq Pods
  /\ Requested \in [Pods -> Nat \ {0}]
  /\ Gang \in [Pods -> SUBSET Pods]
  /\ Combinations \subseteq SUBSET SUBSET Devices

VARIABLES
  topo,        \* what store.Get returns for each node
  policy,      \* the placement policy in the lister
  phase,       \* where each Pod is in its scheduling or binding cycle
  cycleData,   \* the Pod's cycleData: its failure policy, or "Inactive"
  node,        \* the node the framework chose for the Pod
  filtered     \* the running scheduling cycle's verdict on each node

vars == <<byPod, deviceOwner, topo, policy, phase, cycleData, node, filtered>>

FailurePolicies == {"FailClosed", "BestEffort"}
Phases == {"queued", "filter", "rollback", "permit", "prebind", "bind",
           "postbind", "unreserve", "bound"}
Topologies == {[ready |-> FALSE, combinations |-> {}]}
                \cup [ready : {TRUE}, combinations : Combinations]
Verdicts == [verdict : {"pending", "feasible", "rejected"}, seen : Topologies]

NotReady == [ready |-> FALSE, combinations |-> {}]
Pending == [n \in Nodes |-> [verdict |-> "pending", seen |-> NotReady]]

Active(p) == cycleData[p] \in FailurePolicies

\* selectDeviceIDs on the eligible devices minus blocked: a combination of
\* the requested size when there is one, otherwise no device.
Selectable(p, n, blocked) ==
  {c \in topo[n].combinations : Cardinality(c) = Requested[p] /\ c \cap blocked = {}}

selectDeviceIDs(p, n, blocked) ==
  IF Selectable(p, n, blocked) = {} THEN {{}} ELSE Selectable(p, n, blocked)

\* evaluate, but for the scalar headroom that Filter adds.
evaluate(p, n) ==
  IF ~topo[n].ready THEN cycleData[p] = "BestEffort"
  ELSE Selectable(p, n, ReservedDeviceIDs(n, p)) # {}

-------------------------------------------------------------------------------
Init ==
  /\ newReservationLedger
  /\ topo \in [Nodes -> Topologies]
  /\ policy \in FailurePolicies
  /\ phase = [p \in Pods |-> "queued"]
  /\ cycleData = [p \in Pods |-> "Inactive"]
  /\ node = [p \in Pods |-> NoNode]
  /\ filtered = Pending

Goto(p, next) == phase' = [phase EXCEPT ![p] = next]

\* The Pods whose binding goroutine Coscheduling wakes with a rejection when
\* member p of their gang fails.
RejectGang(p) == [q \in Pods |-> IF q \in Gang[p] \ {p} /\ phase[q] = "permit"
                                 THEN "unreserve" ELSE phase[q]]

SchedulerIdle == \A q \in Pods : phase[q] \notin {"filter", "rollback"}

\* PreFilter rejects a Pod whose policy is missing or invalid: it stays queued.
PreFilter(p) ==
  /\ phase[p] = "queued"
  /\ SchedulerIdle
  /\ p \in Annotated => policy # "Invalid"
  /\ cycleData' = [cycleData EXCEPT ![p] = IF p \in Annotated THEN policy ELSE "Inactive"]
  /\ filtered' = Pending
  /\ Goto(p, "filter")
  /\ UNCHANGED <<ledger, topo, policy, node>>

\* A node also needs scalar headroom and the consent of the other plugins, so
\* it may be rejected whatever evaluate says.
Filter(p, n) ==
  /\ phase[p] = "filter"
  /\ filtered[n].verdict = "pending"
  /\ \E verdict \in {"rejected"} \cup
          (IF Active(p) => evaluate(p, n) THEN {"feasible"} ELSE {}) :
       filtered' = [filtered EXCEPT ![n] = [verdict |-> verdict, seen |-> topo[n]]]
  /\ UNCHANGED <<ledger, topo, policy, phase, cycleData, node>>

\* No node fits: Coscheduling's PostFilter may give up the Pod's whole gang.
FilterFails(p) ==
  /\ phase[p] = "filter"
  /\ \A n \in Nodes : filtered[n].verdict = "rejected"
  /\ \E others \in {phase, RejectGang(p)} : phase' = [others EXCEPT ![p] = "queued"]
  /\ cycleData' = [cycleData EXCEPT ![p] = "Inactive"]
  /\ filtered' = Pending
  /\ UNCHANGED <<ledger, topo, policy, node>>

\* A mutant of TopologyFitReserve: a topology that is no longer Ready is
\* neutral under FailClosed too.
ReserveNeutral(p, n) ==
  /\ phase[p] = "filter"
  /\ \A m \in Nodes : filtered[m].verdict # "pending"
  /\ filtered[n].verdict = "feasible"
  /\ \/ /\ ~Active(p) \/ ~topo[n].ready
        /\ UNCHANGED ledger
        /\ Goto(p, "permit")
     \/ /\ Active(p) /\ topo[n].ready
        /\ \E selection \in selectDeviceIDs(p, n, Blocked(n)) :
             /\ Reserve(p, n, selection)
             /\ Goto(p, IF ReserveSucceeds(p, n, selection) THEN "permit" ELSE "rollback")
  /\ node' = [node EXCEPT ![p] = n]
  /\ filtered' = Pending
  /\ UNCHANGED <<topo, policy, cycleData>>

\* Reserve reads the store again and repeats the selection under the ledger's
\* mutex.
TopologyFitReserve(p, n) ==
  /\ phase[p] = "filter"
  /\ \A m \in Nodes : filtered[m].verdict # "pending"
  /\ filtered[n].verdict = "feasible"
  /\ \/ /\ ~Active(p) \/ (~topo[n].ready /\ cycleData[p] = "BestEffort")
        /\ UNCHANGED ledger
        /\ Goto(p, "permit")
     \/ /\ cycleData[p] = "FailClosed" /\ ~topo[n].ready
        /\ UNCHANGED ledger
        /\ Goto(p, "rollback")
     \/ /\ Active(p) /\ topo[n].ready
        /\ \E selection \in selectDeviceIDs(p, n, Blocked(n)) :
             /\ Reserve(p, n, selection)
             /\ Goto(p, IF ReserveSucceeds(p, n, selection) THEN "permit" ELSE "rollback")
  /\ node' = [node EXCEPT ![p] = n]
  /\ filtered' = Pending
  /\ UNCHANGED <<topo, policy, cycleData>>

\* Unreserve runs in the scheduling cycle when Reserve failed and in the
\* binding goroutine when a later step did; Coscheduling's Unreserve rejects
\* the members of the gang that still wait.
Unreserve(p) ==
  /\ phase[p] \in {"rollback", "unreserve"}
  /\ IF Active(p) THEN Release(p) ELSE UNCHANGED ledger
  /\ phase' = [RejectGang(p) EXCEPT ![p] = "queued"]
  /\ cycleData' = [cycleData EXCEPT ![p] = "Inactive"]
  /\ node' = [node EXCEPT ![p] = NoNode]
  /\ UNCHANGED <<topo, policy, filtered>>

\* Coscheduling's Permit lets the whole gang pass once every member has
\* reached it, and rejects a Pod at its timeout (or when it is deleted).
PermitAllow(p) ==
  /\ phase[p] = "permit"
  /\ \A q \in Gang[p] : phase[q] \in {"permit", "prebind", "bind", "postbind", "bound"}
  /\ phase' = [q \in Pods |-> IF q \in Gang[p] \cup {p} /\ phase[q] = "permit"
                              THEN "prebind" ELSE phase[q]]
  /\ UNCHANGED <<ledger, topo, policy, cycleData, node, filtered>>

\* A mutant of PermitReject: only a Pod without a gang times out.
PermitRejectSingle(p) ==
  /\ phase[p] = "permit"
  /\ Gang[p] = {p}
  /\ Goto(p, "unreserve")
  /\ UNCHANGED <<ledger, topo, policy, cycleData, node, filtered>>

PermitReject(p) ==
  /\ phase[p] = "permit"
  /\ Goto(p, "unreserve")
  /\ UNCHANGED <<ledger, topo, policy, cycleData, node, filtered>>

\* PreBind wants the Pod's reservation on the chosen node, or no topology to
\* reserve from under BestEffort.
PreBindSucceeds(p) ==
  \/ ~Active(p)
  \/ p \in Holding /\ byPod[p].nodeName = node[p]
  \/ p \notin Holding /\ cycleData[p] = "BestEffort" /\ ~topo[node[p]].ready

PreBind(p) ==
  /\ phase[p] = "prebind"
  /\ Goto(p, IF PreBindSucceeds(p) THEN "bind" ELSE "unreserve")
  /\ UNCHANGED <<ledger, topo, policy, cycleData, node, filtered>>

\* The API server accepts the binding, or it (or another plugin) fails.
Bind(p) ==
  /\ phase[p] = "bind"
  /\ \E next \in {"postbind", "unreserve"} : Goto(p, next)
  /\ UNCHANGED <<ledger, topo, policy, cycleData, node, filtered>>

\* A mutant of PostBind: it does not release the reservation.
PostBindKeeps(p) ==
  /\ phase[p] = "postbind"
  /\ Goto(p, "bound")
  /\ cycleData' = [cycleData EXCEPT ![p] = "Inactive"]
  /\ node' = [node EXCEPT ![p] = NoNode]
  /\ UNCHANGED <<ledger, topo, policy, filtered>>

PostBind(p) ==
  /\ phase[p] = "postbind"
  /\ IF Active(p) THEN Release(p) ELSE UNCHANGED ledger
  /\ Goto(p, "bound")
  /\ cycleData' = [cycleData EXCEPT ![p] = "Inactive"]
  /\ node' = [node EXCEPT ![p] = NoNode]
  /\ UNCHANGED <<topo, policy, filtered>>

\* The informer replaces what the store returns, or its entry ages.
TopologyChange(n) ==
  /\ \E t \in Topologies : topo' = [topo EXCEPT ![n] = t]
  /\ UNCHANGED <<ledger, policy, phase, cycleData, node, filtered>>

PolicyChange ==
  /\ policy' \in FailurePolicies \cup {"Invalid"}
  /\ UNCHANGED <<ledger, topo, phase, cycleData, node, filtered>>

\* The scheduler process restarts: the ledger and every cycle are gone.  A
\* binding request under way may have reached the API server.
Restart ==
  /\ byPod' = [p \in Pods |-> NoReservation]
  /\ deviceOwner' = [n \in Nodes |-> [d \in Devices |-> NoPod]]
  /\ \E bound \in SUBSET {p \in Pods : phase[p] = "bind"} :
       phase' = [p \in Pods |-> IF p \in bound \/ phase[p] \in {"postbind", "bound"}
                                THEN "bound" ELSE "queued"]
  /\ cycleData' = [p \in Pods |-> "Inactive"]
  /\ node' = [p \in Pods |-> NoNode]
  /\ filtered' = Pending
  /\ UNCHANGED <<topo, policy>>

SchedulingStep(p) ==
  \/ PreFilter(p)
  \/ \E n \in Nodes : Filter(p, n) \/ TopologyFitReserve(p, n)
  \/ FilterFails(p)

BindingStep(p) ==
  \/ PermitAllow(p) \/ PermitReject(p)
  \/ PreBind(p) \/ Bind(p) \/ PostBind(p)
  \/ Unreserve(p)

Environment == Restart \/ PolicyChange \/ \E n \in Nodes : TopologyChange(n)

Next == Environment \/ \E p \in Pods : SchedulingStep(p) \/ BindingStep(p)

Spec == Init /\ [][Next]_vars

\* A Pod's goroutine keeps running and the Permit timer fires; nothing is
\* assumed of restarts, policies or topologies.
FairSpec == Spec /\ \A p \in Pods : WF_vars(BindingStep(p))

-------------------------------------------------------------------------------
\* Type invariant of the plugin's and the framework's state.
TopologyFitType ==
  /\ LedgerType
  /\ topo \in [Nodes -> Topologies]
  /\ policy \in FailurePolicies \cup {"Invalid"}
  /\ phase \in [Pods -> Phases]
  /\ cycleData \in [Pods -> FailurePolicies \cup {"Inactive"}]
  /\ node \in [Pods -> Nodes \cup {NoNode}]
  /\ filtered \in [Nodes -> Verdicts]

\* A reservation lives only between a successful Reserve and the release in
\* PostBind or Unreserve, and is on the node the Pod is being bound to: no
\* interleaving, rejection, timeout or policy change leaves one behind.
NoLeakedReservation ==
  \A p \in Holding :
    /\ phase[p] \in {"permit", "prebind", "bind", "postbind", "unreserve"}
    /\ Active(p)
    /\ byPod[p].nodeName = node[p]

\* Whatever happens to the topology after Reserve, a Pod under FailClosed that
\* is waiting or binding still has its reservation, so PreBind never answers
\* it with the internal error "advisory reservation ... is missing".
FailClosedKeepsReservation ==
  \A p \in Pods :
    phase[p] \in {"permit", "prebind", "bind", "postbind"} /\ cycleData[p] = "FailClosed"
      => p \in Holding

\* Reserve repeats Filter's decision.  Only scheduling cycles add
\* reservations, and they are serial, so Reserve can reject a node that passed
\* Filter only if the node's topology changed in between.
FilterStillHolds ==
  \A p \in Pods, n \in Nodes :
    /\ phase[p] = "filter" /\ Active(p)
    /\ filtered[n].verdict = "feasible" /\ filtered[n].seen = topo[n]
    => evaluate(p, n) /\ (topo[n].ready => Selectable(p, n, Blocked(n)) # {})

\* ADR-0003: missing, stale or not-Ready topology "is neutral under
\* BestEffort", and the SLO is that TopologyFit "produces no internal framework
\* errors": PreBind never fails a Pod that Reserve let through.
BestEffortIsNeutral ==
  \A p \in Pods :
    phase[p] = "prebind" /\ cycleData[p] = "BestEffort" => PreBindSucceeds(p)

\* The ledger under the plugin is exclusive ownership that a restart empties.
LedgerIsExclusive == Ownership!VolatileSpec

\* No reservation is held for ever: a gang that never completes is rejected at
\* the Permit timeout, and every binding cycle ends in PostBind or Unreserve.
ReservationsEnd == \A p \in Pods : p \in Holding ~> p \notin Holding
===============================================================================
