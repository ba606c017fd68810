-------------------------- MODULE TopologyFit_proofs --------------------------
(***************************************************************************)
(* Proofs about the reservation ledger and about the plugin in the         *)
(* framework, for any Pods, nodes, gangs, devices and topologies.          *)
(*                                                                         *)
(* The ledger alone comes first.  LedgerInv, the conjunction of its type   *)
(* invariant and of LedgerConsistent, is inductive; the other results about*)
(* the ledger follow from it.                                              *)
(*                                                                         *)
(* The plugin's safety properties are inductive together with LedgerInv and*)
(* two strengthenings: scheduling cycles are serial, and a node found      *)
(* feasible stays so for the topology that Filter saw (the topology may    *)
(* change away from it and back).                                          *)
(***************************************************************************)
EXTENDS TopologyFit, TLAPS

-------------------------------------------------------------------------------
\* The ledger.

LedgerInv == LedgerType /\ LedgerConsistent

\* A new ledger is consistent.
LEMMA NewLedgerInv == newReservationLedger => LedgerInv
BY LedgerAssumption
   DEF newReservationLedger, LedgerInv, LedgerType, LedgerConsistent, Holding

\* Reserve keeps the two maps in agreement, whatever the selector returns.
LEMMA ReserveLedgerInv ==
  ASSUME LedgerInv,
         NEW p \in Pods, NEW n \in Nodes, NEW selection \in Selection,
         Reserve(p, n, selection)
  PROVE  LedgerInv'
<1>1. CASE p \notin Holding /\ Accepts(n, selection)
  <2>. DEFINE r == [nodeName |-> n, deviceIDs |-> selection]
  <2>1. /\ byPod' = [byPod EXCEPT ![p] = r]
        /\ deviceOwner' = [deviceOwner EXCEPT ![n] =
             [d \in Devices |-> IF d \in selection THEN p ELSE deviceOwner[n][d]]]
    BY <1>1 DEF Reserve
  <2>2. selection \in SUBSET Devices /\ selection # {}
    BY <1>1 DEF Selection, Accepts
  <2>3. r \in Reservation /\ r # NoReservation /\ r.nodeName = n /\ r.deviceIDs = selection
    BY <2>2, LedgerAssumption DEF Reservation
  <2>. HIDE DEF r
  <2>4. LedgerType'
    BY <2>1, <2>3 DEF LedgerInv, LedgerType
  <2>5. Holding' = Holding \cup {p}
    BY <2>1, <2>3 DEF LedgerInv, LedgerType, Holding
  <2>6. \A q \in Pods : byPod'[q] = IF q = p THEN r ELSE byPod[q]
    BY <2>1 DEF LedgerInv, LedgerType
  <2>7. \A m \in Nodes, d \in Devices :
          deviceOwner'[m][d] = IF m = n /\ d \in selection THEN p ELSE deviceOwner[m][d]
    BY <2>1 DEF LedgerInv, LedgerType
  <2>8. \A d \in selection : deviceOwner[n][d] = NoPod
    BY <1>1 DEF Accepts
  <2>9. \A m \in Nodes, d \in Devices : deviceOwner[m][d] # p
    BY <1>1 DEF LedgerInv, LedgerConsistent
  <2>10. LedgerConsistent'
    <3>1. ASSUME NEW q \in Pods, NEW m \in Nodes, NEW d \in Devices
          PROVE  deviceOwner'[m][d] = q <=>
                   q \in Holding' /\ byPod'[q].nodeName = m /\ d \in byPod'[q].deviceIDs
      <4>1. CASE q = p
        BY <4>1, <2>3, <2>5, <2>6, <2>7, <2>9
      <4>2. CASE q # p
        <5>1. deviceOwner'[m][d] = q <=> deviceOwner[m][d] = q
          BY <4>2, <2>7, <2>8, LedgerAssumption
        <5>2. QED
          BY <4>2, <5>1, <2>5, <2>6 DEF LedgerInv, LedgerConsistent
      <4>3. QED  BY <4>1, <4>2
    <3>2. \A q \in Holding' : byPod'[q].deviceIDs # {}
      BY <2>2, <2>3, <2>5, <2>6 DEF LedgerInv, LedgerConsistent, Holding
    <3>3. QED  BY <3>1, <3>2 DEF LedgerConsistent
  <2>11. QED  BY <2>4, <2>10 DEF LedgerInv
<1>2. CASE ~(p \notin Holding /\ Accepts(n, selection))
  BY <1>2 DEF Reserve, ledger, LedgerInv, LedgerType, LedgerConsistent, Holding
<1>3. QED  BY <1>1, <1>2

\* Release removes a Pod from both maps and touches no other Pod's entries.
LEMMA ReleaseLedgerInv ==
  ASSUME LedgerInv, NEW p \in Pods, Release(p)
  PROVE  LedgerInv'
<1>1. CASE p \in Holding
  <2>. DEFINE n == byPod[p].nodeName
              D == byPod[p].deviceIDs
  <2>1. n \in Nodes /\ D \in SUBSET Devices
    BY <1>1 DEF Holding, LedgerInv, LedgerType, Reservation
  <2>2. /\ byPod' = [byPod EXCEPT ![p] = NoReservation]
        /\ deviceOwner' = [deviceOwner EXCEPT ![n] =
             [d \in Devices |-> IF d \in D THEN NoPod ELSE deviceOwner[n][d]]]
    BY <1>1 DEF Release
  <2>3. \A m \in Nodes, d \in Devices : deviceOwner[m][d] = p <=> m = n /\ d \in D
    BY <1>1 DEF LedgerInv, LedgerConsistent
  <2>. HIDE DEF n, D
  <2>4. LedgerType'
    BY <2>1, <2>2 DEF LedgerInv, LedgerType
  <2>5. Holding' = Holding \ {p}
    BY <2>2 DEF LedgerInv, LedgerType, Holding
  <2>6. \A q \in Pods : q # p => byPod'[q] = byPod[q]
    BY <2>2 DEF LedgerInv, LedgerType
  <2>7. \A m \in Nodes, d \in Devices :
          deviceOwner'[m][d] = IF m = n /\ d \in D THEN NoPod ELSE deviceOwner[m][d]
    BY <2>1, <2>2 DEF LedgerInv, LedgerType
  <2>8. LedgerConsistent'
    <3>1. ASSUME NEW q \in Pods, NEW m \in Nodes, NEW d \in Devices
          PROVE  deviceOwner'[m][d] = q <=>
                   q \in Holding' /\ byPod'[q].nodeName = m /\ d \in byPod'[q].deviceIDs
      <4>1. CASE q = p
        BY <4>1, <2>3, <2>5, <2>7, LedgerAssumption
      <4>2. CASE q # p
        <5>1. deviceOwner'[m][d] = q <=> deviceOwner[m][d] = q
          BY <4>2, <2>3, <2>7, LedgerAssumption
        <5>2. QED
          BY <4>2, <5>1, <2>5, <2>6 DEF LedgerInv, LedgerConsistent
      <4>3. QED  BY <4>1, <4>2
    <3>2. \A q \in Holding' : byPod'[q].deviceIDs # {}
      BY <2>5, <2>6 DEF LedgerInv, LedgerConsistent, Holding
    <3>3. QED  BY <3>1, <3>2 DEF LedgerConsistent
  <2>9. QED  BY <2>4, <2>8 DEF LedgerInv
<1>2. CASE p \notin Holding
  BY <1>2 DEF Release, ledger, LedgerInv, LedgerType, LedgerConsistent, Holding
<1>3. QED  BY <1>1, <1>2

\* The state of the ledger alone: any calls from any goroutines.
LEMMA LedgerNextInv == LedgerInv /\ [LedgerNext]_ledger => LedgerInv'
<1>. SUFFICES ASSUME LedgerInv, [LedgerNext]_ledger PROVE LedgerInv'
  OBVIOUS
<1>1. ASSUME NEW p \in Pods, NEW n \in Nodes, NEW selection \in Selection,
             Reserve(p, n, selection)
      PROVE  LedgerInv'
  BY <1>1, ReserveLedgerInv
<1>2. ASSUME NEW p \in Pods, Release(p) PROVE LedgerInv'
  BY <1>2, ReleaseLedgerInv
<1>3. CASE UNCHANGED ledger
  BY <1>3 DEF ledger, LedgerInv, LedgerType, LedgerConsistent, Holding
<1>4. QED  BY <1>1, <1>2, <1>3 DEF LedgerNext

\* ledger.go's two maps have their types and describe the same reservations
\* after every call, for any selector.
THEOREM LedgerCorrect == LedgerSpec => [](LedgerType /\ LedgerConsistent)
BY NewLedgerInv, LedgerNextInv, PTL DEF LedgerSpec, LedgerInv

\* Every reservation in byPod is one of a Pod on a node, with devices of it.
THEOREM LedgerTyped == LedgerSpec => []LedgerType
BY LedgerCorrect, PTL

\* Two reservations of one device would make deviceOwner name two Pods.
LEMMA ConsistentNoOverlap == LedgerInv => NoOverlap
<1>. SUFFICES ASSUME LedgerInv, NEW p \in Holding, NEW q \in Holding, p # q,
                     byPod[p].nodeName = byPod[q].nodeName,
                     NEW d \in byPod[p].deviceIDs \cap byPod[q].deviceIDs
              PROVE  FALSE
  BY DEF NoOverlap
<1>1. p \in Pods /\ q \in Pods /\ byPod[p].nodeName \in Nodes /\ d \in Devices
  BY DEF LedgerInv, LedgerType, Holding, Reservation
<1>2. deviceOwner[byPod[p].nodeName][d] = p /\ deviceOwner[byPod[p].nodeName][d] = q
  BY <1>1 DEF LedgerInv, LedgerConsistent
<1>3. QED  BY <1>2

\* No two Pods ever hold the same device of a node.
THEOREM LedgerNoOverlap == LedgerSpec => []NoOverlap
BY LedgerCorrect, ConsistentNoOverlap, PTL DEF LedgerInv

\* A reservation is never changed in place by a second Reserve.
THEOREM LedgerReservationFixed == LedgerSpec => ReservationFixed
<1>1. LedgerInv /\ [LedgerNext]_ledger =>
        [\A p \in Pods : byPod[p] # byPod'[p] => NoReservation \in {byPod[p], byPod'[p]}]_ledger
  <2>. SUFFICES ASSUME LedgerInv, LedgerNext, NEW q \in Pods, byPod[q] # byPod'[q]
                PROVE  NoReservation \in {byPod[q], byPod'[q]}
    OBVIOUS
  <2>1. ASSUME NEW p \in Pods, NEW n \in Nodes, NEW selection \in Selection,
               Reserve(p, n, selection)
        PROVE  NoReservation \in {byPod[q], byPod'[q]}
    BY <2>1 DEF Reserve, Holding, ledger, LedgerInv, LedgerType
  <2>2. ASSUME NEW p \in Pods, Release(p)
        PROVE  NoReservation \in {byPod[q], byPod'[q]}
    BY <2>2 DEF Release, Holding, ledger, LedgerInv, LedgerType
  <2>3. QED  BY <2>1, <2>2 DEF LedgerNext
<1>2. QED  BY <1>1, LedgerCorrect, PTL DEF LedgerSpec, LedgerInv, ReservationFixed

-------------------------------------------------------------------------------
(***************************************************************************)
(* The ledger implements ExclusiveOwnership.                               *)
(***************************************************************************)

\* The units a Pod holds abstractly are the devices of its reservation.
LEMMA HeldUnits ==
  ASSUME LedgerInv, NEW p \in Pods
  PROVE  Ownership!HeldBy(p) =
           IF p \in Holding THEN {byPod[p].nodeName} \X byPod[p].deviceIDs ELSE {}
<1>1. \A u \in Nodes \X Devices : ownerOf[u] = deviceOwner[u[1]][u[2]]
  BY DEF ownerOf
<1>2. CASE p \in Holding
  <2>1. byPod[p].nodeName \in Nodes /\ byPod[p].deviceIDs \subseteq Devices
    BY <1>2 DEF LedgerInv, LedgerType, Holding, Reservation
  <2>2. QED
    BY <1>1, <1>2, <2>1 DEF Ownership!HeldBy, LedgerInv, LedgerConsistent
<1>3. CASE p \notin Holding
  BY <1>1, <1>3 DEF Ownership!HeldBy, LedgerInv, LedgerConsistent
<1>4. QED  BY <1>2, <1>3

\* A Reserve that changes the ledger acquires its combination.
LEMMA ReserveAcquires ==
  ASSUME LedgerInv,
         NEW p \in Pods, NEW n \in Nodes, NEW selection \in Selection,
         Reserve(p, n, selection), p \notin Holding, Accepts(n, selection)
  PROVE  Ownership!Acquire(p, {n} \X selection)
<1>1. selection \subseteq Devices /\ selection # {}
  BY DEF Selection, Accepts
<1>2. Ownership!HeldBy(p) = {}
  BY HeldUnits
<1>3. \A u \in {n} \X selection : ownerOf[u] = NoPod
  BY <1>1 DEF ownerOf, Accepts
<1>4. ownerOf' = [u \in Nodes \X Devices |->
                    IF u \in {n} \X selection THEN p ELSE ownerOf[u]]
  <2>1. deviceOwner' = [deviceOwner EXCEPT ![n] =
          [d \in Devices |-> IF d \in selection THEN p ELSE deviceOwner[n][d]]]
    BY DEF Reserve
  <2>2. ASSUME NEW u \in Nodes \X Devices
        PROVE  deviceOwner'[u[1]][u[2]] =
                 IF u \in {n} \X selection THEN p ELSE deviceOwner[u[1]][u[2]]
    <3>1. PICK m \in Nodes, d \in Devices : u = <<m, d>>
      OBVIOUS
    <3>2. QED  BY <2>1, <3>1 DEF LedgerInv, LedgerType
  <2>3. QED  BY <2>2 DEF ownerOf
<1>5. {n} \X selection # {}
  <2>1. PICK d \in selection : TRUE
    BY <1>1
  <2>2. <<n, d>> \in {n} \X selection
    BY <2>1
  <2>3. QED  BY <2>2
<1>6. QED  BY <1>2, <1>3, <1>4, <1>5 DEF Ownership!Acquire

\* A Release of a Pod with a reservation releases it whole.
LEMMA ReleaseReleases ==
  ASSUME LedgerInv, NEW p \in Pods, Release(p), p \in Holding
  PROVE  Ownership!Release(p)
<1>1. byPod[p].nodeName \in Nodes /\ byPod[p].deviceIDs \subseteq Devices
      /\ byPod[p].deviceIDs # {}
  BY DEF LedgerInv, LedgerType, LedgerConsistent, Holding, Reservation
<1>2. Ownership!HeldBy(p) # {}
  <2>1. PICK d \in byPod[p].deviceIDs : TRUE
    BY <1>1
  <2>2. <<byPod[p].nodeName, d>> \in Ownership!HeldBy(p)
    BY <2>1, HeldUnits
  <2>3. QED  BY <2>2
<1>3. ownerOf' = [u \in Nodes \X Devices |->
                    IF ownerOf[u] = p THEN NoPod ELSE ownerOf[u]]
  <2>1. deviceOwner' = [deviceOwner EXCEPT ![byPod[p].nodeName] =
          [d \in Devices |-> IF d \in byPod[p].deviceIDs THEN NoPod
                             ELSE deviceOwner[byPod[p].nodeName][d]]]
    BY DEF Release
  <2>2. ASSUME NEW m \in Nodes, NEW d \in Devices
        PROVE  deviceOwner'[m][d] =
                 IF deviceOwner[m][d] = p THEN NoPod ELSE deviceOwner[m][d]
    BY <1>1, <2>1 DEF LedgerInv, LedgerType, LedgerConsistent
  <2>3. QED  BY <2>2 DEF ownerOf
<1>4. QED  BY <1>2, <1>3 DEF Ownership!Release

\* Every call of ledger.go is a step of exclusive ownership or changes
\* nothing: a combination is taken whole and free, and returned whole.
THEOREM LedgerImplementsOwnership == LedgerSpec => LedgerRefinesOwnership
<1>1. newReservationLedger => Ownership!Init
  BY DEF newReservationLedger, Ownership!Init, ownerOf
<1>2. LedgerInv /\ [LedgerNext]_ledger => [Ownership!Next]_ownerOf
  <2>. SUFFICES ASSUME LedgerInv, [LedgerNext]_ledger
                PROVE  Ownership!Next \/ UNCHANGED ownerOf
    OBVIOUS
  <2>1. ASSUME NEW p \in Pods, NEW n \in Nodes, NEW selection \in Selection,
               Reserve(p, n, selection)
        PROVE  Ownership!Next \/ UNCHANGED ownerOf
    <3>1. CASE p \notin Holding /\ Accepts(n, selection)
      <4>1. {n} \X selection \in SUBSET (Nodes \X Devices)
        BY <3>1 DEF Accepts, Selection
      <4>2. QED  BY <2>1, <3>1, <4>1, ReserveAcquires, Zenon DEF Ownership!Next
    <3>2. CASE ~(p \notin Holding /\ Accepts(n, selection))
      BY <2>1, <3>2 DEF Reserve, ledger, ownerOf
    <3>3. QED  BY <3>1, <3>2
  <2>2. ASSUME NEW p \in Pods, Release(p)
        PROVE  Ownership!Next \/ UNCHANGED ownerOf
    <3>1. CASE p \in Holding
      BY <2>2, <3>1, ReleaseReleases DEF Ownership!Next
    <3>2. CASE p \notin Holding
      BY <2>2, <3>2 DEF Release, ledger, ownerOf
    <3>3. QED  BY <3>1, <3>2
  <2>3. CASE UNCHANGED ledger
    BY <2>3 DEF ledger, ownerOf
  <2>4. QED  BY <2>1, <2>2, <2>3 DEF LedgerNext
<1>3. QED
  BY <1>1, <1>2, LedgerCorrect, PTL
     DEF LedgerSpec, LedgerInv, LedgerRefinesOwnership, Ownership!Spec

-------------------------------------------------------------------------------
\* The plugin.

\* At most one Pod is in the scheduling cycle.
SerialCycles ==
  \A p, q \in Pods :
    phase[p] \in {"filter", "rollback"} /\ phase[q] \in {"filter", "rollback"} => p = q

\* The combinations of topology t that suit p when the blocked devices are out.
Offers(t, p, blocked) ==
  {c \in t.combinations : Cardinality(c) = Requested[p] /\ c \cap blocked = {}}

\* Filter's verdict is still right about the topology that it saw.
SeenHolds ==
  \A p \in Pods, n \in Nodes :
    phase[p] = "filter" /\ Active(p) /\ filtered[n].verdict = "feasible"
      => IF filtered[n].seen.ready
         THEN Offers(filtered[n].seen, p, Blocked(n)) # {}
         ELSE cycleData[p] = "BestEffort"

CycleInv ==
  /\ NoLeakedReservation
  /\ FailClosedKeepsReservation
  /\ SerialCycles
  /\ SeenHolds

TopologyFitInv == TopologyFitType /\ LedgerConsistent /\ CycleInv

-------------------------------------------------------------------------------
\* What a Reserve call for a Pod without a reservation does to byPod.
LEMMA ReserveEffect ==
  ASSUME LedgerInv, NEW p \in Pods, NEW n \in Nodes, NEW selection \in Selection,
         Reserve(p, n, selection), p \notin Holding
  PROVE  /\ \A q \in Pods : q # p => byPod'[q] = byPod[q]
         /\ IF ReserveSucceeds(p, n, selection)
            THEN p \in Holding' /\ byPod'[p].nodeName = n
            ELSE p \notin Holding'
<1>1. CASE Accepts(n, selection)
  <2>. DEFINE r == [nodeName |-> n, deviceIDs |-> selection]
  <2>1. byPod' = [byPod EXCEPT ![p] = r]
    BY <1>1 DEF Reserve
  <2>2. selection \in SUBSET Devices
    BY <1>1 DEF Selection, Accepts
  <2>3. r # NoReservation /\ r.nodeName = n
    BY <2>2, LedgerAssumption
  <2>. HIDE DEF r
  <2>4. QED
    BY <1>1, <2>1, <2>3 DEF ReserveSucceeds, Holding, LedgerInv, LedgerType
<1>2. CASE ~Accepts(n, selection)
  BY <1>2 DEF Reserve, ledger, ReserveSucceeds, Holding
<1>3. QED  BY <1>1, <1>2

\* What a Release call does: the Pod is out, no device becomes owned.
LEMMA ReleaseEffect ==
  ASSUME LedgerInv, NEW p \in Pods, Release(p)
  PROVE  /\ \A q \in Pods : q # p => byPod'[q] = byPod[q]
         /\ p \notin Holding'
         /\ \A n \in Nodes : Blocked(n)' \subseteq Blocked(n)
<1>1. CASE p \in Holding
  <2>1. byPod[p].nodeName \in Nodes /\ byPod[p].deviceIDs \subseteq Devices
    BY <1>1 DEF LedgerInv, LedgerType, Holding, Reservation
  <2>2. /\ byPod' = [byPod EXCEPT ![p] = NoReservation]
        /\ deviceOwner' = [deviceOwner EXCEPT ![byPod[p].nodeName] =
             [d \in Devices |-> IF d \in byPod[p].deviceIDs THEN NoPod
                                ELSE deviceOwner[byPod[p].nodeName][d]]]
    BY <1>1 DEF Release
  <2>3. (\A q \in Pods : q # p => byPod'[q] = byPod[q]) /\ p \notin Holding'
    BY <2>2 DEF Holding, LedgerInv, LedgerType
  <2>4. \A n \in Nodes, d \in Devices : deviceOwner'[n][d] \in {NoPod, deviceOwner[n][d]}
    BY <2>1, <2>2 DEF LedgerInv, LedgerType
  <2>5. QED  BY <2>3, <2>4 DEF Blocked
<1>2. CASE p \notin Holding
  BY <1>2 DEF Release, ledger, Holding, Blocked
<1>3. QED  BY <1>1, <1>2

\* The selector's result is a legal argument of the ledger.
LEMMA SelectionType ==
  ASSUME TopologyFitType, NEW p \in Pods, NEW n \in Nodes, NEW blocked,
         NEW selection \in selectDeviceIDs(p, n, blocked)
  PROVE  selection \in Selection
<1>1. topo[n].combinations \subseteq SUBSET Devices
  <2>1. topo[n] \in Topologies
    BY DEF TopologyFitType
  <2>2. topo[n].combinations = {} \/ topo[n].combinations \in Combinations
    <3>1. CASE topo[n] = [ready |-> FALSE, combinations |-> {}]
      BY <3>1
    <3>2. CASE topo[n] \in [ready : {TRUE}, combinations : Combinations]
      BY <3>2, Zenon
    <3>3. QED  BY <2>1, <3>1, <3>2, Zenon DEF Topologies
  <2>3. QED  BY <2>2, TopologyFitAssumption
<1>2. QED  BY <1>1 DEF selectDeviceIDs, Selectable, Selection

\* Fewer blocked devices leave more to offer.
LEMMA OffersMonotone ==
  ASSUME NEW t, NEW p, NEW B, NEW C, C \subseteq B, Offers(t, p, B) # {}
  PROVE  Offers(t, p, C) # {}
BY DEF Offers

\* Nothing is reserved and no Pod is in a cycle at the start.
LEMMA InitInv == Init => TopologyFitInv
<1>. SUFFICES ASSUME Init PROVE TopologyFitInv
  OBVIOUS
<1>1. LedgerInv
  BY NewLedgerInv DEF Init
<1>2. NotReady \in Topologies
  BY DEF NotReady, Topologies
<1>3. TopologyFitType
  BY <1>1, <1>2 DEF Init, TopologyFitType, LedgerInv, FailurePolicies, Phases, Pending,
     Verdicts
<1>4. Holding = {}
  BY DEF Init, newReservationLedger, Holding
<1>5. CycleInv
  BY <1>4 DEF Init, CycleInv, NoLeakedReservation, FailClosedKeepsReservation,
     SerialCycles, SeenHolds
<1>6. QED  BY <1>1, <1>3, <1>5 DEF TopologyFitInv, LedgerInv

\* Every step of the plugin leaves the ledger's invariant alone: it makes one
\* ledger call, none, or starts with a new ledger.
LEMMA LedgerStep ==
  ASSUME TopologyFitInv, [Next]_vars
  PROVE  LedgerInv'
<1>. LedgerInv
  BY DEF TopologyFitInv, LedgerInv, TopologyFitType
<1>1. ASSUME UNCHANGED ledger PROVE LedgerInv'
  BY <1>1 DEF ledger, LedgerInv, LedgerType, LedgerConsistent, Holding
<1>2. ASSUME NEW p \in Pods, SchedulingStep(p) PROVE LedgerInv'
  <2>1. CASE PreFilter(p) \/ FilterFails(p)
    BY <1>1, <2>1 DEF PreFilter, FilterFails
  <2>2. ASSUME NEW n \in Nodes, Filter(p, n) PROVE LedgerInv'
    BY <1>1, <2>2 DEF Filter
  <2>3. ASSUME NEW n \in Nodes, TopologyFitReserve(p, n) PROVE LedgerInv'
    <3>1. ASSUME NEW selection \in selectDeviceIDs(p, n, Blocked(n)), Reserve(p, n, selection)
          PROVE  LedgerInv'
      BY <3>1, SelectionType, ReserveLedgerInv DEF TopologyFitInv
    <3>2. QED  BY <1>1, <2>3, <3>1 DEF TopologyFitReserve
  <2>4. QED  BY <1>2, <2>1, <2>2, <2>3 DEF SchedulingStep
<1>3. ASSUME NEW p \in Pods, BindingStep(p) PROVE LedgerInv'
  <2>1. CASE PermitAllow(p) \/ PermitReject(p) \/ PreBind(p) \/ Bind(p)
    BY <1>1, <2>1 DEF PermitAllow, PermitReject, PreBind, Bind
  <2>2. CASE PostBind(p) \/ Unreserve(p)
    BY <1>1, <2>2, ReleaseLedgerInv DEF PostBind, Unreserve
  <2>3. QED  BY <1>3, <2>1, <2>2 DEF BindingStep
<1>4. CASE Restart
  <2>1. newReservationLedger'
    BY <1>4 DEF Restart, newReservationLedger
  <2>2. QED
    BY <2>1, LedgerAssumption
       DEF newReservationLedger, LedgerInv, LedgerType, LedgerConsistent, Holding
<1>5. CASE PolicyChange \/ \E n \in Nodes : TopologyChange(n)
  BY <1>1, <1>5 DEF PolicyChange, TopologyChange
<1>6. CASE UNCHANGED vars
  BY <1>1, <1>6 DEF vars, ledger
<1>7. QED  BY <1>2, <1>3, <1>4, <1>5, <1>6 DEF Next, Environment

\* Type correctness of the plugin's and the framework's part of the state.
LEMMA TypeStep ==
  ASSUME TopologyFitInv, [Next]_vars
  PROVE  TopologyFitType'
<1>. TopologyFitType
  BY DEF TopologyFitInv
<1>1. LedgerType'
  BY LedgerStep DEF LedgerInv
<1>2. NotReady \in Topologies
  BY DEF NotReady, Topologies
<1>3. Pending \in [Nodes -> Verdicts]
  BY <1>2 DEF Pending, Verdicts
<1>. USE <1>1 DEF TopologyFitType
<1>4. ASSUME NEW p \in Pods, SchedulingStep(p) PROVE TopologyFitType'
  <2>1. CASE PreFilter(p)
    BY <1>3, <2>1 DEF PreFilter, Goto, Phases, FailurePolicies
  <2>2. CASE FilterFails(p)
    BY <1>3, <2>2 DEF FilterFails, RejectGang, Phases
  <2>3. ASSUME NEW n \in Nodes, Filter(p, n) PROVE TopologyFitType'
    BY <2>3 DEF Filter, Verdicts
  <2>4. ASSUME NEW n \in Nodes, TopologyFitReserve(p, n) PROVE TopologyFitType'
    BY <1>3, <2>4 DEF TopologyFitReserve, Goto, Phases
  <2>5. QED  BY <1>4, <2>1, <2>2, <2>3, <2>4 DEF SchedulingStep
<1>5. ASSUME NEW p \in Pods, BindingStep(p) PROVE TopologyFitType'
  <2>1. CASE PermitAllow(p)
    BY <2>1 DEF PermitAllow, Phases
  <2>2. CASE PermitReject(p) \/ PreBind(p) \/ Bind(p)
    BY <2>2 DEF PermitReject, PreBind, Bind, Goto, Phases
  <2>3. CASE PostBind(p)
    BY <2>3 DEF PostBind, Goto, Phases
  <2>4. CASE Unreserve(p)
    BY <2>4 DEF Unreserve, RejectGang, Phases
  <2>5. QED  BY <1>5, <2>1, <2>2, <2>3, <2>4 DEF BindingStep
<1>6. CASE Restart
  BY <1>3, <1>6 DEF Restart, Phases
<1>7. CASE PolicyChange \/ \E n \in Nodes : TopologyChange(n)
  BY <1>7 DEF PolicyChange, TopologyChange
<1>8. CASE UNCHANGED vars
  BY <1>8 DEF vars
<1>9. QED  BY <1>4, <1>5, <1>6, <1>7, <1>8 DEF Next, Environment

\* A step that keeps the ledger and the cycles' records and only moves Pods
\* forward between the phases of a binding cycle keeps CycleInv.
LEMMA PhaseOnly ==
  ASSUME TopologyFitInv, UNCHANGED <<ledger, cycleData, node, filtered>>,
         \A q \in Pods :
           \/ phase'[q] = phase[q]
           \/ /\ phase[q] \in {"permit", "prebind", "bind", "postbind", "unreserve"}
              /\ phase'[q] \in {"prebind", "bind", "postbind", "unreserve"}
              /\ phase[q] = "unreserve" => phase'[q] = "unreserve"
  PROVE  CycleInv'
<1>. USE DEF TopologyFitInv, CycleInv
<1>1. Holding' = Holding /\ \A n : Blocked(n)' = Blocked(n)
  BY DEF ledger, Holding, Blocked
<1>2. \A q \in Pods : Active(q)' = Active(q)
  BY DEF Active
<1>3. NoLeakedReservation'
  BY <1>1, <1>2 DEF NoLeakedReservation, Holding, ledger
<1>4. FailClosedKeepsReservation'
  BY <1>1 DEF FailClosedKeepsReservation
<1>5. SerialCycles'
  BY DEF SerialCycles
<1>6. SeenHolds'
  BY <1>1, <1>2 DEF SeenHolds
<1>7. QED  BY <1>3, <1>4, <1>5, <1>6

\* The start of a scheduling cycle.
LEMMA PreFilterCycle ==
  ASSUME TopologyFitInv, NEW p \in Pods, PreFilter(p)
  PROVE  CycleInv'
<1>. USE DEF TopologyFitInv, CycleInv
<1>1. Holding' = Holding /\ p \notin Holding
  BY DEF PreFilter, ledger, Holding, NoLeakedReservation
<1>2. \A q \in Pods : q # p => phase'[q] = phase[q] /\ cycleData'[q] = cycleData[q]
  BY DEF PreFilter, Goto, TopologyFitType
<1>3. phase'[p] = "filter"
  BY DEF PreFilter, Goto, TopologyFitType
<1>4. NoLeakedReservation'
  BY <1>1, <1>2 DEF NoLeakedReservation, Holding, PreFilter, ledger, Active
<1>5. FailClosedKeepsReservation'
  BY <1>1, <1>2, <1>3 DEF FailClosedKeepsReservation
<1>6. SerialCycles'
  BY <1>2, <1>3 DEF SerialCycles, SchedulerIdle, PreFilter
<1>7. SeenHolds'
  BY DEF SeenHolds, PreFilter, Pending
<1>8. QED  BY <1>4, <1>5, <1>6, <1>7

\* Filter's verdict on one more node.
LEMMA FilterCycle ==
  ASSUME TopologyFitInv, NEW p \in Pods, NEW n \in Nodes, Filter(p, n)
  PROVE  CycleInv'
<1>. USE DEF TopologyFitInv, CycleInv
<1>1. Holding' = Holding /\ \A m : Blocked(m)' = Blocked(m)
  BY DEF Filter, ledger, Holding, Blocked
<1>2. \A q \in Pods : Active(q)' = Active(q)
  BY DEF Filter, Active
<1>3. NoLeakedReservation' /\ FailClosedKeepsReservation' /\ SerialCycles'
  BY <1>1, <1>2 DEF NoLeakedReservation, FailClosedKeepsReservation, SerialCycles,
     Filter, ledger, Holding
<1>4. SeenHolds'
  <2>1. SUFFICES ASSUME NEW q \in Pods, NEW m \in Nodes, phase[q] = "filter", Active(q),
                        filtered'[m].verdict = "feasible"
                 PROVE  IF filtered'[m].seen.ready
                        THEN Offers(filtered'[m].seen, q, Blocked(m)) # {}
                        ELSE cycleData[q] = "BestEffort"
    BY <1>1, <1>2 DEF SeenHolds, Filter
  <2>2. CASE m # n
    <3>1. filtered'[m] = filtered[m]
      BY <2>2 DEF Filter, TopologyFitType
    <3>2. QED  BY <2>1, <3>1 DEF SeenHolds
  <2>3. CASE m = n
    <3>1. q = p
      BY <2>1 DEF SerialCycles, Filter
    <3>2. filtered'[n].seen = topo[n] /\ evaluate(p, n)
      BY <2>1, <2>3, <3>1 DEF Filter, TopologyFitType
    <3>3. p \notin Holding
      BY DEF Filter, NoLeakedReservation
    <3>4. ReservedDeviceIDs(n, p) = Blocked(n)
      BY <3>3 DEF ReservedDeviceIDs, Blocked, LedgerConsistent
    <3>5. QED
      BY <2>3, <3>1, <3>2, <3>4 DEF evaluate, Selectable, Offers
  <2>4. QED  BY <2>2, <2>3
<1>5. QED  BY <1>3, <1>4

\* The end of a scheduling cycle without a node: the Pod had no reservation,
\* and the gang members that are rejected keep theirs until Unreserve.
LEMMA FilterFailsCycle ==
  ASSUME TopologyFitInv, NEW p \in Pods, FilterFails(p)
  PROVE  CycleInv'
<1>. USE DEF TopologyFitInv, CycleInv
<1>1. Holding' = Holding /\ p \notin Holding
  BY DEF FilterFails, ledger, Holding, NoLeakedReservation
<1>2. \A q \in Pods : q # p =>
        /\ cycleData'[q] = cycleData[q]
        /\ phase'[q] = phase[q] \/ (phase[q] = "permit" /\ phase'[q] = "unreserve")
  BY DEF FilterFails, RejectGang, TopologyFitType
<1>3. phase'[p] = "queued"
  BY DEF FilterFails, RejectGang, TopologyFitType
<1>4. NoLeakedReservation'
  BY <1>1, <1>2 DEF NoLeakedReservation, Holding, FilterFails, ledger, Active
<1>5. FailClosedKeepsReservation'
  BY <1>1, <1>2, <1>3 DEF FailClosedKeepsReservation
<1>6. SerialCycles'
  BY <1>2, <1>3 DEF SerialCycles
<1>7. SeenHolds'
  BY DEF SeenHolds, FilterFails, Pending
<1>8. QED  BY <1>4, <1>5, <1>6, <1>7

\* Reserve: a Pod that goes on under FailClosed has a reservation on its node.
LEMMA ReserveCycle ==
  ASSUME TopologyFitInv, NEW p \in Pods, NEW n \in Nodes, TopologyFitReserve(p, n)
  PROVE  CycleInv'
<1>. USE DEF TopologyFitInv, CycleInv
<1>1. p \notin Holding /\ phase[p] = "filter"
  BY DEF TopologyFitReserve, NoLeakedReservation
<1>2. /\ \A q \in Pods : q # p => byPod'[q] = byPod[q]
      /\ p \in Holding' => /\ byPod'[p].nodeName = n /\ Active(p) /\ phase'[p] = "permit"
      /\ phase'[p] \in {"permit", "rollback"}
      /\ phase'[p] = "permit" /\ cycleData[p] = "FailClosed" => p \in Holding'
      /\ \A q \in Pods : q # p => phase'[q] = phase[q]
  <2>1. CASE UNCHANGED ledger
    <3>1. Holding' = Holding /\ byPod' = byPod
      BY <2>1 DEF ledger, Holding
    <3>2. ASSUME NEW selection \in selectDeviceIDs(p, n, Blocked(n)),
                 Reserve(p, n, selection),
                 Goto(p, IF ReserveSucceeds(p, n, selection) THEN "permit" ELSE "rollback")
          PROVE  phase'[p] = "rollback" /\ \A q \in Pods : q # p => phase'[q] = phase[q]
      <4>1. ~ReserveSucceeds(p, n, selection)
        BY <1>1, <3>1, <3>2, SelectionType, ReserveEffect DEF LedgerInv, TopologyFitType
      <4>2. QED  BY <3>2, <4>1 DEF Goto, TopologyFitType
    <3>3. QED
      BY <1>1, <3>1, <3>2
         DEF TopologyFitReserve, Goto, TopologyFitType, Active, FailurePolicies
  <2>2. CASE ~UNCHANGED ledger
    <3>1. PICK selection \in selectDeviceIDs(p, n, Blocked(n)) :
            /\ Active(p)
            /\ Reserve(p, n, selection)
            /\ Goto(p, IF ReserveSucceeds(p, n, selection) THEN "permit" ELSE "rollback")
      BY <2>2 DEF TopologyFitReserve
    <3>2. /\ \A q \in Pods : q # p => byPod'[q] = byPod[q]
          /\ IF ReserveSucceeds(p, n, selection)
             THEN p \in Holding' /\ byPod'[p].nodeName = n
             ELSE p \notin Holding'
      BY <1>1, <3>1, SelectionType, ReserveEffect DEF LedgerInv, TopologyFitType
    <3>3. QED  BY <3>1, <3>2 DEF Goto, TopologyFitType
  <2>3. QED  BY <2>1, <2>2
<1>3. /\ cycleData' = cycleData /\ node'[p] = n
      /\ \A q \in Pods : q # p => node'[q] = node[q]
  BY DEF TopologyFitReserve, TopologyFitType
<1>4. \A q \in Pods : q # p => (q \in Holding' <=> q \in Holding)
  BY <1>2 DEF Holding
<1>5. NoLeakedReservation'
  <2>1. SUFFICES ASSUME NEW q \in Holding'
                 PROVE  /\ phase'[q] \in {"permit", "prebind", "bind", "postbind", "unreserve"}
                        /\ Active(q)' /\ byPod'[q].nodeName = node'[q]
    BY DEF NoLeakedReservation
  <2>2. q \in Pods
    BY DEF Holding
  <2>3. QED  BY <1>2, <1>3, <1>4, <2>2 DEF NoLeakedReservation, Active
<1>6. FailClosedKeepsReservation'
  BY <1>2, <1>3, <1>4 DEF FailClosedKeepsReservation
<1>7. SerialCycles'
  BY <1>1, <1>2 DEF SerialCycles
<1>8. SeenHolds'
  BY DEF SeenHolds, TopologyFitReserve, Pending
<1>9. QED  BY <1>5, <1>6, <1>7, <1>8

\* The two ends of a binding cycle: PostBind and Unreserve give the
\* reservation back, and no other Pod loses its own.
LEMMA ReleaseCycle ==
  ASSUME TopologyFitInv, NEW p \in Pods, PostBind(p) \/ Unreserve(p)
  PROVE  CycleInv'
<1>. USE DEF TopologyFitInv, CycleInv
<1>1. /\ \A q \in Pods : q # p => byPod'[q] = byPod[q]
      /\ p \notin Holding'
      /\ \A n \in Nodes : Blocked(n)' \subseteq Blocked(n)
  <2>1. CASE Active(p)
    BY <2>1, ReleaseEffect DEF PostBind, Unreserve, LedgerInv, TopologyFitType
  <2>2. CASE ~Active(p)
    <3>1. p \notin Holding /\ UNCHANGED ledger
      BY <2>2 DEF PostBind, Unreserve, NoLeakedReservation
    <3>2. QED  BY <3>1 DEF ledger, Holding, Blocked
  <2>3. QED  BY <2>1, <2>2
<1>2. \A q \in Pods : q # p =>
        /\ q \in Holding' <=> q \in Holding
        /\ cycleData'[q] = cycleData[q] /\ node'[q] = node[q]
        /\ phase'[q] = phase[q] \/ (phase[q] = "permit" /\ phase'[q] = "unreserve")
  BY <1>1, Zenon DEF Holding, PostBind, Unreserve, Goto, RejectGang, TopologyFitType
<1>3. phase'[p] \in {"bound", "queued"} /\ filtered' = filtered
  BY DEF PostBind, Unreserve, Goto, RejectGang, TopologyFitType
<1>4. NoLeakedReservation'
  BY <1>1, <1>2 DEF NoLeakedReservation, Holding, Active
<1>5. FailClosedKeepsReservation'
  BY <1>2, <1>3 DEF FailClosedKeepsReservation
<1>6. SerialCycles'
  BY <1>2, <1>3 DEF SerialCycles
<1>7. SeenHolds'
  <2>1. SUFFICES ASSUME NEW q \in Pods, NEW n \in Nodes,
                        phase'[q] = "filter", Active(q)', filtered[n].verdict = "feasible"
                 PROVE  IF filtered[n].seen.ready
                        THEN Offers(filtered[n].seen, q, Blocked(n)') # {}
                        ELSE cycleData'[q] = "BestEffort"
    BY <1>3 DEF SeenHolds
  <2>2. q # p /\ phase[q] = "filter" /\ Active(q) /\ cycleData'[q] = cycleData[q]
    BY <1>2, <1>3, <2>1 DEF Active
  <2>3. QED  BY <1>1, <2>1, <2>2, OffersMonotone DEF SeenHolds
<1>8. QED  BY <1>4, <1>5, <1>6, <1>7

\* A restart leaves no reservation and no cycle.
LEMMA RestartCycle ==
  ASSUME TopologyFitInv, Restart
  PROVE  CycleInv'
<1>1. Holding' = {}
  BY DEF Restart, Holding
<1>2. \A q \in Pods : phase'[q] \in {"bound", "queued"}
  BY DEF Restart
<1>3. QED
  BY <1>1, <1>2 DEF CycleInv, NoLeakedReservation, FailClosedKeepsReservation,
     SerialCycles, SeenHolds, Restart

\* The inductive step.
LEMMA NextInv == TopologyFitInv /\ [Next]_vars => TopologyFitInv'
<1>. SUFFICES ASSUME TopologyFitInv, [Next]_vars PROVE TopologyFitInv'
  OBVIOUS
<1>1. TopologyFitType' /\ LedgerConsistent'
  BY LedgerStep, TypeStep DEF LedgerInv
<1>2. CycleInv'
  <2>1. ASSUME NEW p \in Pods, SchedulingStep(p) PROVE CycleInv'
    BY <2>1, PreFilterCycle, FilterCycle, FilterFailsCycle, ReserveCycle DEF SchedulingStep
  <2>2. ASSUME NEW p \in Pods, BindingStep(p) PROVE CycleInv'
    <3>1. CASE PermitAllow(p)
      BY <3>1, PhaseOnly DEF PermitAllow
    <3>2. CASE PermitReject(p) \/ PreBind(p) \/ Bind(p)
      BY <3>2, PhaseOnly
         DEF PermitReject, PreBind, Bind, Goto, TopologyFitInv, TopologyFitType
    <3>3. QED  BY <2>2, <3>1, <3>2, ReleaseCycle DEF BindingStep
  <2>3. CASE PolicyChange \/ \E n \in Nodes : TopologyChange(n)
    BY <2>3, PhaseOnly DEF PolicyChange, TopologyChange
  <2>4. CASE UNCHANGED vars
    BY <2>4, PhaseOnly DEF vars, ledger
  <2>5. QED  BY <2>1, <2>2, <2>3, <2>4, RestartCycle DEF Next, Environment
<1>3. QED  BY <1>1, <1>2 DEF TopologyFitInv

\* The invariant holds throughout, for any number of Pods, nodes and devices.
THEOREM TopologyFitCorrect == Spec => []TopologyFitInv
BY InitInv, NextInv, PTL DEF Spec

\* The state of the scheduling and binding cycles has its type.
THEOREM TopologyFitTyped == Spec => []TopologyFitType
BY TopologyFitCorrect, PTL DEF TopologyFitInv

\* plugin.go leaves no reservation behind: a Pod that holds one is between its
\* Reserve and its PostBind or Unreserve, on the node it is being bound to.
THEOREM NoLeak == Spec => []NoLeakedReservation
BY TopologyFitCorrect, PTL DEF TopologyFitInv, CycleInv

\* Under FailClosed the reservation outlives every topology change until the
\* binding cycle ends, so PreBind finds it.
THEOREM FailClosedHolds == Spec => []FailClosedKeepsReservation
BY TopologyFitCorrect, PTL DEF TopologyFitInv, CycleInv

\* The two maps of the ledger agree, and no device is reserved twice, in every
\* interleaving of scheduling and binding cycles.
THEOREM PluginLedgerCorrect == Spec => [](LedgerConsistent /\ NoOverlap)
<1>1. TopologyFitInv => LedgerConsistent /\ NoOverlap
  BY ConsistentNoOverlap DEF TopologyFitInv, TopologyFitType, LedgerInv
<1>2. QED  BY <1>1, TopologyFitCorrect, PTL

\* Reserve confirms Filter unless the topology changed: what Filter saw is
\* still on offer when the topology is still (or again) the same.
THEOREM ReserveConfirmsFilter == Spec => []FilterStillHolds
<1>1. TopologyFitInv => FilterStillHolds
  <2>. SUFFICES ASSUME TopologyFitInv, NEW p \in Pods, NEW n \in Nodes,
                       phase[p] = "filter", Active(p),
                       filtered[n].verdict = "feasible", filtered[n].seen = topo[n]
                PROVE  evaluate(p, n) /\ (topo[n].ready => Selectable(p, n, Blocked(n)) # {})
    BY DEF FilterStillHolds
  <2>1. IF topo[n].ready THEN Offers(topo[n], p, Blocked(n)) # {}
                         ELSE cycleData[p] = "BestEffort"
    BY DEF TopologyFitInv, CycleInv, SeenHolds
  <2>2. p \notin Holding
    BY DEF TopologyFitInv, CycleInv, NoLeakedReservation
  <2>3. ReservedDeviceIDs(n, p) = Blocked(n)
    BY <2>2 DEF ReservedDeviceIDs, Blocked, TopologyFitInv, LedgerConsistent
  <2>4. QED  BY <2>1, <2>3 DEF evaluate, Selectable, Offers
<1>2. QED  BY <1>1, TopologyFitCorrect, PTL

\* Under the plugin the ledger implements exclusive ownership that a restart of
\* the scheduler empties.
THEOREM PluginImplementsOwnership == Spec => LedgerIsExclusive
<1>1. Init => Ownership!Init
  BY DEF Init, newReservationLedger, Ownership!Init, ownerOf
<1>2. TopologyFitInv /\ [Next]_vars => [Ownership!Next \/ Ownership!Forget]_ownerOf
  <2>. SUFFICES ASSUME TopologyFitInv, [Next]_vars
                PROVE  Ownership!Next \/ Ownership!Forget \/ UNCHANGED ownerOf
    OBVIOUS
  <2>. LedgerInv
    BY DEF TopologyFitInv, LedgerInv, TopologyFitType
  <2>1. ASSUME UNCHANGED ledger PROVE UNCHANGED ownerOf
    BY <2>1 DEF ledger, ownerOf
  <2>2. ASSUME NEW p \in Pods, SchedulingStep(p)
        PROVE  Ownership!Next \/ UNCHANGED ownerOf
    <3>1. CASE UNCHANGED ledger
      BY <2>1, <3>1
    <3>2. CASE ~UNCHANGED ledger
      <4>1. PICK n \in Nodes : \E selection \in selectDeviceIDs(p, n, Blocked(n)) :
              Reserve(p, n, selection)
        BY <2>2, <3>2 DEF SchedulingStep, PreFilter, Filter, FilterFails, TopologyFitReserve
      <4>2. PICK selection \in Selection : Reserve(p, n, selection)
        BY <4>1, SelectionType DEF TopologyFitInv
      <4>3. p \notin Holding /\ Accepts(n, selection)
        BY <3>2, <4>2 DEF Reserve
      <4>4. {n} \X selection \in SUBSET (Nodes \X Devices)
        BY <4>2, <4>3 DEF Accepts, Selection
      <4>5. QED  BY <4>2, <4>3, <4>4, ReserveAcquires, Zenon DEF Ownership!Next
    <3>3. QED  BY <3>1, <3>2
  <2>3. ASSUME NEW p \in Pods, BindingStep(p)
        PROVE  Ownership!Next \/ UNCHANGED ownerOf
    <3>1. CASE UNCHANGED ledger
      BY <2>1, <3>1
    <3>2. CASE ~UNCHANGED ledger
      <4>1. Release(p) /\ p \in Holding
        BY <2>3, <3>2
           DEF BindingStep, PermitAllow, PermitReject, PreBind, Bind, PostBind, Unreserve, Release
      <4>2. QED  BY <4>1, ReleaseReleases DEF Ownership!Next
    <3>3. QED  BY <3>1, <3>2
  <2>4. CASE Restart
    BY <2>4 DEF Restart, Ownership!Forget, ownerOf
  <2>5. CASE PolicyChange \/ \E n \in Nodes : TopologyChange(n)
    BY <2>1, <2>5 DEF PolicyChange, TopologyChange
  <2>6. CASE UNCHANGED vars
    BY <2>1, <2>6 DEF vars, ledger
  <2>7. QED  BY <2>2, <2>3, <2>4, <2>5, <2>6 DEF Next, Environment
<1>3. QED
  BY <1>1, <1>2, TopologyFitCorrect, PTL DEF Spec, LedgerIsExclusive, Ownership!VolatileSpec
===============================================================================
