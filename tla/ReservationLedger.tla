--------------------------- MODULE ReservationLedger ---------------------------
(***************************************************************************)
(* The advisory reservation ledger of TopologyFit                          *)
(* (pkg/plugin/topologyfit/ledger.go): a mutex around two maps, byPod and  *)
(* deviceOwner, which must always describe the same reservations.  Each    *)
(* method holds the mutex from its first to its last access, so a method   *)
(* is one action.                                                          *)
(*                                                                         *)
(* The device selector that Reserve calls under the mutex is a parameter:  *)
(* its result is a set of device IDs, or Malformed for a list with an      *)
(* empty or a repeated ID.                                                 *)
(***************************************************************************)
CONSTANTS
  Pods,            \* the Pods' keys (their UIDs)
  Nodes,
  Devices,         \* the device IDs that can occur on a node
  NoPod,           \* the owner of a free device: a missing map entry
  NoReservation,   \* byPod of a Pod without an entry
  Malformed        \* a selection with an empty or a repeated device ID

ASSUME LedgerAssumption ==
  /\ NoPod \notin Pods
  /\ NoReservation \notin [nodeName : Nodes, deviceIDs : SUBSET Devices]
  /\ \A S \in SUBSET Devices : Malformed # S

VARIABLES
  byPod,        \* the reservation of each Pod
  deviceOwner   \* the Pod that reserved each device of each node

ledger == <<byPod, deviceOwner>>

Reservation == [nodeName : Nodes, deviceIDs : SUBSET Devices]
Selection == (SUBSET Devices) \cup {Malformed}

newReservationLedger ==
  /\ byPod = [p \in Pods |-> NoReservation]
  /\ deviceOwner = [n \in Nodes |-> [d \in Devices |-> NoPod]]

Holding == {p \in Pods : byPod[p] # NoReservation}

\* A mutant of ReservedDeviceIDs: it returns nothing, so Filter sees no
\* reservation.
NoReservedDeviceIDs(n, p) == {}

\* The devices of node n that Pods other than p have reserved.
ReservedDeviceIDs(n, p) == {d \in Devices : deviceOwner[n][d] \notin {NoPod, p}}

\* The devices a new reservation on n may not use: all that are owned.
Blocked(n) == {d \in Devices : deviceOwner[n][d] # NoPod}

\* A mutant of Accepts: the check of the devices' owners is missing.
AcceptsOwnedDevices(n, selection) == selection # Malformed /\ selection # {}

\* The checks Reserve makes of a selection before it changes anything.
Accepts(n, selection) ==
  /\ selection # Malformed
  /\ selection # {}
  /\ \A d \in selection : deviceOwner[n][d] = NoPod

\* Reserve returns no error: the Pod's own earlier reservation on the same
\* node, or a new one.
ReserveSucceeds(p, n, selection) ==
  IF p \in Holding THEN byPod[p].nodeName = n ELSE Accepts(n, selection)

\* A mutant of Reserve: a Pod's earlier reservation is not looked up.
ReserveAgain(p, n, selection) ==
  IF Accepts(n, selection)
  THEN /\ byPod' = [byPod EXCEPT ![p] = [nodeName |-> n, deviceIDs |-> selection]]
       /\ deviceOwner' = [deviceOwner EXCEPT ![n] =
            [d \in Devices |-> IF d \in selection THEN p ELSE @[d]]]
  ELSE UNCHANGED ledger

Reserve(p, n, selection) ==
  IF p \notin Holding /\ Accepts(n, selection)
  THEN /\ byPod' = [byPod EXCEPT ![p] = [nodeName |-> n, deviceIDs |-> selection]]
       /\ deviceOwner' = [deviceOwner EXCEPT ![n] =
            [d \in Devices |-> IF d \in selection THEN p ELSE @[d]]]
  ELSE UNCHANGED ledger

\* A mutant of Release: the index by device is left behind.
ReleaseByPodOnly(p) ==
  /\ byPod' = [byPod EXCEPT ![p] = NoReservation]
  /\ UNCHANGED deviceOwner

Release(p) ==
  IF p \in Holding
  THEN /\ byPod' = [byPod EXCEPT ![p] = NoReservation]
       /\ deviceOwner' = [deviceOwner EXCEPT ![byPod[p].nodeName] =
            [d \in Devices |-> IF d \in byPod[p].deviceIDs THEN NoPod ELSE @[d]]]
  ELSE UNCHANGED ledger

-------------------------------------------------------------------------------
(***************************************************************************)
(* The ledger alone, under any sequence of calls with any selector.        *)
(***************************************************************************)
LedgerNext ==
  \E p \in Pods :
    \/ \E n \in Nodes, selection \in Selection : Reserve(p, n, selection)
    \/ Release(p)

LedgerSpec == newReservationLedger /\ [][LedgerNext]_ledger

\* Type invariant of the ledger's two maps.
LedgerType ==
  /\ byPod \in [Pods -> Reservation \cup {NoReservation}]
  /\ deviceOwner \in [Nodes -> [Devices -> Pods \cup {NoPod}]]

\* ledger.go keeps one fact in two maps.  They agree after every method: a
\* device is owned by a Pod exactly when the Pod's reservation names it, and
\* no reservation is empty.
LedgerConsistent ==
  /\ \A p \in Pods, n \in Nodes, d \in Devices :
       deviceOwner[n][d] = p <=>
         /\ p \in Holding
         /\ byPod[p].nodeName = n
         /\ d \in byPod[p].deviceIDs
  /\ \A p \in Holding : byPod[p].deviceIDs # {}

\* No two Pods hold the same device of a node: what "prevents overlapping
\* scheduler binding cycles from reserving the same topology combination".
NoOverlap ==
  \A p, q \in Holding :
    p # q /\ byPod[p].nodeName = byPod[q].nodeName
      => byPod[p].deviceIDs \cap byPod[q].deviceIDs = {}

\* Reserve is idempotent and never moves a Pod: a reservation is created,
\* kept as it is, or released whole, whatever calls are repeated.
ReservationFixed ==
  [][\A p \in Pods : byPod[p] # byPod'[p]
       => NoReservation \in {byPod[p], byPod'[p]}]_ledger

\* deviceOwner as the owner map of the abstract specification.
ownerOf == [u \in Nodes \X Devices |-> deviceOwner[u[1]][u[2]]]

Ownership == INSTANCE ExclusiveOwnership
  WITH Holders <- Pods, Units <- Nodes \X Devices, Nobody <- NoPod, owner <- ownerOf

\* The ledger implements exclusive ownership: each method call takes a free
\* combination whole, returns one whole, or changes nothing.
LedgerRefinesOwnership == Ownership!Spec
===============================================================================
