-------------------------- MODULE TopologyController --------------------------
(***************************************************************************)
(* The topology controller (pkg/controller/topology/controller.go), for    *)
(* one object: a work queue that holds its name at most once, and a sync   *)
(* that validates the informer's version and writes the Ready condition    *)
(* and the heartbeat to the status.                                        *)
(***************************************************************************)
EXTENDS TopologyObject

VARIABLES
  queued,    \* the object's name is in the queue
  syncing    \* the status update under way: the version read, or Nobody,
             \* and the version to write

controller == <<queued, syncing>>

NotSyncing == [base |-> Nobody, updated |-> Nobody]

\* AddFunc and UpdateFunc enqueue; a deletion does not.
ControllerEvent ==
  /\ Event("controller")
  /\ queued' = (queued \/ view'["controller"] # Nobody)
  /\ UNCHANGED syncing

\* The result of graph.Build on the version.
Verdict(o) == IF o.content \in Invalid THEN "False" ELSE "True"

\* The condition and the heartbeat are as they should be.
UpToDate(o) ==
  /\ o.conditionGeneration = o.generation
  /\ o.status = Verdict(o)
  /\ o.age < HeartbeatInterval

Validated(o) ==
  [o EXCEPT !.status = Verdict(o), !.conditionGeneration = o.generation, !.age = 0]

SyncStart ==
  /\ queued /\ syncing = NotSyncing
  /\ queued' = FALSE
  /\ LET o == view["controller"] IN
       syncing' = IF o = Nobody \/ UpToDate(o) THEN NotSyncing
                  ELSE [base |-> o, updated |-> Validated(o)]
  /\ UNCHANGED api

\* A mutant of SyncWrite: the status is written over whatever is stored.
SyncOverwrites ==
  /\ syncing # NotSyncing
  /\ syncing' = NotSyncing
  /\ IF object # Nobody
     THEN /\ Store([object EXCEPT !.status = syncing.updated.status, !.age = syncing.updated.age,
                                  !.conditionGeneration = syncing.updated.conditionGeneration])
          /\ UNCHANGED queued
     ELSE queued' = TRUE /\ UNCHANGED <<watchers, object, watch>>
  /\ UNCHANGED <<view, changes>>

\* A mutant of SyncWrite: the whole object as it was read, its spec included, is
\* written over whatever is stored.
SyncRestoresSpec ==
  /\ syncing # NotSyncing
  /\ syncing' = NotSyncing
  /\ IF object # Nobody
     THEN /\ Store([syncing.updated EXCEPT !.uid = object.uid, !.generation =
                      IF object.content = syncing.updated.content THEN object.generation
                      ELSE object.generation + 1])
          /\ UNCHANGED queued
     ELSE queued' = TRUE /\ UNCHANGED <<watchers, object, watch>>
  /\ UNCHANGED <<view, changes>>

\* UpdateStatus; an error (here: a conflict) puts the name into the queue again.
SyncWrite ==
  /\ syncing # NotSyncing
  /\ syncing' = NotSyncing
  /\ IF object = syncing.base
     THEN Store(syncing.updated) /\ UNCHANGED queued
     ELSE queued' = TRUE /\ UNCHANGED <<watchers, object, watch>>
  /\ UNCHANGED <<view, changes>>

\* The API server does not answer, or the agent renewed the discovered-at
\* annotation in between, which a version does not record.
SyncFails ==
  /\ syncing # NotSyncing
  /\ syncing' = NotSyncing
  /\ queued' = TRUE
  /\ UNCHANGED api

ControllerRestarts ==
  /\ RestartInformer("controller")
  /\ queued' = FALSE
  /\ syncing' = NotSyncing
===============================================================================
