---------------------------- MODULE TopologyObject ----------------------------
(***************************************************************************)
(* One node's AcceleratorTopology object in the API server, and the        *)
(* informers through which the topology controller, the scheduler and the  *)
(* DRA driver see it.  The API server and client-go are not part of the    *)
(* repository: they are modelled from how its code uses them.              *)
(*                                                                         *)
(* A version of the object keeps what the code compares.  age is the time  *)
(* since the heartbeat of its status, Old when it is beyond every limit or *)
(* there is none.  The API server refuses an update made from a version    *)
(* that is no longer the stored one; the model compares the versions       *)
(* themselves instead of their resourceVersion.                            *)
(***************************************************************************)
EXTENDS Naturals, Sequences

CONSTANTS
  Contents,          \* what a topology's spec can say (but its generation)
  Invalid,           \* the contents that topology.Build rejects
  Nobody,            \* no object, and no content
  Deployments,       \* the sets of processes that may watch the object
  MayRelist,         \* whether an informer can miss events and list again
  TTL,               \* how old a usable heartbeat may be
  HeartbeatInterval, \* the age at which the controller renews a heartbeat
  MaxLag,            \* bound: events on the way to an informer
  MaxChanges         \* bound: changes of the hardware and by operators

Old == TTL + 1

\* uid tells incarnations of the object apart: the value of changes when it
\* was created, which a deletion increases.
Version == [uid : Nat, generation : Nat \ {0}, observedGeneration : Nat \ {0},
            content : Contents, manager : {"agent", "none", "other"},
            status : {"True", "False"}, conditionGeneration : Nat, age : 0..Old]

ASSUME TopologyObjectAssumption ==
  /\ Nobody \notin Version
  /\ Invalid \subseteq Contents
  /\ Nobody \notin Contents
  /\ Deployments \subseteq SUBSET {"controller", "scheduler", "publisher"}
  /\ MayRelist \in BOOLEAN
  /\ TTL \in Nat \ {0} /\ HeartbeatInterval \in 1..TTL
  /\ MaxLag \in Nat \ {0} /\ MaxChanges \in Nat

VARIABLES
  watchers,  \* the processes with an informer on the object, ever the same
  object,    \* the stored version, or Nobody
  watch,     \* the versions on the way to each informer; Nobody is a deletion
  view,      \* the version each informer handed to its handlers last
  changes    \* the number of changes made from outside so far

api == <<watchers, object, watch, view, changes>>

\* A mutant of NewVersion: spec.observedGeneration is not set.
NewVersionUnset(content, manager) ==
  [uid |-> changes, generation |-> 1, observedGeneration |-> 0, content |-> content,
   manager |-> manager, status |-> "False", conditionGeneration |-> 0, age |-> Old]

NewVersion(content, manager) ==
  [uid |-> changes, generation |-> 1, observedGeneration |-> 1, content |-> content,
   manager |-> manager, status |-> "False", conditionGeneration |-> 0, age |-> Old]

\* The Ready condition observes the generation of the version.
ReadyNow(o) == o.status = "True" /\ o.conditionGeneration = o.generation

Older(o) == IF o = Nobody \/ o.age = Old THEN o ELSE [o EXCEPT !.age = @ + 1]

Store(o) ==
  /\ \A w \in watchers : Len(watch[w]) < MaxLag
  /\ object' = o
  /\ watch' = [w \in watchers |-> Append(watch[w], o)]
  /\ UNCHANGED watchers

-------------------------------------------------------------------------------
(***************************************************************************)
(* Informers.  A watch delivers the versions in order; after a broken one  *)
(* the informer lists the latest version and never sees those in between;  *)
(* every 30 seconds it hands its version to the handlers again.  A process *)
(* that restarts lists what there is.                                      *)
(***************************************************************************)
Deliver(w) ==
  /\ watch[w] # <<>>
  /\ view' = [view EXCEPT ![w] = Head(watch[w])]
  /\ watch' = [watch EXCEPT ![w] = Tail(@)]

Relist(w) ==
  /\ MayRelist /\ Len(watch[w]) > 1
  /\ view' = [view EXCEPT ![w] = object]
  /\ watch' = [watch EXCEPT ![w] = <<>>]

Resync(w) ==
  /\ view[w] # Nobody
  /\ UNCHANGED <<view, watch>>

Event(w) ==
  /\ Deliver(w) \/ Relist(w) \/ Resync(w)
  /\ UNCHANGED <<watchers, object, changes>>

RestartInformer(w) ==
  /\ view' = [view EXCEPT ![w] = Nobody]
  /\ watch' = [watch EXCEPT ![w] = IF object = Nobody THEN <<>> ELSE <<object>>]
  /\ UNCHANGED <<watchers, object, changes>>

-------------------------------------------------------------------------------
(***************************************************************************)
(* Operators edit, label, delete and apply the object.                     *)
(***************************************************************************)
Change == changes < MaxChanges /\ changes' = changes + 1

\* A change of the spec increases metadata.generation.
Edit(content) ==
  /\ object # Nobody /\ object.content # content
  /\ Change
  /\ Store([object EXCEPT !.content = content, !.generation = @ + 1])

Label(manager) ==
  /\ object # Nobody /\ object.manager # manager
  /\ Change
  /\ Store([object EXCEPT !.manager = manager])

Remove ==
  /\ object # Nobody
  /\ Change
  /\ Store(Nobody)

Apply(content) ==
  /\ object = Nobody
  /\ Change
  /\ Store([NewVersion(content, "none") EXCEPT !.uid = changes'])

Operator ==
  /\ \/ \E content \in Contents : Edit(content) \/ Apply(content)
     \/ \E manager \in {"none", "other"} : Label(manager)
     \/ Remove
  /\ UNCHANGED view
===============================================================================
