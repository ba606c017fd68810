--------------------------- MODULE PolicyController ---------------------------
(***************************************************************************)
(* The policy controller (pkg/controller/policy) for one placement policy: *)
(* it keeps a ResourceClaimTemplate of the same name as the policy's DRA   *)
(* parameters ask.  The controller watches policies only, so what happens  *)
(* to the template it learns from the next event or resync of the policy.  *)
(* The API server, the informer and the garbage collector are external.    *)
(*                                                                         *)
(* A sync reads the policy from the lister and the template from the API   *)
(* server, and writes in a step of its own.  An update is refused when the *)
(* template is not the version that was read, and when it changes the spec *)
(* of the template, which is immutable; a deletion goes by name.           *)
(***************************************************************************)
EXTENDS Naturals, Sequences

CONSTANTS
  Specs,         \* the policies' specs with DRA parameters
  Unsupported,   \* those that ResourceClaimTemplateForPolicy rejects
  NoDRA,         \* a spec without DRA parameters
  Nobody,        \* no policy, no template
  MaxChanges     \* bound: what operators do to the policy and the template

\* owner is the uid of the controlling owner reference, 0 without one.  label
\* says whether managed-by names this controller.  extra says whether there are
\* labels or owner references besides the ones that the controller sets.
Policy == [uid : Nat \ {0}, spec : Specs \cup {NoDRA}]
Template == [label : {"controller", "other"}, owner : Nat, extra : BOOLEAN, spec : Specs]

ASSUME PolicyControllerAssumption ==
  /\ Unsupported \subseteq Specs
  /\ NoDRA \notin Specs
  /\ Nobody \notin Policy /\ Nobody \notin Template
  /\ MaxChanges \in Nat

VARIABLES
  policy,     \* the stored policy, or Nobody
  template,   \* the stored template of that name, or Nobody
  watch,      \* the policy's versions on their way to the informer
  seen,       \* the policy in the lister
  queued,     \* the policy's name is in the work queue
  sync,       \* the sync under way: its next call, and what it read
  changes     \* the number of changes by operators so far

controllerVars == <<policy, template, watch, seen, queued, sync, changes>>

NotSyncing == [step |-> "idle", policy |-> Nobody, existing |-> Nobody]

ControllerInit ==
  /\ policy = Nobody /\ template = Nobody
  /\ watch = <<>> /\ seen = Nobody
  /\ queued = FALSE /\ sync = NotSyncing
  /\ changes = 0

\* The label is the controller's and IsControlledBy holds.
Managed(t, p) == t.label = "controller" /\ t.owner = p.uid

\* A mutant of ResourceClaimTemplateForPolicy: the owner's UID is not set.
TemplateWithoutUID(p) ==
  [label |-> "controller", owner |-> Nobody, extra |-> FALSE, spec |-> p.spec]

\* What it returns for a policy that it does not reject.
ResourceClaimTemplateForPolicy(p) ==
  [label |-> "controller", owner |-> p.uid, extra |-> FALSE, spec |-> p.spec]

-------------------------------------------------------------------------------
(***************************************************************************)
(* sync.  An error puts the name into the queue again.                     *)
(***************************************************************************)
SyncStart ==
  /\ queued /\ sync = NotSyncing
  /\ queued' = FALSE
  /\ sync' = IF seen = Nobody THEN NotSyncing
             ELSE [step |-> "get", policy |-> seen, existing |-> Nobody]
  /\ UNCHANGED <<policy, template, watch, seen, changes>>

Call(step) == sync' = [sync EXCEPT !.step = step, !.existing = template] /\ UNCHANGED queued
SyncDone == sync' = NotSyncing /\ UNCHANGED queued
Fail == sync' = NotSyncing /\ queued' = TRUE

\* A mutant of SyncGet: a template that is there is taken to be right.
SyncGetTrusts ==
  /\ sync.step = "get"
  /\ LET p == sync.policy IN
       IF p.spec = NoDRA
       THEN IF template # Nobody /\ Managed(template, p) THEN Call("delete") ELSE SyncDone
       ELSE IF p.spec \in Unsupported THEN Fail
       ELSE IF template = Nobody THEN Call("create")
       ELSE IF ~Managed(template, p) THEN Fail
       ELSE SyncDone
  /\ UNCHANGED <<policy, template, watch, seen, changes>>

\* The decision that sync takes on the template it gets.
SyncGet ==
  /\ sync.step = "get"
  /\ LET p == sync.policy IN
       IF p.spec = NoDRA
       THEN IF template # Nobody /\ Managed(template, p) THEN Call("delete") ELSE SyncDone
       ELSE IF p.spec \in Unsupported THEN Fail
       ELSE IF template = Nobody THEN Call("create")
       ELSE IF ~Managed(template, p) THEN Fail
       ELSE IF template = ResourceClaimTemplateForPolicy(p) THEN SyncDone
       ELSE Call("update")
  /\ UNCHANGED <<policy, template, watch, seen, changes>>

\* Deletion by name, without a precondition on what was read.
SyncDelete ==
  /\ sync.step = "delete"
  /\ template' = Nobody
  /\ IF template # Nobody THEN SyncDone ELSE Fail
  /\ UNCHANGED <<policy, watch, seen, changes>>

\* The API server takes a template where there is none, and an update that
\* leaves the spec as it is.
Admitted(t) == template # Nobody => template.spec = t.spec

\* A mutant of SyncWrite: the update does not carry the version that was read.
SyncOverwrites ==
  /\ sync.step \in {"create", "update"}
  /\ IF Admitted(ResourceClaimTemplateForPolicy(sync.policy))
     THEN template' = ResourceClaimTemplateForPolicy(sync.policy) /\ SyncDone
     ELSE UNCHANGED template /\ Fail
  /\ UNCHANGED <<policy, watch, seen, changes>>

\* Create, which finds a template there, or Update, which finds another version
\* or another spec.
SyncWrite ==
  /\ sync.step \in {"create", "update"}
  /\ IF template = sync.existing /\ Admitted(ResourceClaimTemplateForPolicy(sync.policy))
     THEN template' = ResourceClaimTemplateForPolicy(sync.policy) /\ SyncDone
     ELSE UNCHANGED template /\ Fail
  /\ UNCHANGED <<policy, watch, seen, changes>>

SyncFails ==
  /\ sync # NotSyncing
  /\ Fail
  /\ UNCHANGED <<policy, template, watch, seen, changes>>

SyncStep == SyncStart \/ SyncGet \/ SyncDelete \/ SyncWrite

-------------------------------------------------------------------------------
(***************************************************************************)
(* The informer: every event, a deletion included, enqueues the name.      *)
(***************************************************************************)
Deliver ==
  /\ watch # <<>>
  /\ seen' = Head(watch) /\ watch' = Tail(watch)
  /\ queued' = TRUE
  /\ UNCHANGED <<policy, template, sync, changes>>

Relist ==
  /\ Len(watch) > 1
  /\ seen' = policy /\ watch' = <<>>
  /\ queued' = (queued \/ seen # Nobody \/ policy # Nobody)
  /\ UNCHANGED <<policy, template, sync, changes>>

Resync ==
  /\ seen # Nobody
  /\ queued' = TRUE
  /\ UNCHANGED <<policy, template, watch, seen, sync, changes>>

Restart ==
  /\ seen' = Nobody
  /\ watch' = IF policy = Nobody THEN <<>> ELSE <<policy>>
  /\ queued' = FALSE /\ sync' = NotSyncing
  /\ UNCHANGED <<policy, template, changes>>

-------------------------------------------------------------------------------
(***************************************************************************)
(* Operators apply, edit and delete the policy, and create, label, relabel *)
(* and delete the template.  The garbage collector deletes a template      *)
(* whose owner is gone.                                                    *)
(***************************************************************************)
Change == changes < MaxChanges /\ changes' = changes + 1

PolicyChange ==
  /\ Change
  /\ \/ /\ policy = Nobody
        /\ \E spec \in Specs \cup {NoDRA} : policy' = [uid |-> changes', spec |-> spec]
     \/ /\ policy # Nobody
        /\ \E spec \in (Specs \cup {NoDRA}) \ {policy.spec} :
             policy' = [policy EXCEPT !.spec = spec]
     \/ /\ policy # Nobody
        /\ policy' = Nobody
  /\ watch' = Append(watch, policy')
  /\ UNCHANGED <<template, seen, queued, sync>>

TemplateChange ==
  /\ Change
  /\ \/ /\ template = Nobody
        /\ \E spec \in Specs :
             template' = [label |-> "other", owner |-> 0, extra |-> FALSE, spec |-> spec]
     \/ /\ template # Nobody
        /\ template' = [template EXCEPT !.extra = ~@]
     \/ /\ template # Nobody /\ template.label = "controller"
        /\ template' = [template EXCEPT !.label = "other"]
     \/ /\ template # Nobody
        /\ template' = Nobody
  /\ UNCHANGED <<policy, watch, seen, queued, sync>>

GarbageCollect ==
  /\ template # Nobody /\ template.owner # 0
  /\ ~(policy # Nobody /\ policy.uid = template.owner)
  /\ template' = Nobody
  /\ UNCHANGED <<policy, watch, seen, queued, sync, changes>>

ControllerNext ==
  \/ SyncStep \/ SyncFails
  \/ Deliver \/ Relist \/ Resync \/ Restart
  \/ PolicyChange \/ TemplateChange \/ GarbageCollect

ControllerSpec == ControllerInit /\ [][ControllerNext]_controllerVars

\* The worker runs, events arrive, the informer resyncs every 30 seconds, and
\* the garbage collector works.
FairControllerSpec ==
  /\ ControllerSpec
  /\ WF_controllerVars(SyncStep) /\ WF_controllerVars(Deliver) /\ WF_controllerVars(Resync)
  /\ WF_controllerVars(GarbageCollect)

-------------------------------------------------------------------------------
\* Type invariant of the controller.
PolicyControllerType ==
  /\ policy \in Policy \cup {Nobody}
  /\ template \in Template \cup {Nobody}
  /\ watch \in Seq(Policy \cup {Nobody})
  /\ seen \in Policy \cup {Nobody}
  /\ queued \in BOOLEAN
  /\ sync \in {NotSyncing} \cup
       [step : {"get", "delete", "create", "update"}, policy : Policy,
        existing : Template \cup {Nobody}]
  /\ changes \in 0..MaxChanges

\* "resource claim template ... is not managed by this controller": a write of
\* sync replaces only a template that carries the controller's label and is
\* owned by the policy the sync is about, also when others changed the template
\* after sync had looked at it; no policy adopts the template of another.
ForeignTemplatesKept ==
  [][SyncStep /\ template # Nobody /\ template' \notin {template, Nobody}
       => Managed(template, sync.policy) /\ Managed(template', sync.policy)]_controllerVars

\* From some time on operators are quiet and nothing fails.
Quiet == <>[][~(PolicyChange \/ TemplateChange \/ SyncFails \/ Restart)]_controllerVars

\* The template is as the policy asks, or someone else's.
Agreement ==
  IF policy = Nobody THEN template = Nobody \/ template.owner = 0
  ELSE IF policy.spec \in Unsupported THEN TRUE
  ELSE \/ template # Nobody /\ ~Managed(template, policy)
       \/ template = IF policy.spec = NoDRA THEN Nobody
                     ELSE ResourceClaimTemplateForPolicy(policy)

\* The template is the policy's own, of the time before the policy was edited:
\* every Update of it is refused.
LeftBehind ==
  /\ policy # Nobody /\ template # Nobody
  /\ policy.spec \notin Unsupported \cup {NoDRA}
  /\ Managed(template, policy) /\ template.spec # policy.spec

\* Policy and template do not "drift" (ADR-0006): whatever was labelled, deleted,
\* recreated or missed before, they end up in agreement, although the controller
\* does not watch templates.  The exception is a policy edited from one set of
\* DRA parameters to another, which sync cannot follow as long as the template
\* of the earlier ones is there.
TemplateSettles == Quiet => <>[]Agreement \/ <>[]LeftBehind

\* ADR-0006: "Delete only controller-owned templates when DRA parameters are
\* removed": what sync deletes is the controller's own at that moment.
DeletesOnlyOwn ==
  [][SyncDelete /\ template # Nobody => Managed(template, sync.policy)]_controllerVars
===============================================================================
