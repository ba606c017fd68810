------------------------ MODULE TopologyPipeline_proofs ------------------------
(***************************************************************************)
(* Proofs about the topology pipeline, for any contents, deployments and   *)
(* bounds.                                                                 *)
(*                                                                         *)
(* Every copy of the object anywhere in the system is a sound version: its *)
(* Ready condition is not ahead of it and, when it is current, stands for  *)
(* a valid graph.  The set of sound versions is closed under everything    *)
(* the writers do to a version, so the invariant is a typing of the state  *)
(* by that set, and what the two writers remember of the version they      *)
(* read.                                                                   *)
(***************************************************************************)
EXTENDS TopologyPipeline, SequenceTheorems, TLAPS

Sound ==
  {o \in Version : /\ o.conditionGeneration <= o.generation
                   /\ ReadyNow(o) => o.content \notin Invalid}

Copies == Sound \cup {Nobody}

ApiType ==
  /\ object \in Copies
  /\ watch \in [watchers -> Seq(Copies)]
  /\ view \in [watchers -> Copies]
  /\ changes \in 0..MaxChanges

AgentType ==
  /\ hardware \in Contents
  /\ agent \in [step : {"idle", "get", "write"}, discovered : Contents \cup {Nobody}, base : Copies]
  /\ agent.step # "idle" => agent.discovered \in Contents
  /\ agent.step = "write" /\ agent.base # Nobody
       => validateOwnership(agent.base, agent.discovered)

ControllerType ==
  /\ queued \in BOOLEAN
  /\ syncing \in [base : Copies, updated : Copies]
  /\ queued \/ syncing # NotSyncing => "controller" \in watchers
  /\ syncing # NotSyncing =>
       /\ syncing.base # Nobody /\ syncing.updated # Nobody
       /\ syncing.updated.uid = syncing.base.uid
       /\ syncing.updated.generation = syncing.base.generation
       /\ syncing.updated.observedGeneration = syncing.base.observedGeneration
       /\ syncing.updated.content = syncing.base.content

ConsumerType ==
  /\ cache \in Copies
  /\ cache # Nobody => cache.content \notin Invalid
  /\ published \in (Contents \ Invalid) \cup {Nobody}

PipelineInv == ApiType /\ AgentType /\ ControllerType /\ ConsumerType

USE TopologyObjectAssumption

-------------------------------------------------------------------------------
(***************************************************************************)
(* What is done to a version keeps it sound.                               *)
(***************************************************************************)
LEMMA VersionFields ==
  ASSUME NEW o \in Version
  PROVE  /\ o.uid \in Nat /\ o.generation \in Nat \ {0} /\ o.observedGeneration \in Nat \ {0}
         /\ o.content \in Contents /\ o.manager \in {"agent", "none", "other"}
         /\ o.status \in {"True", "False"} /\ o.conditionGeneration \in Nat /\ o.age \in 0..Old
BY DEF Version

\* The updates of a version that the operators, the agent and the controller make.
LEMMA EditedVersion ==
  ASSUME NEW o \in Version, NEW c \in Contents, NEW g \in Nat \ {0}
  PROVE  [o EXCEPT !.content = c, !.generation = g] \in Version
BY Zenon DEF Version

LEMMA UpdatedVersion ==
  ASSUME NEW o \in Version, NEW c \in Contents, NEW g \in Nat \ {0}, NEW og \in Nat \ {0}
  PROVE  [o EXCEPT !.manager = "agent", !.content = c, !.observedGeneration = og,
                   !.generation = g] \in Version
BY Zenon DEF Version

LEMMA ValidatedVersion ==
  ASSUME NEW o \in Version, NEW s \in {"True", "False"}, NEW g \in Nat, NEW a \in 0..Old
  PROVE  [o EXCEPT !.status = s, !.conditionGeneration = g, !.age = a] \in Version
BY Zenon DEF Version

\* A new object is not Ready.
LEMMA NewVersionSound ==
  ASSUME NEW c \in Contents, NEW m \in {"agent", "none"}, changes \in Nat
  PROVE  /\ NewVersion(c, m) \in Sound /\ NewVersion(c, m).content = c
         /\ \A u \in Nat : [NewVersion(c, m) EXCEPT !.uid = u] \in Sound
BY DEF NewVersion, Sound, Version, ReadyNow, Old

\* Time makes the heartbeat older, not the rest.
LEMMA OlderSound ==
  ASSUME NEW o \in Copies
  PROVE  /\ Older(o) \in Copies
         /\ Older(o) = Nobody <=> o = Nobody
         /\ o # Nobody =>
              /\ Older(o).uid = o.uid /\ Older(o).generation = o.generation
              /\ Older(o).observedGeneration = o.observedGeneration
              /\ Older(o).content = o.content /\ Older(o).manager = o.manager
<1>1. CASE o = Nobody
  BY <1>1 DEF Older, Copies
<1>2. CASE o \in Sound /\ o # Nobody
  BY <1>2, VersionFields DEF Older, Copies, Sound, Version, ReadyNow, Old
<1>3. QED  BY <1>1, <1>2 DEF Copies

\* An operator's edit leaves the condition behind the generation.
LEMMA EditSound ==
  ASSUME NEW o \in Sound, NEW c \in Contents, NEW m \in {"none", "other"}
  PROVE  /\ [o EXCEPT !.content = c, !.generation = @ + 1] \in Sound
         /\ [o EXCEPT !.manager = m] \in Sound
<1>1. o \in Version /\ o.conditionGeneration <= o.generation /\ (ReadyNow(o) => o.content \notin Invalid)
  BY DEF Sound
<1>2. [o EXCEPT !.content = c, !.generation = @ + 1] \in Sound
  <2> DEFINE e == [o EXCEPT !.content = c, !.generation = @ + 1]
  <2>1. e \in Version
    <3>1. o.generation + 1 \in Nat \ {0}
      BY <1>1, VersionFields
    <3>2. QED  BY <1>1, <3>1, EditedVersion, Zenon
  <2>2. e.generation = o.generation + 1 /\ e.conditionGeneration = o.conditionGeneration
    BY <1>1 DEF Version
  <2> HIDE DEF e
  <2>3. e \in Sound
    BY <1>1, <2>1, <2>2, VersionFields DEF Sound, ReadyNow
  <2>4. QED  BY <2>3 DEF e
<1>3. [o EXCEPT !.manager = m] \in Sound
  <2> DEFINE e == [o EXCEPT !.manager = m]
  <2>1. e \in Version
    BY <1>1 DEF Version
  <2>2. /\ e.generation = o.generation /\ e.conditionGeneration = o.conditionGeneration
        /\ e.status = o.status /\ e.content = o.content
    BY <1>1 DEF Version
  <2>3. QED  BY <1>1, <2>1, <2>2, VersionFields, Zenon DEF Sound, ReadyNow
<1>4. QED  BY <1>2, <1>3

\* So does the agent's, which moves both generations on.
LEMMA UpdatedSound ==
  ASSUME NEW o \in Sound, NEW c \in Contents
  PROVE  /\ Updated(o, c) \in Sound
         /\ Updated(o, c).uid = o.uid
         /\ o.generation <= Updated(o, c).generation
         /\ o.observedGeneration <= Updated(o, c).observedGeneration
         /\ o.generation = Updated(o, c).generation => o.content = Updated(o, c).content
         /\ Updated(o, c).content = c
<1>0. o \in Version /\ o.conditionGeneration <= o.generation /\ (ReadyNow(o) => o.content \notin Invalid)
  BY DEF Sound
<1> DEFINE e == Updated(o, c)
<1>1. CASE o.content = c
  <2>1. e = [o EXCEPT !.manager = "agent"]
    BY <1>1 DEF Updated
  <2>2. e \in Version
    BY <1>0, <2>1 DEF Version
  <2>3. /\ e.uid = o.uid /\ e.generation = o.generation /\ e.content = o.content
        /\ e.observedGeneration = o.observedGeneration
        /\ e.conditionGeneration = o.conditionGeneration /\ e.status = o.status
    BY <1>0, <2>1 DEF Version
  <2>4. e \in Sound
    BY <1>0, <2>2, <2>3, VersionFields DEF Sound, ReadyNow
  <2> HIDE DEF e
  <2>5. QED  BY <1>0, <1>1, <2>3, <2>4, VersionFields DEF e
<1>2. CASE o.content # c
  <2>1. e = [o EXCEPT !.manager = "agent", !.content = c,
                      !.observedGeneration = @ + 1, !.generation = @ + 1]
    BY <1>2 DEF Updated
  <2>2. e \in Version
    <3>1. o.generation + 1 \in Nat \ {0} /\ o.observedGeneration + 1 \in Nat \ {0}
      BY <1>0, VersionFields
    <3>2. \A g, og \in Nat \ {0} :
            [o EXCEPT !.manager = "agent", !.content = c, !.observedGeneration = og,
                      !.generation = g] \in Version
      BY <1>0, UpdatedVersion, Zenon
    <3>3. [o EXCEPT !.manager = "agent", !.content = c,
                    !.observedGeneration = o.observedGeneration + 1,
                    !.generation = o.generation + 1] \in Version
      BY <3>1, <3>2, Zenon
    <3>4. QED  BY <2>1, <3>3
  <2>3. /\ e.uid = o.uid /\ e.generation = o.generation + 1 /\ e.content = c
        /\ e.observedGeneration = o.observedGeneration + 1
        /\ e.conditionGeneration = o.conditionGeneration
    BY <1>0, <2>1 DEF Version
  <2>4. e \in Sound
    BY <1>0, <2>2, <2>3, VersionFields DEF Sound, ReadyNow
  <2> HIDE DEF e
  <2>5. QED  BY <1>0, <2>3, <2>4, VersionFields DEF e
<1>3. QED  BY <1>1, <1>2

\* The controller says True of a valid graph only.
LEMMA ValidatedSound ==
  ASSUME NEW o \in Sound
  PROVE  /\ Validated(o) \in Sound
         /\ Validated(o).uid = o.uid /\ Validated(o).generation = o.generation
         /\ Validated(o).observedGeneration = o.observedGeneration
         /\ Validated(o).content = o.content
<1>1. o \in Version
  BY DEF Sound
<1> DEFINE e == Validated(o)
<1>2. Verdict(o) \in {"True", "False"} /\ (Verdict(o) = "True" => o.content \notin Invalid)
  BY DEF Verdict
<1>3. e \in Version
  <2>1. 0 \in 0..Old /\ o.generation \in Nat
    BY <1>1, VersionFields DEF Old
  <2>2. QED  BY <1>1, <1>2, <2>1, ValidatedVersion, Zenon DEF Validated
<1>4. /\ e.uid = o.uid /\ e.generation = o.generation /\ e.content = o.content
      /\ e.observedGeneration = o.observedGeneration
      /\ e.conditionGeneration = o.generation /\ e.status = Verdict(o)
  BY <1>1 DEF Validated, Version
<1>5. e \in Sound
  BY <1>1, <1>2, <1>3, <1>4, VersionFields DEF Sound, ReadyNow
<1> HIDE DEF e
<1>6. QED  BY <1>4, <1>5 DEF e

-------------------------------------------------------------------------------
(***************************************************************************)
(* The API server and the informers.                                       *)
(***************************************************************************)
\* Which processes watch the object is decided in the beginning.
LEMMA WatchersStay ==
  ASSUME Next
  PROVE  watchers' = watchers
<1>1. ASSUME NEW o, Store(o) PROVE watchers' = watchers
  BY <1>1 DEF Store
<1>2. CASE AgentStep \/ AgentError
  BY <1>1, <1>2, Zenon DEF AgentStep, AgentError, Discover, AgentGet, AgentWrite, AgentFails, api
<1>3. CASE ControllerStep \/ ControllerError
  BY <1>1, <1>3, Zenon DEF ControllerStep, ControllerError, SyncStart, SyncWrite, SyncFails, api
<1>4. CASE PublishError \/ \E w \in watchers : Follow(w) \/ Restart(w)
  BY <1>4, Zenon DEF PublishError, PublishFails, Follow, ControllerEvent, SchedulerEvent, PublisherEvent,
     Event, Restart, ControllerRestarts, SchedulerRestarts, PublisherRestarts, RestartInformer
<1>5. CASE Outside
  BY <1>1, <1>5, Zenon DEF Outside, HardwareChanges, Operator, Edit, Label, Remove, Apply
<1>6. CASE Tick
  BY <1>6 DEF Tick
<1>7. QED  BY <1>2, <1>3, <1>4, <1>5, <1>6 DEF Next

\* A write brings a copy to every watch.
LEMMA StoreType ==
  ASSUME ApiType, NEW o \in Copies, Store(o)
  PROVE  object' \in Copies /\ watch' \in [watchers -> Seq(Copies)] /\ watchers' = watchers
BY DEF ApiType, Store

LEMMA EventType ==
  ASSUME ApiType, NEW w \in watchers, Event(w)
  PROVE  ApiType' /\ UNCHANGED object
<1>1. CASE Deliver(w)
  <2>1. Head(watch[w]) \in Copies /\ Tail(watch[w]) \in Seq(Copies)
    BY <1>1 DEF Deliver, ApiType
  <2>2. QED  BY <1>1, <2>1 DEF Event, Deliver, ApiType
<1>2. CASE Relist(w)
  <2>1. <<>> \in Seq(Copies)
    OBVIOUS
  <2>2. QED  BY <1>2, <2>1 DEF Event, Relist, ApiType
<1>3. CASE Resync(w)
  BY <1>3 DEF Event, Resync, ApiType
<1>4. QED  BY <1>1, <1>2, <1>3 DEF Event

LEMMA RestartType ==
  ASSUME ApiType, NEW w \in watchers, RestartInformer(w)
  PROVE  ApiType' /\ UNCHANGED object
<1>1. <<>> \in Seq(Copies) /\ <<object>> \in Seq(Copies)
  BY DEF ApiType
<1>2. QED  BY <1>1, Zenon DEF RestartInformer, ApiType, Copies

LEMMA OperatorType ==
  ASSUME ApiType, Operator
  PROVE  ApiType'
<1>1. changes' \in 0..MaxChanges /\ changes' \in Nat /\ changes \in Nat /\ view' = view
  <2>1. Change /\ view' = view
    BY Zenon DEF Operator, Edit, Label, Remove, Apply
  <2>2. QED  BY <2>1 DEF ApiType, Change
<1>2. PICK o \in Copies : Store(o)
  <2>1. ASSUME NEW c \in Contents, Edit(c) PROVE \E o \in Copies : Store(o)
    BY <2>1, EditSound, Zenon DEF Edit, ApiType, Copies
  <2>2. ASSUME NEW c \in Contents, Apply(c) PROVE \E o \in Copies : Store(o)
    BY <1>1, <2>2, NewVersionSound DEF Apply, Copies
  <2>3. ASSUME NEW m \in {"none", "other"}, Label(m) PROVE \E o \in Copies : Store(o)
    <3>1. object \in Sound /\ Store([object EXCEPT !.manager = m])
      BY <2>3 DEF Label, ApiType, Copies
    <3>2. PICK c \in Contents : TRUE
      BY <3>1, VersionFields DEF Sound
    <3>3. QED  BY <3>1, <3>2, EditSound, Zenon DEF Copies
  <2>4. CASE Remove
    BY <2>4 DEF Remove, Copies
  <2>5. QED  BY <2>1, <2>2, <2>3, <2>4 DEF Operator
<1>3. QED  BY <1>1, <1>2, StoreType DEF ApiType

-------------------------------------------------------------------------------
(***************************************************************************)
(* The writers.                                                            *)
(***************************************************************************)
LEMMA AgentStepInv ==
  ASSUME PipelineInv, AgentStep \/ AgentError
  PROVE  PipelineInv'
<1> USE DEF PipelineInv
<1>0. watchers' = watchers
  BY WatchersStay, Zenon DEF Next
<1> USE <1>0
<1>1. ControllerType' /\ ConsumerType'
  BY DEF AgentStep, AgentError, controller, ControllerType, ConsumerType
<1>2. CASE Discover
  BY <1>1, <1>2, Zenon DEF Discover, api, ApiType, AgentType, AgentIdle, Copies
<1>3. CASE AgentGet
  BY <1>1, <1>3, Zenon DEF AgentGet, api, ApiType, AgentType, AgentIdle, Copies
<1>4. CASE AgentWrite
  <2>1. changes' = changes /\ view' = view /\ hardware' = hardware /\ agent.step = "write"
    BY <1>4 DEF AgentWrite
  <2>2. CASE object = agent.base
    <3>1. agent' = AgentIdle
      BY <1>4, <2>2 DEF AgentWrite
    <3>2. PICK o \in Copies : Store(o)
      <4>1. agent.discovered \in Contents /\ changes \in Nat
        BY <2>1 DEF AgentType, ApiType
      <4>2. CASE object = Nobody
        BY <1>4, <2>2, <4>1, <4>2, NewVersionSound DEF AgentWrite, Copies
      <4>3. CASE object # Nobody
        BY <1>4, <2>2, <4>1, <4>3, UpdatedSound DEF AgentWrite, ApiType, Copies
      <4>4. QED  BY <4>2, <4>3
    <3>3. QED  BY <1>1, <2>1, <3>1, <3>2, StoreType DEF ApiType, AgentType, AgentIdle, Copies
  <2>3. CASE object # agent.base
    <3>1. ApiType'
      BY <1>4, <2>1, <2>3 DEF AgentWrite, ApiType
    <3>2. CASE agent' = AgentIdle
      BY <1>1, <2>1, <3>1, <3>2 DEF AgentType, AgentIdle, Copies
    <3>3. CASE agent' = [agent EXCEPT !.step = "get"]
      BY <1>1, <2>1, <3>1, <3>3 DEF AgentType
    <3>4. QED  BY <1>4, <2>3, <3>2, <3>3 DEF AgentWrite
  <2>4. QED  BY <2>2, <2>3
<1>5. CASE AgentError
  BY <1>1, <1>5 DEF AgentError, AgentFails, api, ApiType, AgentType, AgentIdle, Copies
<1>6. QED  BY <1>2, <1>3, <1>4, <1>5 DEF AgentStep

LEMMA ControllerStepInv ==
  ASSUME PipelineInv, ControllerStep \/ ControllerError
  PROVE  PipelineInv'
<1> USE DEF PipelineInv
<1>0. watchers' = watchers
  BY WatchersStay, Zenon DEF Next
<1> USE <1>0
<1>1. AgentType' /\ ConsumerType'
  BY DEF ControllerStep, ControllerError, AgentType, ConsumerType
<1>2. CASE SyncStart
  <2> DEFINE o == view["controller"]
  <2>1. o \in Copies /\ queued' = FALSE /\ ApiType' /\ "controller" \in watchers
    BY <1>2 DEF SyncStart, ApiType, ControllerType, api
  <2>2. CASE syncing' = NotSyncing
    BY <1>1, <2>1, <2>2, Zenon DEF ControllerType, NotSyncing, Copies
  <2>3. CASE o # Nobody /\ syncing' = [base |-> o, updated |-> Validated(o)]
    <3>1. o \in Sound
      BY <2>1, <2>3 DEF Copies
    <3>2. Validated(o) \in Sound /\ Validated(o) # Nobody
      BY <3>1, ValidatedSound DEF Sound
    <3>3. QED  BY <1>1, <2>1, <2>3, <3>1, <3>2, ValidatedSound, Zenon DEF ControllerType, Copies
  <2>4. QED  BY <1>2, <2>2, <2>3 DEF SyncStart
<1>3. CASE SyncWrite
  <2>1. ControllerType' /\ changes' = changes /\ view' = view
    BY <1>3, Zenon DEF SyncWrite, ControllerType, NotSyncing, Copies
  <2>2. CASE object = syncing.base
    BY <1>1, <1>3, <2>1, <2>2, StoreType DEF SyncWrite, ControllerType, ApiType
  <2>3. CASE object # syncing.base
    BY <1>1, <1>3, <2>1, <2>3 DEF SyncWrite, ApiType
  <2>4. QED  BY <2>2, <2>3
<1>4. CASE ControllerError
  BY <1>1, <1>4 DEF ControllerError, SyncFails, api, ApiType, ControllerType, NotSyncing, Copies
<1>5. QED  BY <1>2, <1>3, <1>4 DEF ControllerStep

-------------------------------------------------------------------------------
(***************************************************************************)
(* The informers' processes.                                               *)
(***************************************************************************)
LEMMA FollowInv ==
  ASSUME PipelineInv, NEW w \in watchers, Follow(w)
  PROVE  PipelineInv'
<1> USE DEF PipelineInv
<1>0. watchers' = watchers
  BY WatchersStay, Zenon DEF Next
<1> USE <1>0
<1>1. ApiType'
  BY EventType DEF Follow, ControllerEvent, SchedulerEvent, PublisherEvent
<1>2. CASE w = "controller" /\ ControllerEvent /\ UNCHANGED <<hardware, agent, cache, published>>
  BY <1>1, <1>2 DEF ControllerEvent, AgentType, ControllerType, ConsumerType
<1>3. CASE w = "scheduler" /\ SchedulerEvent /\ UNCHANGED <<hardware, agent, controller, published>>
  <2>1. AgentType' /\ ControllerType'
    BY <1>3 DEF controller, AgentType, ControllerType
  <2>2. view'["scheduler"] \in Copies
    BY <1>1, <1>3 DEF ApiType
  <2>3. cache' \in Copies /\ (cache' # Nobody => cache'.content \notin Invalid)
    BY <1>3, <2>2 DEF SchedulerEvent, Upsert, Delete, ConsumerType, Copies
  <2>4. QED  BY <1>1, <1>3, <2>1, <2>3 DEF ConsumerType
<1>4. CASE w = "publisher" /\ PublisherEvent /\ UNCHANGED <<hardware, agent, controller, cache>>
  <2>1. AgentType' /\ ControllerType'
    BY <1>4 DEF controller, AgentType, ControllerType
  <2>2. view'["publisher"] \in Copies
    BY <1>1, <1>4 DEF ApiType
  <2>3. published' \in (Contents \ Invalid) \cup {Nobody}
    <3>1. CASE view'["publisher"] = Nobody
      BY <1>4, <3>1 DEF PublisherEvent, Publication, ConsumerType
    <3>2. CASE view'["publisher"] # Nobody
      <4>1. view'["publisher"].content \in Contents
        BY <2>2, <3>2, VersionFields DEF Copies, Sound
      <4>2. QED  BY <1>4, <3>2, <4>1 DEF PublisherEvent, Publication, publishObject, ConsumerType
    <3>3. QED  BY <3>1, <3>2
  <2>4. QED  BY <1>1, <1>4, <2>1, <2>3 DEF ConsumerType
<1>5. QED  BY <1>2, <1>3, <1>4 DEF Follow

LEMMA RestartInv ==
  ASSUME PipelineInv, NEW w \in watchers, Restart(w) \/ PublishError
  PROVE  PipelineInv'
<1> USE DEF PipelineInv
<1>0. watchers' = watchers
  BY WatchersStay, Zenon DEF Next
<1> USE <1>0
<1>1. ApiType'
  BY RestartType, EventType DEF Restart, ControllerRestarts, SchedulerRestarts, PublisherRestarts,
     PublishError, PublishFails
<1>2. AgentType'
  BY DEF Restart, PublishError, AgentType
<1>3. ControllerType'
  <2>1. CASE ControllerRestarts
    BY <2>1, Zenon DEF ControllerRestarts, ControllerType, NotSyncing, Copies
  <2>2. CASE UNCHANGED controller
    BY <2>2 DEF controller, ControllerType
  <2>3. QED  BY <2>1, <2>2 DEF Restart, PublishError
<1>4. ConsumerType'
  BY DEF Restart, PublishError, PublishFails, SchedulerRestarts, PublisherRestarts, ConsumerType, Copies
<1>5. QED  BY <1>1, <1>2, <1>3, <1>4

-------------------------------------------------------------------------------
(***************************************************************************)
(* Changes from outside, and time.                                         *)
(***************************************************************************)
LEMMA OutsideInv ==
  ASSUME PipelineInv, Outside
  PROVE  PipelineInv'
<1> USE DEF PipelineInv
<1>0. watchers' = watchers
  BY WatchersStay, Zenon DEF Next
<1> USE <1>0
<1>1. ControllerType' /\ ConsumerType'
  BY DEF Outside, controller, ControllerType, ConsumerType
<1>2. CASE Operator /\ UNCHANGED <<hardware, agent>>
  BY <1>1, <1>2, OperatorType DEF AgentType
<1>3. ASSUME NEW content \in Contents, HardwareChanges(content) PROVE PipelineInv'
  <2>1. changes' \in 0..MaxChanges
    BY <1>3 DEF HardwareChanges, Change, ApiType
  <2>2. QED  BY <1>1, <1>3, <2>1 DEF HardwareChanges, ApiType, AgentType
<1>4. QED  BY <1>2, <1>3 DEF Outside

LEMMA TickInv ==
  ASSUME PipelineInv, Tick
  PROVE  PipelineInv'
<1> USE DEF PipelineInv
<1>0. watchers' = watchers
  BY WatchersStay, Zenon DEF Next
<1> USE <1>0
<1>1. ApiType'
  <2>1. ASSUME NEW w \in watchers
        PROVE  [i \in 1..Len(watch[w]) |-> Older(watch[w][i])] \in Seq(Copies)
    <3>1. watch[w] \in Seq(Copies) /\ Len(watch[w]) \in Nat
      BY DEF ApiType
    <3>2. \A i \in 1..Len(watch[w]) : Older(watch[w][i]) \in Copies
      BY <3>1, OlderSound
    <3>3. QED  BY <3>1, <3>2, IsASeq
  <2>2. object' \in Copies /\ view' \in [watchers -> Copies]
    BY OlderSound DEF Tick, ApiType
  <2>3. QED  BY <2>1, <2>2 DEF Tick, ApiType
<1>2. AgentType'
  <2>1. agent.base \in Copies /\ agent' = [agent EXCEPT !.base = Older(agent.base)] /\ hardware' = hardware
    BY DEF Tick, AgentType
  <2>2. /\ Older(agent.base) \in Copies
        /\ Older(agent.base) # Nobody =>
             /\ agent.base # Nobody /\ Older(agent.base).manager = agent.base.manager
             /\ Older(agent.base).content = agent.base.content
    BY <2>1, OlderSound
  <2>3. QED  BY <2>1, <2>2 DEF AgentType, validateOwnership
<1>3. ControllerType'
  <2>1. /\ syncing.base \in Copies /\ syncing.updated \in Copies /\ queued' = queued
        /\ syncing' = [base |-> Older(syncing.base), updated |-> Older(syncing.updated)]
    BY DEF Tick, ControllerType
  <2>2. CASE syncing = NotSyncing
    BY <2>1, <2>2, OlderSound DEF ControllerType, NotSyncing
  <2>3. CASE syncing # NotSyncing
    BY <2>1, <2>3, OlderSound DEF ControllerType
  <2>4. QED  BY <2>2, <2>3
<1>4. ConsumerType'
  BY OlderSound DEF Tick, ConsumerType
<1>5. QED  BY <1>1, <1>2, <1>3, <1>4

LEMMA InitInv == Init => PipelineInv
<1> SUFFICES ASSUME Init PROVE PipelineInv
  OBVIOUS
<1>1. ApiType
  BY DEF Init, ApiType, Copies
<1>2. AgentType /\ ControllerType /\ ConsumerType
  BY Zenon DEF Init, AgentType, AgentIdle, ControllerType, NotSyncing, ConsumerType, Copies
<1>3. QED  BY <1>1, <1>2 DEF PipelineInv

LEMMA NextInv == PipelineInv /\ [Next]_vars => PipelineInv'
<1> SUFFICES ASSUME PipelineInv, [Next]_vars PROVE PipelineInv'
  OBVIOUS
<1>1. CASE UNCHANGED vars
  BY <1>1 DEF vars, PipelineInv, ApiType, AgentType, ControllerType, ConsumerType
<1>2. CASE PublishError
  BY <1>2, RestartInv DEF PublishError
<1>3. QED
  BY <1>1, <1>2, AgentStepInv, ControllerStepInv, FollowInv, RestartInv, OutsideInv, TickInv DEF Next

\* Every copy of the object in the system is a sound version, and the writers
\* and consumers hold what follows from it.
THEOREM PipelineCorrect == Spec => []PipelineInv
BY InitInv, NextInv, PTL DEF Spec

-------------------------------------------------------------------------------
(***************************************************************************)
(* The properties.                                                         *)
(***************************************************************************)
LEMMA VersionsAreCopies == PipelineInv => Versions \subseteq Copies
<1> SUFFICES ASSUME PipelineInv PROVE Versions \subseteq Copies
  OBVIOUS
<1>1. {object, cache, syncing.base, syncing.updated, agent.base} \subseteq Copies
  BY DEF PipelineInv, ApiType, AgentType, ControllerType, ConsumerType
<1>2. {view[w] : w \in watchers} \subseteq Copies
  BY DEF PipelineInv, ApiType
<1>3. ASSUME NEW w \in watchers PROVE {watch[w][i] : i \in 1..Len(watch[w])} \subseteq Copies
  <2>1. watch[w] \in Seq(Copies)
    BY DEF PipelineInv, ApiType
  <2>2. \A i \in 1..Len(watch[w]) : watch[w][i] \in Copies
    BY <2>1
  <2>3. QED  BY <2>2
<1>4. QED  BY <1>1, <1>2, <1>3 DEF Versions

\* The pipeline's state has its type in every reachable state.
THEOREM PipelineTyped == Spec => []PipelineType
<1>1. PipelineInv => PipelineType
  <2> SUFFICES ASSUME PipelineInv PROVE PipelineType
    OBVIOUS
  <2>1. Versions \subseteq Version \cup {Nobody}
    BY VersionsAreCopies DEF Copies, Sound
  <2>2. QED
    BY <2>1 DEF PipelineInv, ApiType, AgentType, ControllerType, ConsumerType, PipelineType
<1>2. QED  BY <1>1, PipelineCorrect, PTL

\* A Ready condition that observes the current generation stands for a valid
\* graph, in the API server and in every copy.
THEOREM ReadyValidated == Spec => []ReadyIsValidated
<1>1. PipelineInv => ReadyIsValidated
  BY VersionsAreCopies DEF ReadyIsValidated, Copies, Sound
<1>2. QED  BY <1>1, PipelineCorrect, PTL

\* The agent replaces the content of an object only while the object carries
\* its label, although it decides on a version that it read earlier.
THEOREM AgentNeverTakesOver == Spec => NoTakeover
<1>1. ASSUME PipelineInv, [Next]_vars
      PROVE  [AgentStep /\ object # Nobody /\ object'.content # object.content
                => object.manager = "agent"]_vars
  <2> SUFFICES ASSUME AgentStep, object # Nobody, object'.content # object.content
               PROVE  object.manager = "agent"
    OBVIOUS
  <2>1. AgentWrite /\ object = agent.base
    BY DEF AgentStep, Discover, AgentGet, AgentWrite, api
  <2>2. agent.step = "write" /\ agent.discovered \in Contents /\ object \in Sound
    BY <1>1, <2>1 DEF AgentWrite, PipelineInv, ApiType, AgentType, Copies
  <2>3. object' = Updated(object, agent.discovered)
    BY <2>1 DEF AgentWrite, Store
  <2>4. object.content # agent.discovered
    BY <2>2, <2>3, UpdatedSound
  <2>5. QED  BY <1>1, <2>1, <2>2, <2>4 DEF PipelineInv, AgentType, validateOwnership
<1>2. QED  BY <1>1, PipelineCorrect, PTL DEF Spec, NoTakeover

\* What a step does to the generations of the object, within one incarnation.
Advances ==
  object # Nobody /\ object' # Nobody /\ object.uid = object'.uid =>
    /\ object.generation <= object'.generation
    /\ object.observedGeneration <= object'.observedGeneration
    /\ object.generation = object'.generation => object.content = object'.content

\* Within one incarnation the generations never go back, and the content changes
\* with the generation only.
THEOREM GenerationsNeverGoBack == Spec => GenerationsAdvance
<1>1. ASSUME PipelineInv, [Next]_vars PROVE [Advances]_vars
  <2> SUFFICES ASSUME Next, object # Nobody, object' # Nobody PROVE Advances
    BY <1>1 DEF Advances
  <2> USE <1>1 DEF PipelineInv
  <2>0. object \in Sound /\ object \in Version
    BY DEF ApiType, Copies, Sound
  <2>1. CASE object' = object
    BY <2>0, <2>1, VersionFields DEF Advances
  <2>2. CASE AgentStep /\ object' # object
    <3>1. AgentWrite /\ object = agent.base /\ object' = Updated(object, agent.discovered)
      BY <2>2 DEF AgentStep, Discover, AgentGet, AgentWrite, Store, api
    <3>2. agent.discovered \in Contents
      BY <3>1 DEF AgentWrite, AgentType
    <3>3. QED  BY <2>0, <3>1, <3>2, UpdatedSound DEF Advances
  <2>3. CASE ControllerStep /\ object' # object
    <3>1. syncing # NotSyncing /\ object = syncing.base /\ object' = syncing.updated
      BY <2>3 DEF ControllerStep, SyncStart, SyncWrite, Store, api
    <3>2. QED  BY <2>0, <3>1, VersionFields DEF ControllerType, Advances
  <2>4. CASE Operator
    <3>1. ASSUME NEW c \in Contents, Edit(c) PROVE Advances
      <4>1. object' = [object EXCEPT !.content = c, !.generation = @ + 1]
        BY <3>1 DEF Edit, Store
      <4>2. /\ object'.generation = object.generation + 1
            /\ object'.observedGeneration = object.observedGeneration
        BY <2>0, <4>1 DEF Version
      <4>3. QED  BY <2>0, <4>2, VersionFields DEF Advances
    <3>2. ASSUME NEW m \in {"none", "other"}, Label(m) PROVE Advances
      <4>1. object' = [object EXCEPT !.manager = m]
        BY <3>2 DEF Label, Store
      <4>2. /\ object'.generation = object.generation /\ object'.content = object.content
            /\ object'.observedGeneration = object.observedGeneration
        BY <2>0, <4>1 DEF Version
      <4>3. QED  BY <2>0, <4>2, VersionFields DEF Advances
    <3>3. QED  BY <2>4, <3>1, <3>2, Zenon DEF Operator, Apply, Remove, Store
  <2>5. CASE Tick
    BY <2>0, <2>5, OlderSound, VersionFields DEF Tick, Advances, Copies
  <2>6. AgentError \/ ControllerError \/ PublishError \/ (\E w \in watchers : Follow(w) \/ Restart(w))
          => object' = object
    BY DEF AgentError, AgentFails, ControllerError, SyncFails, PublishError, PublishFails, Follow,
       ControllerEvent, SchedulerEvent, PublisherEvent, Event, Restart, ControllerRestarts,
       SchedulerRestarts, PublisherRestarts, RestartInformer, api
  <2>7. Outside => Operator \/ object' = object
    BY DEF Outside, HardwareChanges
  <2>8. QED  BY <2>1, <2>2, <2>3, <2>4, <2>5, <2>6, <2>7 DEF Next
<1>2. QED  BY <1>1, PipelineCorrect, PTL DEF Spec, GenerationsAdvance, Advances

-------------------------------------------------------------------------------
(***************************************************************************)
(* No version is refused within an incarnation.  Along the way from the    *)
(* cache over the scheduler's view and the watch to the stored object,     *)
(* versions of one incarnation are in the order of their generations.  A   *)
(* deletion leaves every uid in use below changes, so that the uid of the  *)
(* next incarnation is a new one.                                          *)
(***************************************************************************)
NotAhead(a, b) ==
  a # Nobody /\ b # Nobody /\ a.uid = b.uid =>
    a.generation <= b.generation /\ a.observedGeneration <= b.observedGeneration

\* A version that was stored at some time.
Past(x) ==
  /\ NotAhead(x, object)
  /\ x # Nobody => x.uid <= changes /\ (object = Nobody => x.uid < changes)

InOrder ==
  LET s == "scheduler" IN
  /\ Past(object) /\ Past(cache) /\ Past(view[s]) /\ NotAhead(cache, view[s])
  /\ \A i \in 1..Len(watch[s]) :
       /\ Past(watch[s][i]) /\ NotAhead(cache, watch[s][i]) /\ NotAhead(view[s], watch[s][i])
       /\ \A j \in 1..Len(watch[s]) : i < j => NotAhead(watch[s][i], watch[s][j])

OrderInv == IF "scheduler" \in watchers THEN InOrder ELSE cache = Nobody

\* What a write stores: a later version of the object, a new incarnation of it,
\* or its deletion.
Successor(o) ==
  /\ o \in Copies /\ changes \in Nat /\ changes' \in Nat /\ changes <= changes'
  /\ o = Nobody => changes < changes'
  /\ o # Nobody /\ object = Nobody => changes <= o.uid /\ o.uid <= changes'
  /\ o # Nobody /\ object # Nobody =>
       /\ o.uid = object.uid /\ object.generation <= o.generation
       /\ object.observedGeneration <= o.observedGeneration

LEMMA NotAheadSelf ==
  ASSUME NEW o \in Copies
  PROVE  NotAhead(o, o)
BY VersionFields DEF NotAhead, Copies, Sound

\* Every version of the past is behind what a write stores.
LEMMA PastStore ==
  ASSUME NEW x \in Copies, object \in Copies, Past(x), NEW o \in Copies, Successor(o), object' = o
  PROVE  NotAhead(x, o) /\ Past(x)'
<1>1. x # Nobody => x.uid \in Nat /\ x.generation \in Nat /\ x.observedGeneration \in Nat
  BY VersionFields DEF Copies, Sound
<1>2. object # Nobody => object.uid \in Nat /\ object.generation \in Nat /\ object.observedGeneration \in Nat
  BY VersionFields DEF Copies, Sound
<1>3. o # Nobody => o.uid \in Nat /\ o.generation \in Nat /\ o.observedGeneration \in Nat
  BY VersionFields DEF Copies, Sound
<1>4. NotAhead(x, o)
  BY <1>1, <1>2, <1>3 DEF NotAhead, Past, Successor
<1>5. Past(x)'
  BY <1>1, <1>3, <1>4 DEF Past, NotAhead, Successor
<1>6. QED  BY <1>4, <1>5

\* What is stored becomes part of the past.
LEMMA StoredPast ==
  ASSUME object \in Copies, Past(object), NEW o \in Copies, Successor(o), object' = o
  PROVE  Past(object)'
<1>1. NotAhead(o, o)
  BY NotAheadSelf
<1>2. o # Nobody => o.uid \in Nat /\ o.uid <= changes'
  BY VersionFields DEF Copies, Sound, Past, Successor
<1>3. QED  BY <1>1, <1>2 DEF Past, NotAhead

LEMMA StoreInOrder ==
  ASSUME PipelineInv, "scheduler" \in watchers, InOrder,
         NEW o \in Copies, Store(o), Successor(o), UNCHANGED <<view, cache>>
  PROVE  InOrder'
<1> DEFINE s == "scheduler"
<1>0. ApiType /\ ConsumerType
  BY DEF PipelineInv
<1>1. object' = o /\ watch'[s] = Append(watch[s], o) /\ watch[s] \in Seq(Copies)
  BY <1>0 DEF Store, ApiType
<1>2. object \in Copies /\ cache \in Copies /\ view[s] \in Copies
  BY <1>0 DEF ApiType, ConsumerType
<1>3. Past(object)' /\ Past(cache)' /\ Past(view[s])' /\ NotAhead(cache, o) /\ NotAhead(view[s], o)
  BY <1>1, <1>2, PastStore, StoredPast DEF InOrder
<1>4. ASSUME NEW i \in 1..Len(watch[s])
      PROVE  /\ watch'[s][i] = watch[s][i] /\ Past(watch[s][i])' /\ NotAhead(watch[s][i], o)
  <2>1. watch[s][i] \in Copies /\ Past(watch[s][i])
    BY <1>1 DEF InOrder
  <2>2. QED  BY <1>1, <1>2, <2>1, PastStore
<1>5. Len(watch'[s]) = Len(watch[s]) + 1 /\ watch'[s][Len(watch[s]) + 1] = o /\ Len(watch[s]) \in Nat
  BY <1>1
<1>6. PICK q : q = watch'[s]
  OBVIOUS
<1>7. ASSUME NEW i \in 1..Len(q)
      PROVE  Past(q[i])' /\ NotAhead(cache, q[i]) /\ NotAhead(view[s], q[i])
  <2>1. CASE i \in 1..Len(watch[s])
    BY <1>4, <1>6, <2>1 DEF InOrder
  <2>2. CASE i = Len(watch[s]) + 1
    <3>1. Past(o)'
      BY <1>1, <1>3
    <3>2. QED  BY <1>3, <1>5, <1>6, <2>2, <3>1
  <2>3. QED  BY <1>5, <1>6, <2>1, <2>2
<1>8. ASSUME NEW i \in 1..Len(q), NEW j \in 1..Len(q), i < j PROVE NotAhead(q[i], q[j])
  <2>1. i \in 1..Len(watch[s])
    BY <1>5, <1>6, <1>8
  <2>2. CASE j \in 1..Len(watch[s])
    BY <1>4, <1>6, <1>8, <2>1, <2>2 DEF InOrder
  <2>3. CASE j = Len(watch[s]) + 1
    BY <1>4, <1>5, <1>6, <2>1, <2>3
  <2>4. QED  BY <1>5, <1>6, <2>2, <2>3
<1>9. QED  BY <1>1, <1>3, <1>6, <1>7, <1>8, SMTT(30) DEF InOrder

\* A step that stores nothing and does not involve the scheduler.
LEMMA AsideInOrder ==
  ASSUME PipelineInv, "scheduler" \in watchers, InOrder, UNCHANGED <<object, cache>>,
         watch'["scheduler"] = watch["scheduler"], view'["scheduler"] = view["scheduler"],
         changes' \in Nat, changes <= changes'
  PROVE  InOrder'
<1> DEFINE s == "scheduler"
<1> USE DEF PipelineInv
<1>1. ASSUME NEW x \in Copies, Past(x) PROVE Past(x)'
  BY <1>1, VersionFields DEF Past, NotAhead, Copies, Sound, ApiType
<1>2. watch[s] \in Seq(Copies) /\ object \in Copies /\ cache \in Copies /\ view[s] \in Copies
  BY DEF ApiType, ConsumerType
<1>3. Past(object)' /\ Past(cache)' /\ Past(view[s])' /\ NotAhead(cache, view[s])
  BY <1>1, <1>2 DEF InOrder
<1>4. ASSUME NEW i \in 1..Len(watch[s]) PROVE Past(watch[s][i])'
  BY <1>1, <1>2 DEF InOrder
<1>5. QED  BY <1>3, <1>4 DEF InOrder

\* Upsert keeps the cache or takes the version that the informer brought.
LEMMA SchedulerInOrder ==
  ASSUME PipelineInv, "scheduler" \in watchers, InOrder, SchedulerEvent
  PROVE  InOrder'
<1> DEFINE s == "scheduler"
<1> USE DEF PipelineInv
<1>1. /\ watch[s] \in Seq(Copies) /\ object \in Copies /\ cache \in Copies /\ view[s] \in Copies
      /\ UNCHANGED <<object, changes>>
  BY DEF SchedulerEvent, Event, ApiType, ConsumerType
<1>2. PICK v : v = view'[s]
  OBVIOUS
<1>3. PICK q : q = watch'[s]
  OBVIOUS
<1>4. /\ v \in Copies /\ Past(v) /\ NotAhead(cache, v)
      /\ \A i \in 1..Len(q) :
           /\ Past(q[i]) /\ NotAhead(cache, q[i]) /\ NotAhead(v, q[i])
           /\ \A j \in 1..Len(q) : i < j => NotAhead(q[i], q[j])
  <2>1. CASE Deliver(s)
    <3>1. watch[s] # <<>> /\ v = Head(watch[s]) /\ q = Tail(watch[s])
      BY <1>2, <1>3, <2>1 DEF Deliver, ApiType
    <3>2. /\ Len(watch[s]) \in Nat \ {0} /\ v = watch[s][1] /\ Len(q) = Len(watch[s]) - 1
          /\ \A i \in 1..Len(q) :
               q[i] = watch[s][i + 1] /\ i + 1 \in 1..Len(watch[s]) /\ 1 < i + 1
      BY <1>1, <3>1
    <3>3. 1 \in 1..Len(watch[s]) /\ v \in Copies
      BY <1>1, <3>2
    <3>4. Past(v) /\ NotAhead(cache, v)
      BY <3>2, <3>3 DEF InOrder
    <3>5. ASSUME NEW i \in 1..Len(q)
          PROVE  Past(q[i]) /\ NotAhead(cache, q[i]) /\ NotAhead(v, q[i])
      BY <3>2, <3>3 DEF InOrder
    <3>6. ASSUME NEW i \in 1..Len(q), NEW j \in 1..Len(q), i < j
          PROVE  NotAhead(q[i], q[j])
      <4>1. i + 1 < j + 1
        BY <3>2, <3>6
      <4>2. QED  BY <3>2, <4>1, Zenon DEF InOrder
    <3>7. QED  BY <3>3, <3>4, <3>5, <3>6
  <2>2. CASE Relist(s)
    <3>1. v = object /\ q = <<>>
      BY <1>2, <1>3, <2>2 DEF Relist, ApiType
    <3>2. QED  BY <1>1, <3>1 DEF InOrder, Past
  <2>3. CASE Resync(s)
    <3>1. v = view[s] /\ q = watch[s]
      BY <1>2, <1>3, <2>3 DEF Resync
    <3>2. QED  BY <1>1, <3>1 DEF InOrder
  <2>4. QED  BY <2>1, <2>2, <2>3 DEF SchedulerEvent, Event
<1>5. cache' \in {cache, v, Nobody}
  BY <1>2 DEF SchedulerEvent, Upsert, Delete
<1>6. NotAhead(v, v) /\ \A x : NotAhead(Nobody, x) /\ (Past(x) => Past(x)') /\ Past(Nobody)'
  BY <1>1, <1>4, NotAheadSelf DEF NotAhead, Past
<1>7. PICK c : c = cache'
  OBVIOUS
<1>8. Past(object)' /\ Past(c)' /\ Past(v)' /\ NotAhead(c, v)
  <2>1. c \in {cache, v, Nobody} /\ Past(object) /\ Past(cache)
    BY <1>5, <1>7 DEF InOrder
  <2>2. Past(object)' /\ Past(v)'
    BY <1>1, <1>4, <1>6, <2>1 DEF Past
  <2>3. Past(c) \/ c = Nobody
    BY <1>4, <2>1
  <2>4. QED  BY <1>4, <1>6, <2>1, <2>2, <2>3
<1>9. ASSUME NEW i \in 1..Len(q)
      PROVE  Past(q[i])' /\ NotAhead(c, q[i]) /\ NotAhead(v, q[i])
  BY <1>4, <1>5, <1>6, <1>7
<1>10. QED  BY <1>2, <1>3, <1>4, <1>7, <1>8, <1>9 DEF InOrder

\* A scheduler that restarts has nothing in its cache and lists the object.
LEMMA SchedulerRestartInOrder ==
  ASSUME PipelineInv, "scheduler" \in watchers, InOrder, SchedulerRestarts
  PROVE  InOrder'
<1> DEFINE s == "scheduler"
<1>1. /\ view'[s] = Nobody /\ cache' = Nobody /\ UNCHANGED <<object, changes>>
      /\ watch'[s] = <<>> \/ watch'[s] = <<object>>
  BY DEF SchedulerRestarts, RestartInformer, PipelineInv, ApiType
<1>2. Past(object)' /\ \A x : NotAhead(Nobody, x) /\ Past(Nobody)'
  BY <1>1 DEF InOrder, Past, NotAhead
<1>3. PICK q : q = watch'[s]
  OBVIOUS
<1>4. Past(cache)' /\ Past(view[s])' /\ NotAhead(cache', view'[s])
  BY <1>1, <1>2
<1>5. ASSUME NEW i \in 1..Len(q)
      PROVE  /\ Past(q[i])' /\ NotAhead(cache', q[i]) /\ NotAhead(view'[s], q[i])
             /\ \A j \in 1..Len(q) : ~(i < j)
  <2>1. Len(q) = 1 /\ q[1] = object
    <3>1. CASE q = <<>>
      BY <3>1
    <3>2. CASE q = <<object>>
      BY <3>2
    <3>3. QED  BY <1>1, <1>3, <3>1, <3>2
  <2>2. i = 1 /\ Past(object)'
    BY <1>2, <2>1
  <2>3. Past(q[i])'
    BY <1>1, <2>1, <2>2
  <2>4. QED  BY <1>1, <1>2, <2>1, <2>2, <2>3
<1>6. QED  BY <1>2, <1>3, <1>4, <1>5, SMTT(30) DEF InOrder

\* Ageing does not touch what the order compares.
LEMMA TickInOrder ==
  ASSUME PipelineInv, "scheduler" \in watchers, InOrder, Tick
  PROVE  InOrder'
<1> DEFINE s == "scheduler"
<1>0. ApiType /\ ConsumerType
  BY DEF PipelineInv
<1>1. /\ watch[s] \in Seq(Copies) /\ object \in Copies /\ cache \in Copies /\ view[s] \in Copies
      /\ object' = Older(object) /\ cache' = Older(cache) /\ view'[s] = Older(view[s])
      /\ watch'[s] = [i \in 1..Len(watch[s]) |-> Older(watch[s][i])] /\ changes' = changes
  BY <1>0, SMTT(30) DEF Tick, ApiType, ConsumerType
<1>2. Len(watch'[s]) = Len(watch[s]) /\ \A i \in 1..Len(watch[s]) : watch'[s][i] = Older(watch[s][i])
  <2>1. PICK q, n, f : q = watch'[s] /\ n = Len(watch[s]) /\ f = [i \in 1..n |-> Older(watch[s][i])]
    BY Zenon
  <2>2. n \in Nat /\ q = f
    BY <1>1, <2>1
  <2>3. Len(f) = n
    BY <2>1, <2>2
  <2>4. \A i \in 1..n : f[i] = Older(watch[s][i])
    BY <2>1, Zenon
  <2>5. QED  BY <2>1, <2>2, <2>3, <2>4, Zenon
<1>3. ASSUME NEW a \in Copies, NEW b \in Copies, NotAhead(a, b) PROVE NotAhead(Older(a), Older(b))
  BY <1>3, OlderSound DEF NotAhead
<1>4. ASSUME NEW x \in Copies, NEW y, y = Older(x), Past(x) PROVE Past(y)'
  <2>1. NotAhead(y, Older(object))
    BY <1>1, <1>3, <1>4 DEF Past
  <2>2. y # Nobody => y.uid = x.uid /\ x # Nobody
    BY <1>4, OlderSound
  <2>3. Older(object) = Nobody => object = Nobody
    BY <1>1, OlderSound
  <2>4. QED  BY <1>1, <1>4, <2>1, <2>2, <2>3 DEF Past
<1>5. PICK c, v, o : c = Older(cache) /\ v = Older(view[s]) /\ o = Older(object)
  OBVIOUS
<1>6. Past(o)' /\ Past(c)' /\ Past(v)' /\ NotAhead(c, v)
  BY <1>1, <1>3, <1>4, <1>5 DEF InOrder
<1>7. ASSUME NEW i \in 1..Len(watch[s]), NEW x, x = Older(watch[s][i])
      PROVE  Past(x)' /\ NotAhead(c, x) /\ NotAhead(v, x)
  <2>1. watch[s][i] \in Copies
    BY <1>1
  <2>2. Past(watch[s][i]) /\ NotAhead(cache, watch[s][i]) /\ NotAhead(view[s], watch[s][i])
    BY DEF InOrder
  <2>3. Past(x)'
    BY <1>4, <1>7, <2>1, <2>2
  <2>4. NotAhead(c, x) /\ NotAhead(v, x)
    BY <1>1, <1>3, <1>5, <1>7, <2>1, <2>2
  <2>5. QED  BY <2>3, <2>4
<1>8. ASSUME NEW i \in 1..Len(watch[s]), NEW j \in 1..Len(watch[s]), i < j
      PROVE  NotAhead(Older(watch[s][i]), Older(watch[s][j]))
  <2>1. NotAhead(watch[s][i], watch[s][j])
    BY <1>8 DEF InOrder
  <2>2. watch[s][i] \in Copies /\ watch[s][j] \in Copies
    BY <1>1
  <2>3. QED  BY <1>3, <2>1, <2>2
<1>9. PICK q : q = watch'[s]
  OBVIOUS
<1>10. ASSUME NEW i \in 1..Len(q)
       PROVE  /\ Past(q[i])' /\ NotAhead(c, q[i]) /\ NotAhead(v, q[i])
              /\ \A j \in 1..Len(q) : i < j => NotAhead(q[i], q[j])
  <2>1. i \in 1..Len(watch[s]) /\ q[i] = Older(watch[s][i])
    BY <1>2, <1>9
  <2>2. Past(q[i])' /\ NotAhead(c, q[i]) /\ NotAhead(v, q[i])
    BY <1>7, <2>1
  <2>3. ASSUME NEW j \in 1..Len(q), i < j PROVE NotAhead(q[i], q[j])
    BY <1>2, <1>8, <1>9, <2>1, <2>3
  <2>4. QED  BY <2>2, <2>3
<1>11. QED  BY <1>1, <1>5, <1>6, <1>9, <1>10, Zenon DEF InOrder

\* The writes of the agent, the controller and the operators store successors.
LEMMA AgentStores ==
  ASSUME PipelineInv, AgentWrite, object = agent.base
  PROVE  \E o \in Copies : Store(o) /\ Successor(o)
<1>0. AgentType /\ ApiType
  BY DEF PipelineInv
<1>1. agent.discovered \in Contents /\ changes \in Nat /\ changes' = changes /\ object \in Copies
  BY <1>0 DEF AgentWrite, AgentType, ApiType
<1>2. CASE object = Nobody
  <2> DEFINE o == NewVersion(agent.discovered, "agent")
  <2>1. o \in Sound /\ Store(o) /\ o.uid = changes
    BY <1>1, <1>2, NewVersionSound, Zenon DEF AgentWrite, NewVersion
  <2>2. o # Nobody
    BY <2>1 DEF Sound
  <2> HIDE DEF o
  <2>3. o \in Copies
    BY <2>1 DEF Copies
  <2>4. Successor(o)
    BY <1>1, <1>2, <2>1, <2>2, <2>3 DEF Successor
  <2>5. QED  BY <2>1, <2>3, <2>4, Zenon
<1>3. CASE object # Nobody
  <2> DEFINE o == Updated(object, agent.discovered)
  <2>1. object \in Sound /\ Store(o)
    BY <1>1, <1>3 DEF AgentWrite, Copies
  <2>2. /\ o \in Sound /\ o.uid = object.uid /\ object.generation <= o.generation
        /\ object.observedGeneration <= o.observedGeneration
    BY <1>1, <2>1, UpdatedSound
  <2>3. o # Nobody
    BY <2>2 DEF Sound
  <2> HIDE DEF o
  <2>4. o \in Copies
    BY <2>2 DEF Copies
  <2>5. Successor(o)
    BY <1>1, <1>3, <2>2, <2>3, <2>4 DEF Successor
  <2>6. QED  BY <2>1, <2>4, <2>5, Zenon
<1>4. QED  BY <1>2, <1>3

LEMMA ControllerStores ==
  ASSUME PipelineInv, SyncWrite, object = syncing.base
  PROVE  \E o \in Copies : Store(o) /\ Successor(o)
<1>1. ControllerType /\ ApiType
  BY DEF PipelineInv
<1>2. Store(syncing.updated) /\ changes' = changes /\ syncing # NotSyncing
  BY DEF SyncWrite
<1>3. /\ syncing.updated \in Copies /\ object # Nobody /\ syncing.updated # Nobody
      /\ syncing.updated.uid = object.uid /\ syncing.updated.generation = object.generation
      /\ syncing.updated.observedGeneration = object.observedGeneration
  BY <1>1, <1>2, SMTT(30) DEF ControllerType
<1>4. changes \in Nat /\ object \in Sound
  BY <1>1, <1>3 DEF ApiType, Copies
<1>5. object.generation \in Nat /\ object.observedGeneration \in Nat
  BY <1>4, VersionFields DEF Sound
<1>6. QED  BY <1>2, <1>3, <1>4, <1>5, SMTT(30) DEF Successor

LEMMA OperatorStores ==
  ASSUME PipelineInv, Operator
  PROVE  \E o \in Copies : Store(o) /\ Successor(o)
<1>0. ApiType
  BY DEF PipelineInv
<1>1. changes \in Nat /\ changes' \in Nat /\ changes < changes' /\ object \in Copies
  <2>1. Change
    BY Zenon DEF Operator, Edit, Label, Remove, Apply
  <2>2. QED  BY <1>0, <2>1 DEF Change, ApiType
<1>2. ASSUME NEW c \in Contents, Edit(c) PROVE \E o \in Copies : Store(o) /\ Successor(o)
  <2> DEFINE o == [object EXCEPT !.content = c, !.generation = @ + 1]
  <2>1. object \in Sound /\ object # Nobody /\ Store(o) /\ object \in Version
    BY <1>1, <1>2 DEF Edit, Copies, Sound
  <2>2. o \in Sound /\ o # Nobody
    <3>1. o \in Sound
      BY <2>1, EditSound, Zenon
    <3> HIDE DEF o
    <3>2. QED  BY <3>1 DEF Sound
  <2>3. /\ o.uid = object.uid /\ o.generation = object.generation + 1
        /\ o.observedGeneration = object.observedGeneration
        /\ object.generation \in Nat /\ object.observedGeneration \in Nat
    BY <2>1, VersionFields DEF Version
  <2> HIDE DEF o
  <2>4. o \in Copies
    BY <2>2 DEF Copies
  <2>5. Successor(o)
    BY <1>1, <2>1, <2>2, <2>3, <2>4 DEF Successor
  <2>6. QED  BY <2>1, <2>4, <2>5, Zenon
<1>3. ASSUME NEW c \in Contents, Apply(c) PROVE \E o \in Copies : Store(o) /\ Successor(o)
  <2> DEFINE o == [NewVersion(c, "none") EXCEPT !.uid = changes']
  <2>1. object = Nobody /\ Store(o)
    BY <1>3 DEF Apply
  <2>2. o \in Sound /\ o # Nobody /\ o.uid = changes'
    <3>1. o \in Sound
      BY <1>1, NewVersionSound
    <3>2. o.uid = changes'
      BY DEF NewVersion
    <3> HIDE DEF o
    <3>3. QED  BY <3>1, <3>2 DEF Sound
  <2> HIDE DEF o
  <2>3. o \in Copies
    BY <2>2 DEF Copies
  <2>4. Successor(o)
    BY <1>1, <2>1, <2>2, <2>3 DEF Successor
  <2>5. QED  BY <2>1, <2>3, <2>4, Zenon
<1>4. ASSUME NEW m \in {"none", "other"}, Label(m) PROVE \E o \in Copies : Store(o) /\ Successor(o)
  <2> DEFINE o == [object EXCEPT !.manager = m]
  <2>1. object \in Sound /\ object # Nobody /\ Store(o) /\ object \in Version
    BY <1>1, <1>4 DEF Label, Copies, Sound
  <2>2. o \in Sound /\ o # Nobody
    <3>1. PICK c \in Contents : TRUE
      BY <2>1, VersionFields
    <3>2. o \in Sound
      BY <2>1, <3>1, EditSound, Zenon
    <3> HIDE DEF o
    <3>3. QED  BY <3>2 DEF Sound
  <2>3. /\ o.uid = object.uid /\ o.generation = object.generation
        /\ o.observedGeneration = object.observedGeneration
        /\ object.generation \in Nat /\ object.observedGeneration \in Nat
    BY <2>1, VersionFields DEF Version
  <2> HIDE DEF o
  <2>4. o \in Copies
    BY <2>2 DEF Copies
  <2>5. Successor(o)
    BY <1>1, <2>1, <2>2, <2>3, <2>4 DEF Successor
  <2>6. QED  BY <2>1, <2>4, <2>5, Zenon
<1>5. CASE Remove
  BY <1>1, <1>5 DEF Remove, Successor, Copies
<1>6. QED  BY <1>2, <1>3, <1>4, <1>5 DEF Operator

LEMMA NextInOrder ==
  ASSUME PipelineInv, "scheduler" \in watchers, InOrder, [Next]_vars
  PROVE  InOrder'
<1>00. ApiType
  BY DEF PipelineInv
<1>0. changes \in Nat /\ changes <= changes
  BY <1>00 DEF ApiType
<1>1. ASSUME UNCHANGED <<api, cache>> PROVE InOrder'
  BY <1>0, <1>1, AsideInOrder DEF api
<1>2. CASE AgentStep
  <2>1. CASE AgentWrite /\ object = agent.base
    BY <1>2, <2>1, AgentStores, StoreInOrder DEF AgentStep, AgentWrite
  <2>2. CASE ~(AgentWrite /\ object = agent.base)
    BY <1>1, <1>2, <2>2 DEF AgentStep, Discover, AgentGet, AgentWrite, api
  <2>3. QED  BY <2>1, <2>2
<1>3. CASE ControllerStep
  <2>1. CASE SyncWrite /\ object = syncing.base
    BY <1>3, <2>1, ControllerStores, StoreInOrder DEF ControllerStep, SyncWrite
  <2>2. CASE ~(SyncWrite /\ object = syncing.base)
    BY <1>1, <1>3, <2>2 DEF ControllerStep, SyncStart, SyncWrite, api
  <2>3. QED  BY <2>1, <2>2
<1>4. CASE AgentError \/ ControllerError \/ UNCHANGED vars
  BY <1>1, <1>4 DEF AgentError, AgentFails, ControllerError, SyncFails, vars, api
<1>5. ASSUME NEW w \in watchers \ {"scheduler"}, Event(w) \/ RestartInformer(w), UNCHANGED cache
      PROVE  InOrder'
  BY <1>00, <1>0, <1>5, AsideInOrder, SMTT(30) DEF Event, Deliver, Relist, Resync, RestartInformer, ApiType
<1>6. ASSUME NEW w \in watchers, Follow(w) PROVE InOrder'
  BY <1>5, <1>6, SchedulerInOrder DEF Follow, ControllerEvent, PublisherEvent
<1>7. ASSUME NEW w \in watchers, Restart(w) PROVE InOrder'
  BY <1>5, <1>7, SchedulerRestartInOrder DEF Restart, ControllerRestarts, PublisherRestarts
<1>8. CASE PublishError
  BY <1>5, <1>8 DEF PublishError, PublishFails
<1>9. CASE Outside
  <2>1. CASE Operator /\ UNCHANGED cache
    BY <2>1, OperatorStores, StoreInOrder DEF Operator
  <2>2. ASSUME NEW c \in Contents, HardwareChanges(c), UNCHANGED cache PROVE InOrder'
    BY <1>0, <2>2, AsideInOrder DEF HardwareChanges, Change
  <2>3. QED  BY <1>9, <2>1, <2>2 DEF Outside
<1>10. QED
  BY <1>2, <1>3, <1>4, <1>6, <1>7, <1>8, <1>9, TickInOrder DEF Next

\* Within one incarnation of the object the scheduler's cache refuses nothing
\* that its informer brings: watches, lists after a gap, resyncs and restarts
\* never deliver a version behind the cached one.
THEOREM NothingEverRefused == Spec => []NothingRefused
<1>1. Init => OrderInv
  <2> SUFFICES ASSUME Init PROVE OrderInv
    OBVIOUS
  <2>1. cache = Nobody /\ Past(Nobody) /\ \A x : NotAhead(Nobody, x)
    BY DEF Init, Past, NotAhead
  <2>2. ASSUME "scheduler" \in watchers PROVE InOrder
    <3>1. object = Nobody /\ view["scheduler"] = Nobody /\ watch["scheduler"] = <<>>
      BY <2>2 DEF Init
    <3>2. 1..Len(watch["scheduler"]) = {}
      BY <3>1
    <3>3. QED  BY <2>1, <3>1, <3>2, SMTT(30) DEF InOrder
  <2>3. QED  BY <2>1, <2>2 DEF OrderInv
<1>2. PipelineInv /\ OrderInv /\ [Next]_vars => OrderInv'
  <2> SUFFICES ASSUME PipelineInv, OrderInv, [Next]_vars PROVE OrderInv'
    OBVIOUS
  <2>0. watchers' = watchers
    BY WatchersStay DEF vars
  <2>1. CASE "scheduler" \in watchers
    BY <2>0, <2>1, NextInOrder DEF OrderInv
  <2>2. CASE "scheduler" \notin watchers
    <3>1. cache = Nobody
      BY <2>2 DEF OrderInv
    <3>2. cache' = cache \/ cache' = Older(cache)
      BY <2>2 DEF Next, vars, AgentStep, AgentError, ControllerStep, ControllerError, PublishError,
         Follow, Restart, Outside, Tick
    <3>3. QED  BY <2>0, <2>2, <3>1, <3>2 DEF OrderInv, Older
  <2>3. QED  BY <2>1, <2>2
<1>3. PipelineInv /\ OrderInv => NothingRefused
  <2> SUFFICES ASSUME PipelineInv, OrderInv, cache # Nobody, view["scheduler"] # Nobody,
                      view["scheduler"].uid = cache.uid
               PROVE  ~OlderGeneration(view["scheduler"])
    BY DEF NothingRefused
  <2>1. "scheduler" \in watchers /\ InOrder
    BY DEF OrderInv
  <2>2. view["scheduler"] \in Sound /\ cache \in Sound
    BY <2>1 DEF PipelineInv, ApiType, ConsumerType, Copies
  <2>3. /\ cache.generation <= view["scheduler"].generation
        /\ cache.observedGeneration <= view["scheduler"].observedGeneration
    BY <2>1 DEF InOrder, NotAhead
  <2>4. QED  BY <2>2, <2>3, VersionFields DEF OlderGeneration, Sound
<1>4. QED  BY <1>1, <1>2, <1>3, PipelineCorrect, PTL DEF Spec
===============================================================================
