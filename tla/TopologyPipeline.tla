--------------------------- MODULE TopologyPipeline ---------------------------
(***************************************************************************)
(* The topology data plane of one node, from the hardware to what the      *)
(* scheduler and DRA use: the discovery agent writes the object's spec,    *)
(* the topology controller its status, and the scheduler's cache and the   *)
(* DRA publisher follow it through informers of their own.  Operators      *)
(* interfere, every process can restart, and time passes.                  *)
(***************************************************************************)
EXTENDS DiscoveryAgent, TopologyController, TopologyStore, DRAPublisher

vars == <<watchers, object, watch, view, changes, hardware, agent, queued, syncing, cache, published>>

Init ==
  /\ watchers \in Deployments
  /\ object = Nobody
  /\ watch = [w \in watchers |-> <<>>]
  /\ view = [w \in watchers |-> Nobody]
  /\ changes = 0
  /\ hardware \in Contents \ Invalid
  /\ agent = AgentIdle
  /\ queued = FALSE /\ syncing = NotSyncing
  /\ cache = Nobody
  /\ published = Nobody

AgentStep == (Discover \/ AgentGet \/ AgentWrite) /\ UNCHANGED <<controller, cache, published>>
AgentError == AgentFails /\ UNCHANGED <<controller, cache, published>>

ControllerStep ==
  (SyncStart \/ SyncWrite) /\ UNCHANGED <<hardware, agent, cache, published>>
ControllerError == SyncFails /\ UNCHANGED <<hardware, agent, cache, published>>

\* What the informer of each process brings.
Follow(w) ==
  /\ w \in watchers
  /\ \/ /\ w = "controller" /\ ControllerEvent
        /\ UNCHANGED <<hardware, agent, cache, published>>
     \/ /\ w = "scheduler" /\ SchedulerEvent
        /\ UNCHANGED <<hardware, agent, controller, published>>
     \/ /\ w = "publisher" /\ PublisherEvent
        /\ UNCHANGED <<hardware, agent, controller, cache>>

PublishError ==
  /\ "publisher" \in watchers /\ PublishFails
  /\ UNCHANGED <<hardware, agent, controller, cache>>

Restart(w) ==
  \/ /\ w = "controller" /\ ControllerRestarts
     /\ UNCHANGED <<hardware, agent, cache, published>>
  \/ /\ w = "scheduler" /\ SchedulerRestarts
     /\ UNCHANGED <<hardware, agent, controller, published>>
  \/ /\ w = "publisher" /\ PublisherRestarts
     /\ UNCHANGED <<hardware, agent, controller, cache>>

Outside ==
  \/ Operator /\ UNCHANGED <<hardware, agent, controller, cache, published>>
  \/ /\ \E content \in Contents : HardwareChanges(content)
     /\ UNCHANGED <<controller, cache, published>>

\* Every heartbeat, wherever a copy of it is, gets older.
Tick ==
  /\ object' = Older(object)
  /\ watch' = [w \in watchers |-> [i \in 1..Len(watch[w]) |-> Older(watch[w][i])]]
  /\ view' = [w \in watchers |-> Older(view[w])]
  /\ agent' = [agent EXCEPT !.base = Older(@)]
  /\ syncing' = [base |-> Older(syncing.base), updated |-> Older(syncing.updated)]
  /\ cache' = Older(cache)
  /\ UNCHANGED <<watchers, changes, hardware, queued, published>>

Next ==
  \/ AgentStep \/ AgentError
  \/ ControllerStep \/ ControllerError
  \/ PublishError
  \/ \E w \in watchers : Follow(w) \/ Restart(w)
  \/ Outside
  \/ Tick

Spec == Init /\ [][Next]_vars

\* Informers deliver what is on its way, and a resync that would publish
\* something else happens.
InformersFair == \A w \in UNION Deployments : WF_watch(Follow(w)) /\ WF_published(Follow(w))

FairSpec == Spec /\ InformersFair

\* The agent's loop and the controller's worker go on.  Their fairness is
\* strong because MaxLag, which stops a write now and then, is the model's.
WritersRun == SF_vars(AgentStep) /\ SF_vars(ControllerStep)

\* Time passes, whether or not the agent and the controller still run.
TimePasses == WF_vars(Tick)

-------------------------------------------------------------------------------
Versions ==
  {object, cache, syncing.base, syncing.updated, agent.base}
    \cup {view[w] : w \in watchers}
    \cup UNION {{watch[w][i] : i \in 1..Len(watch[w])} : w \in watchers}

\* Type invariant of the pipeline.
PipelineType ==
  /\ Versions \subseteq Version \cup {Nobody}
  /\ changes \in 0..MaxChanges
  /\ hardware \in Contents
  /\ agent.step \in {"idle", "get", "write"}
  /\ agent.discovered \in Contents \cup {Nobody}
  /\ queued \in BOOLEAN
  /\ published \in Contents \cup {Nobody}

\* A Ready condition that observes the current generation stands for a graph
\* that Build accepts, in the API server and in every copy: no status written
\* from an old version, or for an earlier incarnation of the object, vouches
\* for a spec the controller has not validated.
ReadyIsValidated ==
  \A o \in Versions \ {Nobody} : ReadyNow(o) => o.content \notin Invalid

\* Within one incarnation of the object no version is refused as older: what a
\* watch or a list brings never runs behind the cache.
NothingRefused ==
  cache # Nobody /\ view["scheduler"] # Nobody /\ view["scheduler"].uid = cache.uid
    => ~OlderGeneration(view["scheduler"])

\* ADR-0009: the agent does not silently take over: it replaces the content of
\* an object only if the object carries its label at that moment.
NoTakeover ==
  [][AgentStep /\ object # Nobody /\ object'.content # object.content
       => object.manager = "agent"]_vars

\* Within one incarnation neither the object's generation nor the
\* observedGeneration in its spec ever goes back, and its content changes only
\* with its generation, whatever the agent and the controller raced with.
GenerationsAdvance ==
  [][object # Nobody /\ object' # Nobody /\ object.uid = object'.uid =>
       /\ object.generation <= object'.generation
       /\ object.observedGeneration <= object'.observedGeneration
       /\ object.generation = object'.generation => object.content = object'.content]_vars

\* From some time on operators and hardware are quiet and nothing fails.
Quiet ==
  <>[][~(Outside \/ AgentError \/ ControllerError \/ PublishError
           \/ \E w \in watchers : Restart(w))]_vars

\* Also, everything is done well within the TTL.
Prompt == Quiet /\ <>[][~Tick]_vars

\* The agent cannot write what it finds, or Build rejects it.
Hopeless == hardware \in Invalid \/ (object # Nobody /\ object.manager # "agent")

\* The cache of a scheduler converges to the hardware, validated, and the
\* devices that a DRA publisher offers converge to those of the hardware,
\* whatever happened before: invalid graphs, deletions, conflicts of the agent
\* and the controller, failed publications, restarts.
ConsumersConverge ==
  WritersRun /\ Prompt =>
    \/ []<>Hopeless
    \/ <>[](/\ "scheduler" \in watchers =>
                 cache # Nobody /\ cache.content = hardware /\ Get = "Ready"
            /\ "publisher" \in watchers => published = hardware)

\* The controller stores a heartbeat for a graph that it found to be valid.
Vouches == ControllerStep /\ object' # object /\ ReadyNow(object')

\* Fault matrix, "Stale topology heartbeat" and "Invalid topology graph":
\* scheduler and DRA do not go on with a graph that the controller no longer
\* vouches for, since it has stopped or since the graph has become invalid and
\* each heartbeat says so.  Get ends up refusing the entry, also one that the
\* cache keeps because Build rejects all that came after it; and the resync
\* withdraws the devices, although no event may arrive any more.  (A publisher
\* that has seen no object since it started withdraws nothing.)
ConsumersExpire ==
  TimePasses /\ Quiet /\ <>[][~Vouches]_vars =>
    <>[](/\ Get # "Ready"
         /\ "publisher" \in watchers => view["publisher"] = Nobody \/ published = Nobody)

\* store.go: ErrOlderGeneration says "topology update is older than the cached
\* generation": no version of a later incarnation is refused as older.
RefusedIsOlder ==
  view["scheduler"] # Nobody /\ OlderGeneration(view["scheduler"])
    => view["scheduler"].uid <= cache.uid
===============================================================================
