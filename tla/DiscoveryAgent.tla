---------------------------- MODULE DiscoveryAgent ----------------------------
(***************************************************************************)
(* The node's discovery agent (pkg/discovery/agent.go).  Each interval it  *)
(* asks its provider for the hardware and writes the spec of the node's    *)
(* object: get, compare, create or update, from the start again when the   *)
(* update conflicts.  The result of the discovery is kept over the         *)
(* retries, so it can be older than the object it is written to.           *)
(***************************************************************************)
EXTENDS TopologyObject

VARIABLES
  hardware,   \* what the provider would find
  agent       \* the Reconcile under way: its step, discovery and version read

AgentIdle == [step |-> "idle", discovered |-> Nobody, base |-> Nobody]

Discover ==
  /\ agent.step = "idle"
  /\ agent' = [AgentIdle EXCEPT !.step = "get", !.discovered = hardware]
  /\ UNCHANGED <<api, hardware>>

\* The agent writes over an object it manages, and over an unmanaged one that
\* already says what it found.
validateOwnership(o, discovered) ==
  \/ o.manager = "agent"
  \/ o.manager = "none" /\ o.content = discovered

AgentGet ==
  /\ agent.step = "get"
  /\ agent' = IF object = Nobody \/ validateOwnership(object, agent.discovered)
              THEN [agent EXCEPT !.step = "write", !.base = object]
              ELSE AgentIdle
  /\ UNCHANGED <<api, hardware>>

\* The new version: another generation only when the content changed.
Updated(o, discovered) ==
  IF o.content = discovered THEN [o EXCEPT !.manager = "agent"]
  ELSE [o EXCEPT !.manager = "agent", !.content = discovered,
                 !.observedGeneration = @ + 1, !.generation = @ + 1]

\* A mutant of AgentWrite: the update does not carry the version that was read.
AgentOverwrites ==
  /\ agent.step = "write"
  /\ Store(IF object = Nobody THEN NewVersion(agent.discovered, "agent")
           ELSE Updated(object, agent.discovered))
  /\ agent' = AgentIdle
  /\ UNCHANGED <<view, changes, hardware>>

AgentWrite ==
  /\ agent.step = "write"
  /\ IF object = agent.base
     THEN /\ Store(IF object = Nobody THEN NewVersion(agent.discovered, "agent")
                   ELSE Updated(object, agent.discovered))
          /\ agent' = AgentIdle
     ELSE /\ agent' = IF agent.base = Nobody \/ object = Nobody THEN AgentIdle
                      ELSE [agent EXCEPT !.step = "get"]
          /\ UNCHANGED <<watchers, object, watch>>
  /\ UNCHANGED <<view, changes, hardware>>

\* An error of the provider or of the API server, or a restart of the agent.
AgentFails ==
  /\ agent.step # "idle"
  /\ agent' = AgentIdle
  /\ UNCHANGED <<api, hardware>>

HardwareChanges(content) ==
  /\ hardware # content
  /\ Change
  /\ hardware' = content
  /\ UNCHANGED <<watchers, object, watch, view, agent>>
===============================================================================
