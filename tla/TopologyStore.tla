----------------------------- MODULE TopologyStore -----------------------------
(***************************************************************************)
(* The scheduler's topology cache (pkg/topology/cache): the entry of one   *)
(* node, as the informer's handlers leave it.  A write replaces the whole  *)
(* map behind an atomic pointer, so a reader sees an entry or the next     *)
(* one, never parts of both.                                               *)
(***************************************************************************)
EXTENDS TopologyObject

VARIABLE cache   \* the version behind the node's entry, or Nobody

\* A mutant of OlderGeneration: a version of the same generation is refused.
SameGeneration(o) == cache # Nobody /\ o.generation <= cache.generation

\* The update is refused with ErrOlderGeneration.
OlderGeneration(o) ==
  /\ cache # Nobody
  /\ \/ o.generation < cache.generation
     \/ o.generation = cache.generation /\ o.observedGeneration < cache.observedGeneration

\* A version whose graph Build rejects leaves the entry as it is.
Upsert(o) == cache' = IF o.content \in Invalid \/ OlderGeneration(o) THEN cache ELSE o

Delete == cache' = Nobody

SchedulerEvent ==
  /\ Event("scheduler")
  /\ IF view'["scheduler"] # Nobody THEN Upsert(view'["scheduler"]) ELSE Delete

\* A mutant of Get: the heartbeat is not looked at.
GetForever ==
  IF cache = Nobody THEN "Missing" ELSE IF ~ReadyNow(cache) THEN "NotReady" ELSE "Ready"

Get ==
  IF cache = Nobody THEN "Missing"
  ELSE IF ~ReadyNow(cache) THEN "NotReady"
  ELSE IF cache.age > TTL THEN "Stale"
  ELSE "Ready"

SchedulerRestarts ==
  /\ RestartInformer("scheduler")
  /\ cache' = Nobody
===============================================================================
