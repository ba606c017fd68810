----------------------------- MODULE DRAPublisher -----------------------------
(***************************************************************************)
(* The DRA driver's publisher (pkg/dra/publisher.go): each informer event  *)
(* publishes the node's devices, or no devices.  What was published stays  *)
(* in the API server's ResourceSlices when the driver restarts.            *)
(***************************************************************************)
EXTENDS TopologyObject

CONSTANT PublishMayFail   \* whether a publication can fail

ASSUME PublisherAssumption == PublishMayFail \in BOOLEAN

VARIABLE published   \* the content behind the published devices, or Nobody

\* A mutant of topologyReady: the heartbeat is not looked at.
topologyReadyForever(o) == ReadyNow(o)

\* A mutant of topologyReady: the condition is compared with the generation in
\* the spec.
topologyReadyBySpec(o) ==
  o.status = "True" /\ o.conditionGeneration = o.observedGeneration /\ o.age <= TTL

topologyReady(o) == ReadyNow(o) /\ o.age <= TTL

\* ResourcesForTopology fails for a graph that Build rejects, and then nothing
\* is published.
publishObject(o) ==
  IF ~topologyReady(o) THEN Nobody
  ELSE IF o.content \in Invalid THEN published
  ELSE o.content

\* What the handlers publish after an event.  An informer that had no object
\* and finds none calls no handler.
Publication ==
  IF view'["publisher"] # Nobody THEN publishObject(view'["publisher"])
  ELSE IF view["publisher"] # Nobody THEN Nobody
  ELSE published

PublisherEvent ==
  /\ Event("publisher")
  /\ published' = Publication

\* A publication that would change something fails; nothing retries it but the
\* next event.
PublishFails ==
  /\ PublishMayFail
  /\ Event("publisher")
  /\ published # Publication
  /\ UNCHANGED published

PublisherRestarts ==
  /\ RestartInformer("publisher")
  /\ UNCHANGED published
===============================================================================
