----------------------------- MODULE DRATranslation -----------------------------
(***************************************************************************)
(* The DRA side of a topology and a policy: the attributes that            *)
(* ResourcesForTopology publishes for each device (pkg/dra/resources.go)   *)
(* and the selectors and constraint that ResourceClaimTemplateForPolicy    *)
(* makes of a policy (pkg/controller/policy/transform.go), with the choice *)
(* they leave to the cluster's DRA allocator.                              *)
(***************************************************************************)
EXTENDS Evaluation

NoFacts == [found |-> FALSE, linkType |-> "none", minBandwidth |-> 0, maxHops |-> 0]

DeviceByID(spec, id) == CHOOSE d \in Range(spec.devices) : d.id = id

\* A mutant of addLink: the last link's bandwidth is kept.
addLinkLast(facts, link) ==
  [found |-> TRUE, linkType |-> link.type, minBandwidth |-> link.bandwidth,
   maxHops |-> IF link.hops > facts.maxHops THEN link.hops ELSE facts.maxHops]

\* What one link of the list adds to the facts of an endpoint: the last link
\* gives the type.
addLink(facts, link) ==
  [found |-> TRUE, linkType |-> link.type,
   minBandwidth |-> IF ~facts.found \/ link.bandwidth < facts.minBandwidth
                    THEN link.bandwidth ELSE facts.minBandwidth,
   maxHops |-> IF link.hops > facts.maxHops THEN link.hops ELSE facts.maxHops]

\* The healthy fabric links inside one group.
CountsFor(spec, link, id) ==
  /\ link.type # "pcie"
  /\ link.health = "Healthy"
  /\ id \in {link.source, link.target}
  /\ DeviceByID(spec, link.source).fabricGroup # Unknown
  /\ DeviceByID(spec, link.source).fabricGroup = DeviceByID(spec, link.target).fabricGroup

fabricByID(spec, id) ==
  LET after[n \in 0..Len(spec.links)] ==
        IF n = 0 THEN NoFacts
        ELSE IF CountsFor(spec, spec.links[n], id) THEN addLink(after[n - 1], spec.links[n])
        ELSE after[n - 1]
  IN after[Len(spec.links)]

\* A device's attributes.  Unknown, and the type "none", stand for an attribute
\* that is left out; bandwidth is rounded down to whole GB/s.
attributes(spec, device) ==
  LET facts == fabricByID(spec, device.id)
  IN [matches |-> device.matches, resourceName |-> device.resourceName,
      memory |-> device.memory, health |-> device.health,
      observedGeneration |-> spec.observedGeneration, numaNode |-> device.numaNode,
      pcieRoot |-> device.pcieRoot, fabricGroup |-> device.fabricGroup,
      fabricType |-> facts.linkType,
      fabricBandwidth |-> IF facts.found THEN facts.minBandwidth \div 2 ELSE Unknown,
      fabricHops |-> IF facts.found THEN facts.maxHops ELSE Unknown]

ResourcesForTopology(spec) ==
  IF ~Valid(spec) THEN {}
  ELSE {[name |-> d.id, attributes |-> attributes(spec, d)] : d \in Range(spec.devices)}

-------------------------------------------------------------------------------
\* Whether ResourceClaimTemplateForPolicy returns a template.
Translatable(policy) ==
  policy.deviceCount >= 1 /\ ~policy.allowUnknown
    /\ policy.mode \in {"best-effort", "single-numa", "same-pcie-root", "fabric-clique"}

\* A mutant of Selected: the minimum bandwidth is rounded down.
SelectedRoughly(policy, attrs) ==
  /\ attrs.health = "Healthy" /\ attrs.matches
  /\ policy.minMemory > 0 => attrs.memory >= policy.minMemory
  /\ policy.mode = "fabric-clique" =>
       /\ policy.minBandwidth > 0 =>
            attrs.fabricBandwidth # Unknown /\ attrs.fabricBandwidth >= policy.minBandwidth \div 2
       /\ attrs.fabricHops # Unknown /\ attrs.fabricHops <= policy.maxHops

\* The CEL selectors.  One that names a missing attribute fails, and the device
\* is not given; the minimum bandwidth is rounded up to whole GB/s.
Selected(policy, attrs) ==
  /\ attrs.health = "Healthy" /\ attrs.matches
  /\ policy.minMemory > 0 => attrs.memory >= policy.minMemory
  /\ policy.mode = "fabric-clique" =>
       /\ policy.minBandwidth > 0 =>
            /\ attrs.fabricBandwidth # Unknown
            /\ attrs.fabricBandwidth >= (policy.minBandwidth + 1) \div 2
       /\ attrs.fabricHops # Unknown /\ attrs.fabricHops <= policy.maxHops

\* The attribute that must be present and equal on all devices of a claim.
matchAttribute(policy, attrs) ==
  CASE policy.mode = "single-numa"    -> attrs.numaNode
    [] policy.mode = "same-pcie-root" -> attrs.pcieRoot
    [] policy.mode = "fabric-clique"  -> attrs.fabricGroup
    [] policy.mode = "best-effort"    -> 0

\* The sets of devices the allocator may give to a claim of the template.
Allocatable(resources, policy) ==
  LET selected == {r \in resources : Selected(policy, r.attributes)}
      Satisfies(S) == \A r, s \in S :
        /\ matchAttribute(policy, r.attributes) # Unknown
        /\ matchAttribute(policy, r.attributes) = matchAttribute(policy, s.attributes)
  IN {{r.name : r \in S} : S \in {T \in kSubset(policy.deviceCount, selected) : Satisfies(T)}}
===============================================================================
