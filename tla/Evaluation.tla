------------------------------ MODULE Evaluation ------------------------------
(***************************************************************************)
(* What TopologyFit makes of a snapshot                                    *)
(* (pkg/plugin/topologyfit/evaluate.go): the devices and links a placement *)
(* policy accepts, and the score of a node.                                *)
(*                                                                         *)
(* A policy shows mode, allowUnknown, minMemory, minBandwidth and maxHops, *)
(* and the Pod's resourceName, which cycleData keeps beside it.  Its       *)
(* vendor and products are one Boolean of the device, matches.             *)
(***************************************************************************)
EXTENDS Snapshot, Score, FiniteSetsExt

\* The node's resource that is left when its Pods use some of it.
scalarHeadroom(allocatable, used) == IF used > allocatable THEN 0 ELSE allocatable - used

\* Health that is good enough for the policy.
Accepted(health, policy) ==
  health = "Healthy" \/ (policy.allowUnknown /\ health = "Unknown")

Eligible(device, policy) ==
  /\ device.resourceName = policy.resourceName
  /\ device.matches
  /\ device.memory >= policy.minMemory
  /\ Accepted(device.health, policy)

eligibleDevices(snapshot, policy) ==
  keep(snapshot.devices, {i \in DOMAIN snapshot.devices : Eligible(snapshot.devices[i], policy)})

excludeReservedDevices(devices, reserved) ==
  keep(devices, {i \in DOMAIN devices : devices[i].id \notin reserved})

qualifiesFabricLink(link, policy) ==
  /\ link.type # "pcie"
  /\ Accepted(link.health, policy)
  /\ link.bandwidth >= policy.minBandwidth
  /\ link.hops <= policy.maxHops

\* The test selection and scoring make of two devices.
Linked(snapshot, policy, a, b) ==
  LET link == LinkBetween(snapshot, a, b)
  IN link # NoLink /\ qualifiesFabricLink(link, policy)

\* maxNUMAGroup and maxStringGroup: the size of the largest group of devices
\* with one value of the field key.
maxGroup(devices, key, allowUnknown) ==
  LET counted == {i \in DOMAIN devices : devices[i][key] # Unknown \/ allowUnknown}
      Group(k) == {i \in counted : devices[i][key] = k}
  IN Max({0} \cup {Cardinality(Group(devices[i][key])) : i \in counted})

\* The pairs of devices, by their places in the list.
Pairs(devices) == {p \in (DOMAIN devices) \X (DOMAIN devices) : p[1] < p[2]}

\* A mutant of scoreFeatures: any link counts as a fabric edge.
scoreAnyLink(snapshot, devices, policy, requested, remaining, allocatable) ==
  [locality |-> percentage(Max({maxGroup(devices, "numaNode", policy.allowUnknown),
                                maxGroup(devices, "pcieRoot", policy.allowUnknown)}),
                           Len(devices)),
   fabric |-> percentage(Cardinality({p \in Pairs(devices) :
                  LinkBetween(snapshot, devices[p[1]].id, devices[p[2]].id) # NoLink}),
                Cardinality(Pairs(devices))),
   fragmentation |-> percentage(requested, Len(devices)),
   headroom |-> percentage(remaining - requested, allocatable)]

scoreFeatures(snapshot, devices, policy, requested, remaining, allocatable) ==
  [locality |-> percentage(Max({maxGroup(devices, "numaNode", policy.allowUnknown),
                                maxGroup(devices, "pcieRoot", policy.allowUnknown)}),
                           Len(devices)),
   fabric |-> percentage(Cardinality({p \in Pairs(devices) :
                  Linked(snapshot, policy, devices[p[1]].id, devices[p[2]].id)}),
                Cardinality(Pairs(devices))),
   fragmentation |-> percentage(requested, Len(devices)),
   headroom |-> percentage(remaining - requested, allocatable)]
===============================================================================
