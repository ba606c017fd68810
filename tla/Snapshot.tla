------------------------------- MODULE Snapshot -------------------------------
(***************************************************************************)
(* The topology snapshot (pkg/topology/snapshot.go): Build validates the   *)
(* spec of an AcceleratorTopology and indexes its devices and links.       *)
(*                                                                         *)
(* A spec is a record with observedGeneration and the lists devices and    *)
(* links.  IDs, NUMA nodes, PCIe roots and fabric groups are numbers in    *)
(* the order of the code's strings.  A record's wellFormed says that the   *)
(* fields it does not show (names, vendor, enumerations) pass              *)
(* validateDevice or validateLink.  Bandwidth is counted in halves of a    *)
(* GB/s.                                                                   *)
(***************************************************************************)
EXTENDS Lists, Functions

\* A missing NUMA node, PCIe root or fabric group.
Unknown == -1

Healths == {"Healthy", "Unhealthy", "Unknown"}
LinkTypes == {"hccs", "nvlink", "pcie", "xgmi"}

Device == [id : Nat, resourceName : Nat, matches : BOOLEAN, memory : Int,
           wellFormed : BOOLEAN, health : Healths, numaNode : Nat \cup {Unknown},
           pcieRoot : Nat \cup {Unknown}, fabricGroup : Nat \cup {Unknown}]

Link == [source : Nat, target : Nat, type : LinkTypes, bandwidth : Int, hops : Int,
         health : Healths, wellFormed : BOOLEAN]

TopologySpec == [observedGeneration : Int, devices : Seq(Device), links : Seq(Link)]

\* No link between two devices, and the snapshot of a spec Build rejects.
NoLink == [type |-> "none"]
NoSnapshot == [devices |-> <<>>, links |-> <<>>, adjacency |-> <<>>]

\* The order of the link types' names.
TypeOrder == [hccs |-> 1, nvlink |-> 2, pcie |-> 3, xgmi |-> 4]

IDs(devices) == {devices[i].id : i \in DOMAIN devices}

linkKey(link) ==
  IF link.target < link.source
  THEN <<link.target, link.source, TypeOrder[link.type]>>
  ELSE <<link.source, link.target, TypeOrder[link.type]>>

KeyBefore(k, j) ==
  \/ k[1] < j[1]
  \/ k[1] = j[1] /\ k[2] < j[2]
  \/ k[1] = j[1] /\ k[2] = j[2] /\ k[3] < j[3]

flipped(link) == [link EXCEPT !.source = link.target, !.target = link.source]
normalised(link) == IF link.target < link.source THEN flipped(link) ELSE link

validateDevice(device) == device.memory >= 0 /\ device.wellFormed

validateLink(link, ids) ==
  /\ link.source # link.target
  /\ link.source \in ids
  /\ link.target \in ids
  /\ link.bandwidth >= 0 /\ link.hops >= 0
  /\ link.wellFormed

\* Whether Build returns a snapshot.
Valid(spec) ==
  /\ spec.observedGeneration >= 1
  /\ spec.devices # <<>>
  /\ \A i \in DOMAIN spec.devices : validateDevice(spec.devices[i])
  /\ Cardinality(IDs(spec.devices)) = Len(spec.devices)
  /\ \A i \in DOMAIN spec.links : validateLink(spec.links[i], IDs(spec.devices))
  /\ \A i, j \in DOMAIN spec.links : linkKey(spec.links[i]) = linkKey(spec.links[j]) => i = j

\* A mutant of indexLink: only one direction is indexed.
indexOneWay(adjacency, link) == [adjacency EXCEPT ![<<link.source, link.target>>] = link]

\* A later link between the same devices overwrites an earlier one.
indexLink(adjacency, link) ==
  [adjacency EXCEPT ![<<link.source, link.target>>] = link,
                    ![<<link.target, link.source>>] = flipped(link)]

\* The index after all links.
adjacencyOf(ids, links) ==
  LET after[n \in 0..Len(links)] ==
        IF n = 0 THEN [pair \in ids \X ids |-> NoLink]
        ELSE indexLink(after[n - 1], links[n])
  IN after[Len(links)]

\* Devices in the order of their IDs and links in the order of their keys; a
\* valid spec repeats neither.
byID(devices) == inOrder(devices, {p \in devices \X devices : p[1].id < p[2].id})
byKey(links) ==
  inOrder(links, {p \in links \X links : KeyBefore(linkKey(p[1]), linkKey(p[2]))})

Build(spec) ==
  IF ~Valid(spec) THEN NoSnapshot ELSE
  LET links == byKey(Range(spec.links))
      norm  == [i \in DOMAIN links |-> normalised(links[i])]
  IN [devices   |-> byID(Range(spec.devices)),
      links     |-> norm,
      adjacency |-> adjacencyOf(IDs(spec.devices), norm)]

LinkBetween(snapshot, source, target) ==
  IF <<source, target>> \in DOMAIN snapshot.adjacency
  THEN snapshot.adjacency[<<source, target>>] ELSE NoLink
===============================================================================
