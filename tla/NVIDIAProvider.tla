----------------------------- MODULE NVIDIAProvider -----------------------------
(***************************************************************************)
(* The NVIDIA discovery provider (pkg/discovery/nvidia.go): the links and  *)
(* NVLink groups it makes of the topology matrix that nvidia-smi prints.   *)
(* The text is split into fields outside the model: rows[i][j] is the code *)
(* in row i and column j, and a row the output lacks is missing from the   *)
(* domain of rows.  GPUs are numbered from 1.  The query of the devices'   *)
(* memory and product is not shown.                                        *)
(***************************************************************************)
EXTENDS Snapshot, FiniteSetsExt

NVLinkCodes == {"NV1", "NV2"}
PCIeHops == [PIX |-> 1, PXB |-> 2, PHB |-> 3, NODE |-> 4, SYS |-> 5]

\* Whether parseNVIDIATopology returns links and groups for count GPUs.
Parses(rows, count) ==
  /\ DOMAIN rows = 1..count
  /\ \A i, j \in 1..count : i < j =>
       /\ rows[i][j] = rows[j][i]
       /\ rows[i][j] \in NVLinkCodes \cup DOMAIN PCIeHops

\* The pairs of GPUs in the order of the two loops.
pairsOf(count) ==
  LET pairs == {p \in (1..count) \X (1..count) : p[1] < p[2]}
  IN inOrder(pairs, {q \in pairs \X pairs :
                       q[1][1] < q[2][1] \/ (q[1][1] = q[2][1] /\ q[1][2] < q[2][2])})

linkOf(rows, i, j) ==
  [source |-> i, target |-> j, bandwidth |-> 0, health |-> "Unknown", wellFormed |-> TRUE,
   type |-> IF rows[i][j] \in NVLinkCodes THEN "nvlink" ELSE "pcie",
   hops |-> IF rows[i][j] \in NVLinkCodes THEN 1 ELSE PCIeHops[rows[i][j]]]

nvlink(matrix, i, j) == i # j /\ matrix[i][j] \in NVLinkCodes

\* The GPUs reached from start over NVLink, one worklist pass at a time; a pass
\* for every GPU is enough.
componentOf(matrix, start) ==
  LET after[n \in 0..Cardinality(DOMAIN matrix)] ==
        IF n = 0 THEN {start}
        ELSE after[n - 1] \cup
             {j \in DOMAIN matrix : \E i \in after[n - 1] : nvlink(matrix, i, j)}
  IN after[Cardinality(DOMAIN matrix)]

\* A mutant of complete: a component needs no link between its members.
connectedComponent(matrix, component) == Cardinality(component) > 1

complete(matrix, component) ==
  /\ Cardinality(component) > 1
  /\ \A i, j \in component : i # j => nvlink(matrix, i, j)

\* Groups are numbered in the order of their first members.
completeNVLinkGroups(matrix) ==
  LET Component(i) == componentOf(matrix, i)
      firsts == {i \in DOMAIN matrix : complete(matrix, Component(i)) /\ i = Min(Component(i))}
  IN [i \in DOMAIN matrix |->
        IF complete(matrix, Component(i))
        THEN Cardinality({f \in firsts : f < Min(Component(i))}) ELSE Unknown]

\* Discover, on output that parses, with the generation the agent gives the
\* spec.  Health, NUMA nodes and PCIe roots are not inferred.
Discover(rows, count, generation) ==
  LET groups == completeNVLinkGroups(rows)
      pairs == pairsOf(count)
  IN [observedGeneration |-> generation,
      devices |-> [i \in 1..count |->
        [id |-> i, resourceName |-> 1, matches |-> TRUE, memory |-> 1, wellFormed |-> TRUE,
         health |-> "Unknown", numaNode |-> Unknown, pcieRoot |-> Unknown,
         fabricGroup |-> groups[i]]],
      links |-> [k \in DOMAIN pairs |-> linkOf(rows, pairs[k][1], pairs[k][2])]]
===============================================================================
