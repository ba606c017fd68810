-------------------------------- MODULE Fixtures --------------------------------
(***************************************************************************)
(* The fixture topologies (pkg/fixtures/topologies.go): eight healthy      *)
(* devices in two groups of four.  Each group has one NUMA node and PCIe   *)
(* root and is fully linked; one PCIe link joins the groups.  The three    *)
(* nodes differ in names and in the links' type and bandwidth.             *)
(***************************************************************************)
EXTENDS Snapshot

group(i) == (i - 1) \div 4

buildTopology(linkType, bandwidth) ==
  LET fabric(i, j) == [source |-> i, target |-> j, type |-> linkType, bandwidth |-> bandwidth,
                       hops |-> 1, health |-> "Healthy", wellFormed |-> TRUE]
      clique(s) == <<fabric(s, s + 1), fabric(s, s + 2), fabric(s, s + 3),
                     fabric(s + 1, s + 2), fabric(s + 1, s + 3), fabric(s + 2, s + 3)>>
      bridge == [fabric(4, 5) EXCEPT !.type = "pcie", !.bandwidth = 128, !.hops = 2]
  IN [observedGeneration |-> 1,
      devices |-> [i \in 1..8 |->
        [id |-> i, resourceName |-> 1, matches |-> TRUE, memory |-> 1, wellFormed |-> TRUE,
         health |-> "Healthy", numaNode |-> group(i), pcieRoot |-> group(i),
         fabricGroup |-> group(i)]],
      links |-> clique(1) \o clique(5) \o <<bridge>>]

ThreeNodeTopologies ==
  {buildTopology("nvlink", 900), buildTopology("hccs", 784), buildTopology("xgmi", 800)}
===============================================================================
