----------------------------- MODULE MCTopologyFit -----------------------------
(***************************************************************************)
(* Instances of TopologyFit.  A Ready topology is one of: both devices and *)
(* the pair usable, only the first device healthy, or no device usable.    *)
(***************************************************************************)
EXTENDS TopologyFit

CONSTANTS d1, d2, p1, p2, p3

MCCombinations == {{{d1}, {d2}, {d1, d2}}, {{d1}}, {}}

MCRequested == [p \in Pods |-> IF p = p3 THEN 2 ELSE 1]
MCGang == [p \in Pods |-> IF p = p3 THEN {p3} ELSE Pods \ {p3}]
===============================================================================
