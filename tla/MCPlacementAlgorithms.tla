------------------------ MODULE MCPlacementAlgorithms ------------------------
(***************************************************************************)
(* Small inputs for the placement algorithms: every device attribute       *)
(* combination that matters on four devices without links, links in any    *)
(* order on two and three devices, every graph on four devices with links  *)
(* of a second kind at some of the pairs, and every NVIDIA matrix of one,  *)
(* three and four GPUs with a few codes.                                   *)
(***************************************************************************)
EXTENDS PlacementAlgorithms

device(id, numa, root, group_, health) ==
  [id |-> id, resourceName |-> 1, matches |-> TRUE, memory |-> 1, wellFormed |-> TRUE,
   health |-> health, numaNode |-> numa, pcieRoot |-> root, fabricGroup |-> group_]

\* Two and three devices for links in any order; the list is not in ID order.
TwoDevices == <<device(2, 0, 0, 0, "Healthy"), device(1, 0, 1, 0, "Healthy")>>
ThreeDevices == <<device(3, 0, 0, 0, "Healthy"), device(1, 0, 1, 0, "Unknown"),
                  device(2, 1, 1, 0, "Healthy")>>

\* Four devices, in one fabric group and in two.
FourInOneGroup == [i \in 1..4 |-> device(i, i % 2, 0, 0, "Healthy")]
FourInTwoGroups == [i \in 1..4 |-> device(i, 0, i \div 3, i \div 3, "Healthy")]

\* Locality and health of four devices without links.
Localities == {<<0, 0>>, <<0, Unknown>>, <<1, 0>>, <<Unknown, 1>>}
FourAnywhere == {[i \in 1..4 |-> device(i, f[i][1], f[i][2], Unknown,
                                        IF i = 1 THEN "Unknown" ELSE "Healthy")] :
                   f \in {g \in [1..4 -> Localities] : g[4][1] = 0}}

\* Devices the policy rejects, and lists that Build rejects.
OtherDevices ==
  {<<[device(1, 0, 0, 0, "Healthy") EXCEPT !.resourceName = 2], device(2, 0, 0, 0, "Healthy")>>,
   <<[device(1, 0, 0, 0, "Healthy") EXCEPT !.matches = FALSE], device(2, 0, 0, 0, "Healthy"),
     [device(3, 0, 0, 0, "Healthy") EXCEPT !.memory = 0], device(4, 0, 0, 0, "Unhealthy")>>,
   <<device(1, 0, 0, 0, "Healthy"), device(1, 0, 0, 0, "Healthy")>>,
   <<[device(1, 0, 0, 0, "Healthy") EXCEPT !.wellFormed = FALSE]>>}

MCInventories ==
  {[observedGeneration |-> 1, devices |-> d, links |-> <<>>] :
     d \in {TwoDevices, ThreeDevices, FourInOneGroup, FourInTwoGroups}
             \cup FourAnywhere \cup OtherDevices}
    \cup {[observedGeneration |-> 0, devices |-> FourInOneGroup, links |-> <<>>]}

link(a, b, type, bandwidth, hops, health) ==
  [source |-> a, target |-> b, type |-> type, bandwidth |-> bandwidth, hops |-> hops,
   health |-> health, wellFormed |-> TRUE]

Kinds(a, b) == {link(a, b, "nvlink", 3, 1, "Healthy"), link(a, b, "nvlink", 2, 1, "Healthy"),
                link(a, b, "hccs", 5, 2, "Healthy"), link(a, b, "xgmi", 4, 1, "Unknown"),
                link(a, b, "pcie", 4, 1, "Healthy"), link(a, b, "hccs", 4, 1, "Unhealthy")}

\* Links Build rejects: a self link, an endpoint that is no device, a bad field.
Bad == {link(1, 1, "nvlink", 3, 1, "Healthy"), link(1, 9, "nvlink", 3, 1, "Healthy"),
        [link(1, 2, "nvlink", 3, 1, "Healthy") EXCEPT !.wellFormed = FALSE]}

Later(links, a, b) ==
  \A l \in Range(links) : l.source < a \/ (l.source = a /\ l.target < b)

MCNextLinks(s) ==
  LET ids == IDs(s.devices)
      n == Len(s.links)
      pairs == {p \in ids \X ids : p[1] # p[2]}
      rising == {p \in ids \X ids : p[1] < p[2] /\ Later(s.links, p[1], p[2])} IN
  CASE s.observedGeneration = 0 -> {}
    [] s.devices = TwoDevices /\ n < 3 ->
         UNION {Kinds(p[1], p[2]) : p \in IF n < 2 THEN pairs ELSE {<<1, 2>>}}
    [] s.devices = ThreeDevices /\ n < 2 ->
         UNION {Kinds(p[1], p[2]) : p \in IF n = 0 THEN pairs ELSE pairs \ {<<1, 3>>, <<2, 3>>, <<3, 1>>}}
           \cup Bad
    [] s.devices = FourInOneGroup ->
         {link(p[1], p[2], "nvlink", 3, 1, "Healthy") : p \in rising}
           \cup {link(p[1], p[2], "xgmi", 4, 1, "Unknown") : p \in {q \in rising : q[2] = 4}}
    [] s.devices = FourInTwoGroups ->
         {link(p[1], p[2], "nvlink", 4, 1, "Healthy") : p \in rising}
           \cup {link(p[1], p[2], "nvlink", 2, 1, "Healthy") : p \in rising \cap {<<1, 2>>, <<3, 4>>}}
    [] OTHER -> {}

\* Bandwidth 3 stands for 1.5 GB/s, which neither side of the DRA translation
\* represents exactly.
Policy(m, u) ==
  [mode |-> m, allowUnknown |-> u, minMemory |-> 1, minBandwidth |-> 3, maxHops |-> 1,
   resourceName |-> 1, failurePolicy |-> "FailClosed", deviceCount |-> NoDRA,
   weights |-> [locality |-> 40, fabric |-> 30, fragmentation |-> 20, headroom |-> 10]]

\* Beside every mode, policies that PreFilter rejects.
MCPolicies ==
  {Policy(m, u) : m \in Modes, u \in BOOLEAN}
    \cup {[Policy("best-effort", FALSE) EXCEPT !.weights.locality = 140],
          [Policy("best-effort", FALSE) EXCEPT !.minMemory = -1],
          [Policy("best-effort", TRUE) EXCEPT !.deviceCount = 1]}

MCCodes(n) ==
  {<<"NV1", "NV1">>, <<"PIX", "PIX">>}
    \cup IF n < 4 THEN {<<"NV1", "NV2">>, <<"ERR", "ERR">>} ELSE {}
===============================================================================
