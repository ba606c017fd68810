-------------------------- MODULE PreferredAllocation --------------------------
(***************************************************************************)
(* preferredDevices, the answer of the synthetic device plugin to the      *)
(* kubelet's GetPreferredAllocation (pkg/deviceplugin/plugin.go).  A       *)
(* request has the lists available and must and a size; IDs are numbers.   *)
(***************************************************************************)
EXTENDS Lists, Functions

\* The InvalidArgument answer.
Refused == <<-1>>

\* sort.Strings, on a list that may repeat an ID.
sorted(ids) ==
  LET places == inOrder(DOMAIN ids, {p \in (DOMAIN ids) \X (DOMAIN ids) :
                  ids[p[1]] < ids[p[2]] \/ (ids[p[1]] = ids[p[2]] /\ p[1] < p[2])})
  IN [k \in DOMAIN ids |-> ids[places[k]]]

\* Adds an ID the selection does not have, up to limit devices.
addNew(selected, id, limit) ==
  IF Len(selected) < limit /\ id \notin Range(selected) THEN Append(selected, id) ELSE selected

\* The loops of preferredDevices: selected after the IDs of the list.
addAll(selected, ids, limit) ==
  LET after[n \in 0..Len(ids)] ==
        IF n = 0 THEN selected ELSE addNew(after[n - 1], ids[n], limit)
  IN after[Len(ids)]

\* A mutant of preferredDevices: required devices are not looked up.
preferredUnchecked(request) ==
  LET required == addAll(<<>>, sorted(request.must), Len(request.must))
  IN IF request.size \notin 0..Len(request.available) \/ Len(required) > request.size
     THEN Refused
     ELSE addAll(required, sorted(request.available), request.size)

preferredDevices(request) ==
  LET required == addAll(<<>>, sorted(request.must), Len(request.must))
  IN IF \/ request.size \notin 0..Len(request.available)
        \/ ~(Range(request.must) \subseteq Range(request.available))
        \/ Len(required) > request.size
     THEN Refused
     ELSE addAll(required, sorted(request.available), request.size)
===============================================================================
