--------------------------------- MODULE Lists ---------------------------------
(***************************************************************************)
(* Sorting and filtering, as the algorithms use them.                      *)
(***************************************************************************)
EXTENDS Integers, Sequences, FiniteSets

\* sort.Slice and sort.Strings: the set S as a list.  before is the set of
\* pairs of the order; an element stands after as many others as come before it.
inOrder(S, before) ==
  [k \in 1..Cardinality(S) |->
     CHOOSE x \in S : Cardinality({y \in S : <<y, x>> \in before}) = k - 1]

\* A finite set of numbers in ascending order.
ascending(S) == inOrder(S, {p \in S \X S : p[1] < p[2]})

\* A loop that appends the elements it keeps: those of s at the places in I.
keep(s, I) ==
  LET places == ascending(I) IN [k \in DOMAIN places |-> s[places[k]]]
===============================================================================
