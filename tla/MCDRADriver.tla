------------------------------ MODULE MCDRADriver ------------------------------
(***************************************************************************)
(* Instances of DRADriver.  With three devices two claims can be disjoint, *)
(* overlap in part and coincide.                                           *)
(***************************************************************************)
EXTENDS DRADriver

\* One device may be the result of two requests of the claim.
WithRepeats == [devices : (SUBSET Devices) \ {{}}, repeated : BOOLEAN]
===============================================================================
