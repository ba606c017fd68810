-------------------------- MODULE ExclusiveOwnership --------------------------
(***************************************************************************)
(* What every device-ownership table of the system promises, whatever it   *)
(* is made of: a unit has at most one holder, a holder takes all its units *)
(* in one step and only free ones, and it gives all of them back in one    *)
(* step.  The scheduler's reservation ledger and the state file of the DRA *)
(* driver are both shown to implement it.                                  *)
(***************************************************************************)
CONSTANTS
  Holders,   \* Pods for the ledger, ResourceClaims for the DRA driver
  Units,     \* what is held: node/device pairs, or the devices of one node
  Nobody     \* the owner of a free unit

VARIABLE owner

OwnerType == owner \in [Units -> Holders \cup {Nobody}]

HeldBy(h) == {u \in Units : owner[u] = h}

Init == owner = [u \in Units |-> Nobody]

Acquire(h, U) ==
  /\ U # {}
  /\ HeldBy(h) = {}
  /\ \A u \in U : owner[u] = Nobody
  /\ owner' = [u \in Units |-> IF u \in U THEN h ELSE owner[u]]

Release(h) ==
  /\ HeldBy(h) # {}
  /\ owner' = [u \in Units |-> IF owner[u] = h THEN Nobody ELSE owner[u]]

Next ==
  \E h \in Holders : Release(h) \/ \E U \in SUBSET Units : Acquire(h, U)

\* A durable table: nothing but its own operations changes it.
Spec == Init /\ [][Next]_owner

\* A table kept in memory: a restart of its process empties it.
Forget == owner' = [u \in Units |-> Nobody]

VolatileSpec == Init /\ [][Next \/ Forget]_owner
===============================================================================
