--------------------------- MODULE MCFulfillment ---------------------------
(* Small instances of Fulfillment for TLC. *)
EXTENDS Fulfillment, TLC

CONSTANT t1

\* Two units and a limit of one: two customers empty the tier, and one
\* customer meets the limit while a unit is left.
TwoUnits == (t1 :> 2)
LimitOne == (t1 :> 1)

Symmetry == Permutations(FulfillmentId) \cup Permutations(Address) \cup Permutations(Customer)
=============================================================================
