--------------------------- MODULE MCTierEditing ---------------------------
(* A small instance of TierEditing for TLC. *)
EXTENDS TierEditing, TLC

CONSTANT t1

OneUnit == (t1 :> 1)
LimitTwo == (t1 :> 2)

Symmetry == Permutations(FulfillmentId) \cup Permutations(Admin)
=============================================================================
