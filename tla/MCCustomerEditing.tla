------------------------- MODULE MCCustomerEditing -------------------------
(* A small instance of CustomerEditing for TLC. *)
EXTENDS CustomerEditing, TLC

CONSTANT t1

OneUnit == (t1 :> 1)
LimitTwo == (t1 :> 2)

Symmetry == Permutations(Admin)
=============================================================================
