------------------------------ MODULE MCMessaging ------------------------------
(* Constants of the runs of Messaging. *)
EXTENDS Messaging, TLC

Symmetry == Permutations(Operator) \cup Permutations(HandoffChannel)
=============================================================================
