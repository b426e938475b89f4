----------------------------- MODULE MCCleanup -----------------------------
(* Small instances of Cleanup for TLC. *)
EXTENDS Cleanup, TLC

CONSTANT t1

TwoUnits == (t1 :> 2)
LimitOne == (t1 :> 1)
LimitTwo == (t1 :> 2)

=============================================================================
