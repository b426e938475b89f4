----------------------------- MODULE MCOverdue -----------------------------
(* A small instance of Overdue for TLC. *)
EXTENDS Overdue, TLC

CONSTANTS v1, p1

\* Ready at once, the two are listed in either order; the voucher can keep the
\* physical one waiting.
Mixed == (v1 :> "VOUCHER" @@ p1 :> "PHYSICAL")

\* Days of two units, every day a business day: the first unit, or the second.
\* Half of one form and half of the other leaves no business time.
Default == [opens |-> 0, closes |-> 1, days |-> {0}]
TwoForms == { Default, [opens |-> 1, closes |-> 2, days |-> {0}] }
=============================================================================
