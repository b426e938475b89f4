--------------------------- MODULE MCTransactions ---------------------------
(* A small instance of Transactions for TLC. *)
EXTENDS Transactions, TLC

CONSTANTS t1, f1, f2, c1, a1, k1

OneUnit == (t1 :> 1)
LimitOne == (t1 :> 1)

\* Two creations for the last unit; f1 made ready without a version, canceled
\* and readdressed from a page.
Requests ==
    { [kind |-> "create", f |-> f, c |-> c1, t |-> t1, type |-> "PHYSICAL"] : f \in {f1, f2} }
    \cup { [kind |-> "transition", f |-> f1, to |-> "READY_TO_SHIP", a |-> a, page |-> NULL]
             : a \in {NULL, a1} }
    \cup { [kind |-> "transition", f |-> f1, to |-> "CANCELED", a |-> NULL, page |-> k1],
           [kind |-> "address", f |-> f1, a |-> a1, page |-> k1] }
=============================================================================
