------------------------------ MODULE MCBackup ------------------------------
(* A small instance of Backup for TLC. *)
EXTENDS Backup

CONSTANTS x, y

TwoTrees == { {x}, {y} }

\* Starting with y alone would mirror starting with x.
TreeOrNone == { {x}, NULL }
=============================================================================
