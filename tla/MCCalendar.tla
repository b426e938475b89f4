----------------------------- MODULE MCCalendar -----------------------------
(* A small instance of Calendar for TLC. *)
EXTENDS Calendar

\* Days of four units, weeks of three days: office hours on two days, late
\* hours on every day, a form without a day.
SomeForms ==
    { [opens |-> 1, closes |-> 3, days |-> {0, 1}],
      [opens |-> 2, closes |-> 4, days |-> {0, 1, 2}],
      [opens |-> 1, closes |-> 3, days |-> {}] }
=============================================================================
