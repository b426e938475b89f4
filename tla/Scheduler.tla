----------------------------- MODULE Scheduler -----------------------------
(***************************************************************************)
(* The job scheduler around one job: the ticker goroutine and manual       *)
(* triggers that run it, the RUNNING rows of job_run_history, shutdown,    *)
(* crash and restart.  Completed rows are not kept: of a row that stays    *)
(* RUNNING with nobody left to finish it, only the boot it is from is.     *)
(*                                                                         *)
(* Every statement may fail.  One whose context Stop has canceled always   *)
(* does; any other failure is a fault of the database.  What the           *)
(* environment does (faults, crashes, stops, triggers, edits) is bounded   *)
(* by MaxEvents.                                                           *)
(***************************************************************************)
EXTENDS Integers

CONSTANTS
    Manual,     \* manual runs that may be in progress at a time
    MaxEvents   \* bound of a run: events of the environment

ASSUME SchedulerAssumption == MaxEvents \in Nat /\ "ticker" \notin Manual

Worker == {"ticker"} \cup Manual

VARIABLES
    server,      \* the process: up, stopping (in Scheduler.Stop) or down
    enabled,     \* job_schedules.enabled
    registered,  \* whether this process has the job
    worker,      \* where each run of the job is, and whether it has a row
    orphans,     \* the boots that left a RUNNING row behind
    faulty,      \* a statement has failed in this boot
    events       \* what the environment has done

schedulerVars == <<server, enabled, registered, worker, orphans, faulty, events>>

SchedulerTypeOK ==
    /\ server \in {"up", "stopping", "down"}
    /\ {enabled, registered, faulty} \subseteq BOOLEAN
    /\ worker \in [Worker -> [at : {"idle", "working", "returned"}, row : BOOLEAN]]
    /\ orphans \subseteq {"this_boot", "earlier_boot"}
    /\ events \in 0 .. MaxEvents

NoRun == [at |-> "idle", row |-> FALSE]

SchedulerInit ==
    /\ server = "up"
    /\ enabled = TRUE
    /\ registered = TRUE
    /\ worker = [w \in Worker |-> NoRun]
    /\ orphans = {}
    /\ faulty = FALSE
    /\ events = 0

-----------------------------------------------------------------------------
Event == events < MaxEvents /\ events' = events + 1

(* Stop cancels the ticker's context; a manual run has context.Background.   *)
Canceled(w) == w = "ticker" /\ server = "stopping"

Succeeds(w) == ~Canceled(w) /\ UNCHANGED <<faulty, events>>

Fails(w) ==
    IF Canceled(w) THEN UNCHANGED <<faulty, events>>
    ELSE Event /\ faulty' = TRUE

(* runOnce: the job runs even when its row could not be inserted.            *)
StartRun(w, inserted) ==
    /\ registered
    /\ worker[w].at = "idle"
    /\ worker' = [worker EXCEPT ![w] = [at |-> "working", row |-> inserted]]
    /\ UNCHANGED <<server, enabled, registered, orphans>>

TickerFires ==
    /\ server = "up"
    /\ \/ Succeeds("ticker") /\ StartRun("ticker", TRUE)
       \/ Fails("ticker") /\ StartRun("ticker", FALSE)

(* TriggerJob, RunOnce: requests are still served while Stop waits.          *)
Trigger(m) ==
    /\ server \in {"up", "stopping"}
    /\ Event
    /\ \/ UNCHANGED faulty /\ StartRun(m, TRUE)
       \/ faulty' = TRUE /\ StartRun(m, FALSE)

Return(w) == worker' = [worker EXCEPT ![w].at = "returned"]

FinishDropsRow(w) ==                                               \* mutant
    /\ worker[w].at = "returned"
    /\ Succeeds(w)
    /\ orphans' = IF worker[w].row THEN orphans \cup {"this_boot"} ELSE orphans
    /\ worker' = [worker EXCEPT ![w] = NoRun]
    /\ UNCHANGED <<server, enabled, registered>>

FinishInsists(w) ==                                                \* mutant
    /\ worker[w].at = "returned"
    /\ Succeeds(w)
    /\ worker' = [worker EXCEPT ![w] = NoRun]
    /\ UNCHANGED <<server, enabled, registered, orphans>>

(* The row gets its final status, or stays RUNNING.                          *)
Finish(w) ==
    /\ worker[w].at = "returned"
    /\ \/ Succeeds(w) /\ UNCHANGED orphans
       \/ Fails(w) /\ orphans' = IF worker[w].row THEN orphans \cup {"this_boot"} ELSE orphans
    /\ worker' = [worker EXCEPT ![w] = NoRun]
    /\ UNCHANGED <<server, enabled, registered>>

-----------------------------------------------------------------------------
(* PostUpdateJobSchedule: nothing but the next start reads it.               *)
UpdateSchedule ==
    /\ server # "down"
    /\ Event
    /\ enabled' = ~enabled
    /\ UNCHANGED <<server, registered, worker, orphans, faulty>>

Stop ==
    /\ server = "up"
    /\ Event
    /\ server' = "stopping"
    /\ UNCHANGED <<enabled, registered, worker, orphans, faulty>>

(* The process is gone, and every run in it.                                 *)
Die ==
    /\ server' = "down"
    /\ worker' = [w \in Worker |-> NoRun]
    /\ orphans' = IF orphans # {} \/ \E w \in Worker : worker[w].row
                  THEN {"earlier_boot"} ELSE {}
    /\ UNCHANGED <<enabled, registered, faulty>>

(* Stop has waited for the ticker; manual runs are not waited for.           *)
Exit == server = "stopping" /\ worker["ticker"].at = "idle" /\ Die /\ UNCHANGED events

Crash == server # "down" /\ Event /\ Die

(* registerScheduledJobs: a schedule that cannot be read counts as enabled.  *)
Restart ==
    /\ server = "down"
    /\ server' = "up"
    /\ \/ registered' = enabled /\ faulty' = FALSE /\ UNCHANGED events
       \/ registered' = TRUE /\ faulty' = TRUE /\ Event
    /\ UNCHANGED <<enabled, worker, orphans>>

-----------------------------------------------------------------------------
(* Properties *)

(* The history tells the truth about this process: a row of this boot that   *)
(* is RUNNING although its run is over takes a failed statement or a         *)
(* shutdown (runOnce, Finish).                                               *)
RunningRowsRun ==
    server = "up" /\ "this_boot" \in orphans => faulty

=============================================================================
