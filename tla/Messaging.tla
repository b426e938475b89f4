------------------------------- MODULE Messaging -------------------------------
(***************************************************************************)
(* Send logs: dispatch to the in-app inbox and to the offline handoff      *)
(* queue, printing, failure reports and the retry job.  None of these runs *)
(* in a transaction: every action here is one SQL statement, and between   *)
(* two statements of one operation any other operation may run.  An        *)
(* operation may also end between two statements, when the server stops or *)
(* the request's context is canceled.                                      *)
(*                                                                         *)
(* One tick of the clock is ten minutes.                                   *)
(***************************************************************************)
EXTENDS Integers, FiniteSets

CONSTANTS
    DispatchId,       \* dispatch_ids that may be drawn
    HandoffChannel,   \* SMS, EMAIL
    Operator,         \* requests that report a failed handoff
    Ticker,           \* the scheduler's loop over the notify-retry job
    Manual,           \* manual runs of that job, beside the loop
    NULL,
    MaxAttempts,      \* maxAttempts of RetryPending (3)
    Window,           \* its 30 minutes, in ticks
    MaxReports,       \* bound of a run: failures one row is reported
    ReportUntil,      \* bound of a run: no report is made later
    MaxTime,          \* bound of a run: the clock stops here
    MaxAborts         \* bound of a run: operations and statements that fail half way

ASSUME MessagingAssumption ==
    /\ {MaxAttempts, Window, MaxReports, ReportUntil, MaxAborts} \subseteq Nat
    /\ MaxTime \in Nat /\ MaxTime > ReportUntil + MaxReports
    /\ "IN_APP" \notin HandoffChannel
    /\ Ticker \cap Manual = {}

VARIABLES
    now,
    log,       \* send_logs, by dispatch and channel
    pending,   \* of a Dispatch: the channels asked for and those still to queue
    report,    \* the MarkFailed an operator's request is in, or NULL
    run,       \* the RetryPending of the loop and of manual runs
    aborts     \* operations and statements that failed half way

vars == <<now, log, pending, report, run, aborts>>

Retrier == Ticker \cup Manual
LogId == DispatchId \X ({"IN_APP"} \cup HandoffChannel)
Time == Nat \cup {NULL}

Row == [status : {"QUEUED", "SENT", "PRINTED", "FAILED"}, attempts : Nat,
        nextRetry : Time, firstFailed : Time]

(* What an operation remembers of a row it read. *)
Seen == [id : LogId, attempts : Nat, firstFailed : Time]

Report == [id : LogId, stage : {"checked", "written"}] \cup
          [id : LogId, stage : {"read"}, seen : Seen]

(* A Dispatch.  cut: it ended before all was queued.  asked and cut are kept  *)
(* for the properties; once todo is empty the program knows neither.          *)
Sending == [asked : SUBSET HandoffChannel, todo : SUBSET HandoffChannel, cut : BOOLEAN]

NotSent == [asked |-> {}, todo |-> {}, cut |-> FALSE]

(* A RetryPending: its now, the rows it has still to do, the row it has set   *)
(* to QUEUED and not yet rescheduled.                                         *)
Run == [at : Nat, todo : SUBSET Seen, half : Seen \cup {NULL}]

ASSUME NullAssumption == NULL \notin Nat \cup Row \cup Seen \cup Report

MessagingTypeOK ==
    /\ now \in Nat
    /\ log \in [LogId -> Row \cup {NULL}]
    /\ pending \in [DispatchId -> Sending]
    /\ report \in [Operator -> Report \cup {NULL}]
    /\ run \in [Retrier -> Run]
    /\ aborts \in Nat

Exists(l) == log[l] # NULL

SeenOf(l) == [id |-> l, attempts |-> log[l].attempts, firstFailed |-> log[l].firstFailed]

Idle == [at |-> 0, todo |-> {}, half |-> NULL]

Init ==
    /\ now = 0
    /\ log = [l \in LogId |-> NULL]
    /\ pending = [d \in DispatchId |-> NotSent]
    /\ report = [o \in Operator |-> NULL]
    /\ run = [r \in Retrier |-> Idle]
    /\ aborts = 0

-----------------------------------------------------------------------------
(* SendLogRepository *)

Create(l, status, nextRetry) ==
    log' = [log EXCEPT ![l] = [status |-> status, attempts |-> 0,
                               nextRetry |-> nextRetry, firstFailed |-> NULL]]

RefundOnRequeue(l, status) ==                                      \* mutant
    LET failed == status = "FAILED" IN
    log' = [log EXCEPT ![l].status = status,
                       ![l].attempts = IF failed THEN @ + 1 ELSE @ - 1,
                       ![l].firstFailed = IF failed /\ @ = NULL THEN now ELSE @]

(* WHERE id = l, whatever the status is now. *)
UpdateStatus(l, status) ==
    LET failed == status = "FAILED" IN
    log' = [log EXCEPT ![l].status = status,
                       ![l].attempts = IF failed THEN @ + 1 ELSE @,
                       ![l].firstFailed = IF failed /\ @ = NULL THEN now ELSE @]

UpdateNextRetry(l, at) == log' = [log EXCEPT ![l].nextRetry = at]

ClearNextRetry(l) == UpdateNextRetry(l, NULL)

RetryableQueued(at) ==                                             \* mutant
    { l \in LogId : /\ Exists(l)
                    /\ log[l].status = "QUEUED"
                    /\ log[l].nextRetry # NULL
                    /\ log[l].nextRetry <= at }

GetRetryable(at) ==
    { l \in LogId : /\ Exists(l)
                    /\ log[l].status = "FAILED"
                    /\ log[l].nextRetry # NULL
                    /\ log[l].nextRetry <= at }

-----------------------------------------------------------------------------
(* Dispatch: the in-app record first, then the other channels one by one. *)

Dispatch(d, channels) ==
    /\ ~Exists(<<d, "IN_APP">>)
    /\ Create(<<d, "IN_APP">>, "SENT", NULL)
    /\ pending' = [pending EXCEPT ![d] = [asked |-> channels, todo |-> channels, cut |-> FALSE]]
    /\ UNCHANGED <<now, report, run, aborts>>

Queue(d, channel) ==
    /\ channel \in pending[d].todo
    /\ Create(<<d, channel>>, "QUEUED", now + 1)
    /\ pending' = [pending EXCEPT ![d].todo = @ \ {channel}]
    /\ UNCHANGED <<now, report, run, aborts>>

MarkPrinted(l) ==
    /\ Exists(l) /\ log[l].status = "QUEUED"
    /\ log' = [log EXCEPT ![l].status = "PRINTED"]
    /\ UNCHANGED <<now, pending, report, run, aborts>>

-----------------------------------------------------------------------------
(* MarkFailed: check, write, read again, schedule the retry. *)

MayFailAny(l) == TRUE                                              \* mutant

MayFail(l) == log[l].status \in {"QUEUED", "FAILED"}

CheckStatus(o, l) ==
    /\ report[o] = NULL
    /\ now <= ReportUntil
    /\ Exists(l)
    /\ MayFail(l)
    /\ report' = [report EXCEPT ![o] = [id |-> l, stage |-> "checked"]]
    /\ UNCHANGED <<now, log, pending, run, aborts>>

WriteFailed(o) ==
    /\ report[o] # NULL /\ report[o].stage = "checked"
    /\ now <= ReportUntil
    /\ log[report[o].id].attempts < MaxReports
    /\ UpdateStatus(report[o].id, "FAILED")
    /\ report' = [report EXCEPT ![o] = [id |-> @.id, stage |-> "written"]]
    /\ UNCHANGED <<now, pending, run, aborts>>

ReadAgain(o) ==
    /\ report[o] # NULL /\ report[o].stage = "written"
    /\ report' = [report EXCEPT ![o] = [id |-> @.id, stage |-> "read", seen |-> SeenOf(@.id)]]
    /\ UNCHANGED <<now, log, pending, run, aborts>>

RetryFromNow(s) == now + s.attempts                                \* mutant

(* first_failed_at + attempt_count * 10 minutes *)
RetryAfterFailure(s) == s.firstFailed + s.attempts

ScheduleRetry(o) ==
    /\ report[o] # NULL /\ report[o].stage = "read"
    /\ UpdateNextRetry(report[o].id, RetryAfterFailure(report[o].seen))
    /\ report' = [report EXCEPT ![o] = NULL]
    /\ UNCHANGED <<now, pending, run, aborts>>

-----------------------------------------------------------------------------
(* RetryPending: a snapshot of the failed rows that are due, then one row    *)
(* after the other.  A row is given up, or queued and rescheduled by two     *)
(* statements, on what the snapshot says of it.                              *)

StartRetry(r) ==
    /\ run[r] = Idle
    /\ GetRetryable(now) # {}
    /\ run' = [run EXCEPT ![r] = [at |-> now, half |-> NULL,
                                  todo |-> {SeenOf(l) : l \in GetRetryable(now)}]]
    /\ UNCHANGED <<now, log, pending, report, aborts>>

WindowClosed(at, s) == s.firstFailed # NULL /\ at > s.firstFailed + Window

ExhaustedEarly(at, s) ==                                           \* mutant
    WindowClosed(at + 1, s) \/ s.attempts + 1 >= MaxAttempts

Exhausted(at, s) == WindowClosed(at, s) \/ s.attempts >= MaxAttempts

(* Relative to the first failure, so the spacing does not drift. *)
NextSlot(at, s) == IF s.firstFailed = NULL THEN at + 1
                   ELSE s.firstFailed + s.attempts + 1

(* The loop's state once the row s is done. *)
Done(r, s) == LET todo == run[r].todo \ {s} IN
              IF todo = {} THEN Idle ELSE [run[r] EXCEPT !.todo = todo, !.half = NULL]

GiveUp(r, s) ==
    /\ s \in run[r].todo /\ run[r].half = NULL
    /\ Exhausted(run[r].at, s)
    /\ ClearNextRetry(s.id)
    /\ run' = [run EXCEPT ![r] = Done(r, s)]
    /\ UNCHANGED <<now, pending, report, aborts>>

Requeue(r, s) ==
    /\ s \in run[r].todo /\ run[r].half = NULL
    /\ ~Exhausted(run[r].at, s)
    /\ UpdateStatus(s.id, "QUEUED")
    /\ run' = [run EXCEPT ![r].half = s]
    /\ UNCHANGED <<now, pending, report, aborts>>

Reschedule(r) ==
    /\ run[r].half # NULL
    /\ LET s == run[r].half IN
       /\ UpdateNextRetry(s.id, NextSlot(run[r].at, s))
       /\ run' = [run EXCEPT ![r] = Done(r, s)]
    /\ UNCHANGED <<now, pending, report, aborts>>

RetryStep(r) == (\E s \in run[r].todo : GiveUp(r, s) \/ Requeue(r, s)) \/ Reschedule(r)

-----------------------------------------------------------------------------
(* An operation ends between two of its statements, or a statement of a run   *)
(* fails and the run, which ignores the error, goes on with the next.         *)

AbortDispatch(d) ==
    /\ pending[d].todo # {}
    /\ pending' = [pending EXCEPT ![d].todo = {}, ![d].cut = TRUE]
    /\ UNCHANGED <<report, run>>

AbortReport(o) ==
    /\ report[o] # NULL
    /\ report' = [report EXCEPT ![o] = NULL]
    /\ UNCHANGED <<pending, run>>

AbortRetry(r) ==
    /\ run[r] # Idle
    /\ run' = [run EXCEPT ![r] = Idle]
    /\ UNCHANGED <<pending, report>>

FailStatement(r) ==
    /\ \/ \E s \in run[r].todo :
            /\ run[r].half = NULL
            /\ run' = IF Exhausted(run[r].at, s) THEN [run EXCEPT ![r] = Done(r, s)]
                                                 ELSE [run EXCEPT ![r].half = s]
       \/ /\ run[r].half # NULL
          /\ run' = [run EXCEPT ![r] = Done(r, run[r].half)]
    /\ UNCHANGED <<pending, report>>

Abort ==
    /\ aborts < MaxAborts
    /\ aborts' = aborts + 1
    /\ \/ \E d \in DispatchId : AbortDispatch(d)
       \/ \E o \in Operator : AbortReport(o)
       \/ \E r \in Retrier : AbortRetry(r) \/ FailStatement(r)
    /\ UNCHANGED <<now, log>>

Tick == now < MaxTime /\ now' = now + 1 /\ UNCHANGED <<log, pending, report, run, aborts>>

Next ==
    \/ \E d \in DispatchId :
         \/ \E channels \in SUBSET HandoffChannel : Dispatch(d, channels)
         \/ \E channel \in HandoffChannel : Queue(d, channel)
    \/ \E l \in LogId : MarkPrinted(l)
    \/ \E o \in Operator :
         \/ \E l \in LogId : CheckStatus(o, l)
         \/ WriteFailed(o) \/ ReadAgain(o) \/ ScheduleRetry(o)
    \/ \E r \in Retrier : StartRetry(r) \/ RetryStep(r)
    \/ Abort
    \/ Tick

Spec == Init /\ [][Next]_vars

(* The scheduler starts the job again and again, a run that was started goes  *)
(* on, and the clock does.  Nothing makes an operator act.                    *)
FairSpec ==
    /\ Spec
    /\ \A r \in Ticker : WF_vars(StartRetry(r)) /\ WF_vars(RetryStep(r))
    /\ WF_vars(Tick)

-----------------------------------------------------------------------------
(* Properties *)

(* Whatever fails half way and whoever reports and retries meanwhile, a       *)
(* dispatch is accounted for (Dispatch, MarkFailed's check, GetRetryable).    *)
(* Its in-app record is there before anything is queued, is sent at once and  *)
(* is never touched again: no failure report or retry reaches it.  Every      *)
(* channel that was asked for is queued or still to be queued, unless the     *)
(* dispatch was cut off: then the rest is lost, nothing takes it up again.    *)
(* Nothing is queued that was not asked for.                                  *)
DispatchIsAccounted ==
    \A d \in DispatchId :
        LET inApp == log[<<d, "IN_APP">>] IN
        /\ inApp # NULL => inApp.status = "SENT" /\ inApp.attempts = 0
        /\ \A c \in HandoffChannel :
             /\ Exists(<<d, c>>) => inApp # NULL /\ c \in pending[d].asked
             /\ c \in pending[d].asked => Exists(<<d, c>>) \/ c \in pending[d].todo \/ pending[d].cut

(* A handoff that lost its retry time was given up for a reason that still    *)
(* holds: all attempts used, or the window closed, although the job decides   *)
(* on a snapshot while reports go on (RetryPending, ClearNextRetry).          *)
NotGivenUpEarly ==
    \A l \in LogId :
        Exists(l) /\ log[l].status # "SENT" /\ log[l].nextRetry = NULL =>
            /\ log[l].firstFailed # NULL
            /\ log[l].attempts >= MaxAttempts \/ now > log[l].firstFailed + Window

(* No interleaving of reports and overlapping runs postpones a retry beyond   *)
(* the slot that follows the row's attempts: the times are anchored at the    *)
(* first failure, never at the clock of whoever writes them (MarkFailed,      *)
(* RetryPending).                                                             *)
NoRetryPostponed ==
    \A l \in LogId :
        Exists(l) /\ log[l].firstFailed # NULL /\ log[l].nextRetry # NULL =>
            log[l].nextRetry <= log[l].firstFailed + log[l].attempts + 1

(* A failed handoff does not stay in limbo: the job queues it again or gives  *)
(* it up, even if the report that failed it never got to schedule the retry.  *)
FailedAndDue(l) == Exists(l) /\ log[l].status = "FAILED" /\ log[l].nextRetry # NULL

FailedIsHandled == \A l \in LogId : FailedAndDue(l) ~> ~FailedAndDue(l)

(* What MarkFailed's error says ("send_log must be QUEUED or FAILED to mark   *)
(* as failed") and its test demands: a printed handoff is never failed or     *)
(* queued again.  It does not hold: both writers check the status in an       *)
(* earlier statement than the one that overwrites it.                         *)
PrintedIsFinal ==
    [][\A l \in LogId :
         Exists(l) /\ log[l].status = "PRINTED" => log'[l].status = "PRINTED"]_vars
=============================================================================
