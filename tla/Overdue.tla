------------------------------ MODULE Overdue ------------------------------
(***************************************************************************)
(* The overdue job run by the scheduler, the business calendar it computes *)
(* deadlines from, and the exceptions it opens and staff work on.          *)
(*                                                                         *)
(* A run takes a snapshot of the fulfillments that are ready and goes      *)
(* through it one statement at a time: the settings one by one, the        *)
(* blackout dates, whether an exception is open, the insert.  A statement  *)
(* that fails is passed over: a setting falls back to its default, blackout*)
(* dates to none, anything else to the next fulfillment.                   *)
(***************************************************************************)
EXTENDS Scheduler, Calendar, SequencesExt

CONSTANTS
    FulfillmentId,
    TypeOf,        \* PHYSICAL or VOUCHER
    DefaultHours,  \* what loadBusinessConfig assumes
    MaxTime        \* bound of a run: the clock stops here

ASSUME OverdueAssumption ==
    /\ IsFiniteSet(FulfillmentId)
    /\ TypeOf \in [FulfillmentId -> {"PHYSICAL", "VOUCHER"}]
    /\ DefaultHours \in Hours
    /\ MaxTime \in Nat /\ MaxTime < (LastDay + 2) * DayLength

VARIABLES
    now,
    ful,   \* ready_at while READY_TO_SHIP, NULL otherwise; deleted_at
    exc,   \* fulfillment_exceptions of a fulfillment's overdue type
    openings, \* how often one has been opened or reopened
    job    \* where each run of the job is in it

overdueVars == <<schedulerVars, calendarVars, now, ful, exc, openings, job>>

ExceptionStatus == {"OPEN", "INVESTIGATING", "RESOLVED"}

Candidate == [f : FulfillmentId, ready : 0 .. MaxTime]

(* seen: the openings there had been when the run found none open.           *)
NoJob == [at |-> "idle", todo |-> <<>>, cfg |-> DefaultHours, black |-> {}, seen |-> 0]

(* opened: which of the openings was its last; seen: what the run that opened*)
(* it had seen, and 0 of staff, who do not look.                             *)
ExceptionRow == [status : ExceptionStatus, opened : Nat, seen : Nat]

OverdueTypeOK ==
    /\ SchedulerTypeOK
    /\ CalendarTypeOK
    /\ now \in 0 .. MaxTime
    /\ ful \in [FulfillmentId -> [ready : 0 .. MaxTime \cup {NULL}, deleted : BOOLEAN]]
    /\ \A f \in FulfillmentId : \A i \in DOMAIN exc[f] :
         exc[f][i] \in ExceptionRow
    /\ openings \in [FulfillmentId -> Nat]
    /\ \A w \in Worker :
         /\ job[w].at \in {"idle", "list", "each", "blackouts", "check", "create", "spinning"} \cup Key
         /\ \A i \in DOMAIN job[w].todo : job[w].todo[i] \in Candidate
         /\ job[w].cfg \in Hours
         /\ job[w].black \subseteq 0 .. LastDay
         /\ job[w].seen \in Nat
         /\ job[w].at # "idle" <=> worker[w].at = "working"

OverdueInit ==
    /\ SchedulerInit
    /\ CalendarInit
    /\ now = 0
    /\ calendar = DefaultHours
    /\ ful = [f \in FulfillmentId |-> [ready |-> 0, deleted |-> FALSE]]
    /\ exc = [f \in FulfillmentId |-> <<>>]
    /\ openings = [f \in FulfillmentId |-> 0]
    /\ job = [w \in Worker |-> NoJob]

-----------------------------------------------------------------------------
(* The rest of the system, as far as it is seen from here *)

Set(f, row) ==
    /\ server # "down"
    /\ Event
    /\ ful' = [ful EXCEPT ![f] = row]
    /\ UNCHANGED <<server, enabled, registered, worker, orphans, faulty, calendarVars, now, exc, openings, job>>

(* Into READY_TO_SHIP, for the first time or after a hold.                   *)
MakeReady(f) == ~ful[f].deleted /\ ful[f].ready = NULL /\ Set(f, [ful[f] EXCEPT !.ready = now])

LeaveReady(f) == ~ful[f].deleted /\ ful[f].ready # NULL /\ Set(f, [ful[f] EXCEPT !.ready = NULL])

DeleteOrRestore(f) == Set(f, [ful[f] EXCEPT !.deleted = ~@])

Configure ==
    /\ server # "down"
    /\ \/ /\ Event /\ UNCHANGED faulty
          /\ \/ \E form \in Forms : SaveForm(form) \/ \E k \in Key : SetSetting(k, form)
             \/ \E d \in 0 .. LastDay : CreateBlackoutDate(d) \/ DeleteBlackoutDate(d)
       \/ SaveNext(FALSE) /\ UNCHANGED <<faulty, events>>
       \/ SaveNext(TRUE) /\ Event /\ faulty' = TRUE
    /\ UNCHANGED <<server, enabled, registered, worker, orphans, now, ful, exc, openings, job>>

Opens(f, seen) ==
    /\ exc' = [exc EXCEPT ![f] = Append(@, [status |-> "OPEN", opened |-> openings[f] + 1, seen |-> seen])]
    /\ openings' = [openings EXCEPT ![f] = @ + 1]

(* ExceptionService.Create: staff may open an exception of any type.         *)
CreateException(f) ==
    /\ server # "down"
    /\ Event
    /\ Opens(f, 0)
    /\ UNCHANGED <<server, enabled, registered, worker, orphans, faulty, calendarVars, now, ful, job>>

(* ExceptionService.UpdateStatus: from any status to any other, without a    *)
(* version.  ESCALATED is like INVESTIGATING.                                *)
UpdateStatus(f, i, status) ==
    /\ server # "down"
    /\ Event
    /\ IF exc[f][i].status = "RESOLVED" /\ status # "RESOLVED"
       THEN /\ exc' = [exc EXCEPT ![f][i] = [status |-> status, opened |-> openings[f] + 1, seen |-> 0]]
            /\ openings' = [openings EXCEPT ![f] = @ + 1]
       ELSE exc' = [exc EXCEPT ![f][i].status = status] /\ UNCHANGED openings
    /\ UNCHANGED <<server, enabled, registered, worker, orphans, faulty, calendarVars, now, ful, job>>

Tick ==
    /\ now < MaxTime
    /\ now' = now + 1
    /\ UNCHANGED <<schedulerVars, calendarVars, ful, exc, openings, job>>

-----------------------------------------------------------------------------
(* OverdueJob.Run *)

At(w, p) == job[w].at = p

Current(w) == Head(job[w].todo)

(* A statement of run w that leaves the scheduler's own state alone.         *)
Reads == UNCHANGED <<server, enabled, registered, worker, orphans, calendarVars, now, ful, exc, openings>>

Goes(w, p) == job' = [job EXCEPT ![w].at = p]

NextCandidate(w) == job' = [job EXCEPT ![w] = [NoJob EXCEPT !.at = "each", !.todo = Tail(job[w].todo)]]

Returns(w) ==
    /\ job' = [job EXCEPT ![w] = NoJob]
    /\ Return(w)
    /\ UNCHANGED <<server, enabled, registered, orphans, calendarVars, now, ful, exc, openings>>

Begin(w) ==
    /\ IF w = "ticker" THEN TickerFires ELSE Trigger(w)
    /\ Goes(w, "list")
    /\ UNCHANGED <<calendarVars, now, ful, exc, openings>>

Candidates ==
    { [f |-> f, ready |-> ful[f].ready] :
        f \in { g \in FulfillmentId : ful[g].ready # NULL /\ ~ful[g].deleted } }

(* ORDER BY ready_at: rows of the same moment come in any order.             *)
ReadyOrders ==
    { todo \in SetToSeqs(Candidates) :
        \A i, j \in DOMAIN todo : i < j => todo[i].ready <= todo[j].ready }

ListOverdue(w) ==
    /\ At(w, "list")
    /\ \/ /\ Succeeds(w)
          /\ \E todo \in ReadyOrders : job' = [job EXCEPT ![w].at = "each", ![w].todo = todo]
          /\ Reads
       \/ Fails(w) /\ Returns(w)

IsOverdueAt(deadline) == now >= deadline                           \* mutant

IsOverdue(deadline) == now > deadline

Each(w) ==
    /\ At(w, "each")
    /\ IF job[w].todo = <<>> THEN Returns(w)
       ELSE /\ Reads
            /\ IF TypeOf[Current(w).f] = "VOUCHER" THEN Goes(w, "opens")
               ELSE IF IsOverdue(PhysicalDeadline(Current(w).ready)) THEN Goes(w, "check")
               ELSE NextCandidate(w)
    /\ UNCHANGED <<faulty, events>>

AfterKey == [opens |-> "closes", closes |-> "days", days |-> "blackouts"]

(* loadBusinessConfig: a setting that cannot be read has its default.        *)
LoadSetting(w) ==
    /\ job[w].at \in Key
    /\ LET k == job[w].at IN
       \/ Succeeds(w) /\ job' = [job EXCEPT ![w].at = AfterKey[k], ![w].cfg[k] = calendar[k]]
       \/ Fails(w) /\ job' = [job EXCEPT ![w].at = AfterKey[k], ![w].cfg[k] = DefaultHours[k]]
    /\ Reads

(* The error of GetBetween is dropped; then the loop, which nothing stops.   *)
LoadBlackouts(w) ==
    /\ At(w, "blackouts")
    /\ \E black \in {GetBetween(Current(w).ready), {}} :
         /\ \/ black = GetBetween(Current(w).ready) /\ Succeeds(w)
            \/ black = {} /\ Fails(w)
         /\ LET d == VoucherDeadline(job[w].cfg, black, Current(w).ready) IN
            IF d # NULL /\ ~IsOverdue(d) THEN NextCandidate(w)
            ELSE job' = [job EXCEPT ![w].at = IF d = NULL THEN "spinning" ELSE "check",
                                    ![w].black = black]
    /\ Reads

ExistsOnlyOpen(f) == \E i \in DOMAIN exc[f] : exc[f][i].status = "OPEN"   \* mutant

ExistsEver(f) == exc[f] # <<>>                                     \* mutant

ExistsOpenForFulfillment(f) == \E i \in DOMAIN exc[f] : exc[f][i].status # "RESOLVED"

Check(w) ==
    /\ At(w, "check")
    /\ \/ /\ Succeeds(w)
          /\ IF ExistsOpenForFulfillment(Current(w).f) THEN NextCandidate(w)
             ELSE job' = [job EXCEPT ![w].at = "create", ![w].seen = openings[Current(w).f]]
       \/ Fails(w) /\ NextCandidate(w)
    /\ Reads

CreateSystem(w) ==
    /\ At(w, "create")
    /\ \/ Succeeds(w) /\ Opens(Current(w).f, job[w].seen)
       \/ Fails(w) /\ UNCHANGED <<exc, openings>>
    /\ NextCandidate(w)
    /\ UNCHANGED <<server, enabled, registered, worker, orphans, calendarVars, now, ful>>

RunStep(w) ==
    \/ ListOverdue(w) \/ Each(w) \/ LoadSetting(w) \/ LoadBlackouts(w)
    \/ Check(w) \/ CreateSystem(w)
    \/ Finish(w) /\ UNCHANGED <<calendarVars, now, ful, exc, openings, job>>

ProcessEndsButRuns ==                                              \* mutant
    /\ Exit \/ Crash
    /\ saving' = NULL
    /\ UNCHANGED <<calendar, blackouts, now, ful, exc, openings, job>>

(* What ends with the process: every run, and a form half saved.             *)
ProcessEnds ==
    /\ Exit \/ Crash
    /\ job' = [w \in Worker |-> NoJob]
    /\ saving' = NULL
    /\ UNCHANGED <<calendar, blackouts, now, ful, exc, openings>>

Operate ==
    /\ Restart \/ Stop \/ UpdateSchedule
    /\ UNCHANGED <<calendarVars, now, ful, exc, openings, job>>

OverdueNext ==
    \/ \E w \in Worker : Begin(w) \/ RunStep(w)
    \/ \E f \in FulfillmentId :
         \/ MakeReady(f) \/ LeaveReady(f) \/ DeleteOrRestore(f) \/ CreateException(f)
         \/ \E i \in DOMAIN exc[f], s \in ExceptionStatus : UpdateStatus(f, i, s)
    \/ Configure
    \/ ProcessEnds
    \/ Operate
    \/ Tick

(* Go schedules every goroutine and the ticker keeps firing; a process that  *)
(* is stopping exits once it can.                                            *)
OverdueSpec ==
    /\ OverdueInit
    /\ [][OverdueNext]_overdueVars
    /\ \A w \in Worker : WF_overdueVars(RunStep(w))
    /\ WF_overdueVars(Begin("ticker"))
    /\ WF_overdueVars(Configure /\ saving' # saving /\ saving # NULL)
    /\ WF_overdueVars(Exit /\ ProcessEnds)

-----------------------------------------------------------------------------
(* Properties *)

(* Duplicates take an overlap: a run opens an exception beside another one   *)
(* that is not resolved only if that was opened or reopened, by another run  *)
(* or by staff, after the run had looked for it and before its insert        *)
(* (ExistsOpenForFulfillment and CreateSystem are two statements).  Staff may*)
(* open or reopen one beside another at any time.                            *)
DuplicatesOnlyByOverlap ==
    \A f \in FulfillmentId : \A i, j \in DOMAIN exc[f] :
        LET first == exc[f][i] second == exc[f][j] IN
        /\ first.status # "RESOLVED" /\ second.status # "RESOLVED"
        /\ first.opened < second.opened
        => second.seen < first.opened

(* No exception is opened early: between the moment the fulfillment became   *)
(* ready, as the run saw it, and its exception, all of its time has passed,  *)
(* counted unit by unit on the hours and dates the run has read.             *)
NeverEarly ==
    [][\A w \in Worker :
         CreateSystem(w) /\ exc' # exc =>
            LET c == Current(w) IN
            IF TypeOf[c.f] = "PHYSICAL" THEN now > c.ready + PhysicalSLA
            ELSE Cardinality(OpenUnits(job[w].cfg, job[w].black, c.ready, now)) >= Need]_overdueVars

Late(f) ==
    /\ ful[f].ready # NULL
    /\ ~ful[f].deleted
    /\ LET d == IF TypeOf[f] = "PHYSICAL" THEN PhysicalDeadline(ful[f].ready)
                ELSE VoucherDeadline(calendar, GetBetween(ful[f].ready), ful[f].ready)
       IN d # NULL /\ now > d

Reported(f) == \E i \in DOMAIN exc[f] : exc[f][i].status # "RESOLVED"

Spinning == At("ticker", "spinning")

(* What stays overdue while the job runs is reported, whatever failed        *)
(* before, unless the ticker is lost in the search for a voucher's deadline: *)
(* one voucher and hours without business time keep every other fulfillment  *)
(* from being looked at, even after the hours are put right.                 *)
OverdueIsReported ==
    \A f \in FulfillmentId :
        <>[](Late(f) /\ server = "up" /\ registered)
            => []<>Reported(f) \/ <>[]Spinning

(* Shutdown comes to its end, unless the ticker is lost in that search:      *)
(* Stop waits for it and nothing interrupts it.                              *)
StopEnds == server = "stopping" ~> (server # "stopping" \/ Spinning)
=============================================================================
