---------------------------- MODULE MessagingProofs ----------------------------
(***************************************************************************)
(* Proofs about Messaging, for any number of dispatches, channels,         *)
(* operators and overlapping runs of the retry job.  Everything rests on   *)
(* one fact: what an operation remembers of a row never overstates it,     *)
(* because attempts only grow and a first failure stays where it is.       *)
(***************************************************************************)
EXTENDS Messaging, TLAPS

(* A row of the handoff queue, as opposed to an in-app record. *)
Handoff(l) == Exists(l) /\ log[l].status # "SENT"

(* What holds of a handoff row at time t. *)
RowOK(row, t) ==
    /\ row.status # "SENT"
    /\ row.status = "FAILED" => row.firstFailed # NULL
    /\ row.firstFailed # NULL => row.firstFailed <= t
    /\ row.nextRetry = NULL =>
         /\ row.firstFailed # NULL
         /\ row.attempts >= MaxAttempts \/ t > row.firstFailed + Window
    /\ row.nextRetry # NULL =>
         row.nextRetry <= (IF row.firstFailed = NULL THEN t ELSE row.firstFailed + row.attempts) + 1

(* What an operation remembers of a row that has failed. *)
Past(s) ==
    /\ Handoff(s.id)
    /\ s.firstFailed # NULL
    /\ s.firstFailed = log[s.id].firstFailed
    /\ s.attempts <= log[s.id].attempts

(* Where a channel of a dispatch stands. *)
ChannelOK(d, c) ==
    /\ Exists(<<d, c>>) =>
         /\ Exists(<<d, "IN_APP">>)
         /\ log[<<d, c>>].status # "SENT"
         /\ c \in pending[d].asked
    /\ c \in pending[d].todo => Exists(<<d, "IN_APP">>) /\ ~Exists(<<d, c>>) /\ c \in pending[d].asked
    /\ c \in pending[d].asked => Exists(<<d, c>>) \/ c \in pending[d].todo \/ pending[d].cut

DispatchInv ==
    \A d \in DispatchId :
        /\ Exists(<<d, "IN_APP">>) =>
             LET row == log[<<d, "IN_APP">>] IN
             row.status = "SENT" /\ row.attempts = 0 /\ row.firstFailed = NULL
        /\ \A c \in HandoffChannel : ChannelOK(d, c)

(* A dispatch that goes no further than before. *)
NoFurther(p, q) == p.asked = q.asked /\ p.todo \subseteq q.todo /\ (p # q => p.cut)

RowsInv == \A l \in LogId : Handoff(l) => RowOK(log[l], now)

ReportOK(rep) ==
    rep # NULL =>
        /\ Handoff(rep.id)
        /\ rep.stage = "written" => log[rep.id].firstFailed # NULL
        /\ rep.stage = "read" => rep.seen.id = rep.id /\ Past(rep.seen)

RunOK(x) ==
    /\ x.at <= now
    /\ \A s \in x.todo : Past(s)
    /\ x.half # NULL => Past(x.half)

ReportInv == \A o \in Operator : ReportOK(report[o])

RunInv == \A r \in Retrier : RunOK(run[r])

IInv == MessagingTypeOK /\ DispatchInv /\ RowsInv /\ ReportInv /\ RunInv

-----------------------------------------------------------------------------
(* One statement writes one handoff row: the new row has forgotten no attempt *)
(* and no first failure, and is in order at the time of the write.            *)
WritesRow(l) ==
    \E next \in Row :
        /\ log' = [log EXCEPT ![l] = next]
        /\ RowOK(next, now)
        /\ next.attempts >= log[l].attempts
        /\ log[l].firstFailed # NULL => next.firstFailed = log[l].firstFailed

(* What no step undoes.                                                       *)
Monotone ==
    /\ now' >= now
    /\ \A m \in LogId : Handoff(m) => Handoff(m)'
    /\ \A m \in LogId : Handoff(m) /\ log[m].firstFailed # NULL => log'[m].firstFailed # NULL
    /\ \A s \in Seen : Past(s) => Past(s)'

LEMMA StatusWrite ==
    ASSUME IInv, NEW l \in LogId, Handoff(l), NEW status \in {"QUEUED", "FAILED"},
           UpdateStatus(l, status)
    PROVE  WritesRow(l) /\ (status = "FAILED" => log'[l].firstFailed # NULL)
<1> DEFINE row == log[l]
           next == [row EXCEPT !.status = status,
                               !.attempts = IF status = "FAILED" THEN @ + 1 ELSE @,
                               !.firstFailed = IF status = "FAILED" /\ @ = NULL THEN now ELSE @]
<1>1. row \in Row /\ RowOK(row, now) /\ now \in Nat /\ log \in [LogId -> Row \cup {NULL}]
  BY DEF IInv, MessagingTypeOK, RowsInv, Handoff, Exists
<1>2. log' = [log EXCEPT ![l] = next]
  BY <1>1 DEF UpdateStatus, Row
<1>3. next \in Row
  <2>1. row.attempts \in Nat /\ row.attempts + 1 \in Nat
    BY <1>1 DEF Row
  <2> DEFINE n == IF status = "FAILED" THEN row.attempts + 1 ELSE row.attempts
             t == IF status = "FAILED" /\ row.firstFailed = NULL THEN now ELSE row.firstFailed
  <2>2. n \in Nat /\ t \in Time
    BY <1>1, <2>1 DEF Row, Time
  <2>3. next = [row EXCEPT !.status = status, !.attempts = n, !.firstFailed = t]
    BY <1>1 DEF Row
  <2> HIDE DEF n, t, row, next
  <2> QED BY <1>1, <2>2, <2>3 DEF Row
<1>4. /\ next.status = status /\ next.nextRetry = row.nextRetry
      /\ next.attempts = IF status = "FAILED" THEN row.attempts + 1 ELSE row.attempts
      /\ next.firstFailed = IF status = "FAILED" /\ row.firstFailed = NULL THEN now
                            ELSE row.firstFailed
  BY <1>1 DEF Row
<1>5. /\ row.attempts \in Nat /\ row.firstFailed \in Nat \cup {NULL}
      /\ row.nextRetry \in Nat \cup {NULL}
  BY <1>1 DEF Row, Time
<1> HIDE DEF next, row
<1>6. RowOK(next, now)
  BY <1>1, <1>4, <1>5, NullAssumption, MessagingAssumption DEF RowOK
<1>7. next.attempts >= row.attempts /\ (row.firstFailed # NULL => next.firstFailed = row.firstFailed)
  BY <1>4, <1>5
<1>8. WritesRow(l)
  BY <1>2, <1>3, <1>6, <1>7 DEF WritesRow, row
<1>9. status = "FAILED" => log'[l].firstFailed # NULL
  BY <1>1, <1>2, <1>4, NullAssumption
<1> QED BY <1>8, <1>9

(* A retry time is written where it may be: not beyond the slot after the     *)
(* attempts, or NULL for a reason to give up.                                 *)
LEMMA RetryWrite ==
    ASSUME IInv, NEW l \in LogId, Handoff(l), NEW at \in Time, UpdateNextRetry(l, at),
           log[l].firstFailed # NULL,
           IF at = NULL
           THEN log[l].attempts >= MaxAttempts \/ now > log[l].firstFailed + Window
           ELSE at <= log[l].firstFailed + log[l].attempts + 1
    PROVE  WritesRow(l)
<1> DEFINE row == log[l]
           next == [row EXCEPT !.nextRetry = at]
<1>1. row \in Row /\ RowOK(row, now) /\ now \in Nat /\ log \in [LogId -> Row \cup {NULL}]
  BY DEF IInv, MessagingTypeOK, RowsInv, Handoff, Exists
<1>2. log' = [log EXCEPT ![l] = next]
  BY <1>1 DEF UpdateNextRetry, Row
<1>3. next \in Row
  BY <1>1 DEF Row, Time
<1>4. /\ next.status = row.status /\ next.nextRetry = at
      /\ next.attempts = row.attempts /\ next.firstFailed = row.firstFailed
  BY <1>1 DEF Row
<1>5. row.attempts \in Nat
  BY <1>1 DEF Row
<1>6. /\ row.firstFailed # NULL
      /\ IF at = NULL THEN row.attempts >= MaxAttempts \/ now > row.firstFailed + Window
         ELSE at <= row.firstFailed + row.attempts + 1
  OBVIOUS
<1> HIDE DEF next, row
<1>7. RowOK(next, now)
  BY <1>1, <1>4, <1>6 DEF RowOK
<1>8. next.attempts >= row.attempts /\ (row.firstFailed # NULL => next.firstFailed = row.firstFailed)
  BY <1>4, <1>5
<1> QED BY <1>2, <1>3, <1>7, <1>8 DEF WritesRow, row

(* What such a write leaves intact.                                           *)
LEMMA WriteKeeps ==
    ASSUME IInv, NEW l \in LogId, Handoff(l), WritesRow(l), now' = now, pending' = pending
    PROVE  /\ log' \in [LogId -> Row \cup {NULL}]
           /\ DispatchInv'
           /\ RowsInv'
           /\ Monotone
<1> PICK next \in Row : /\ log' = [log EXCEPT ![l] = next]
                        /\ RowOK(next, now)
                        /\ next.attempts >= log[l].attempts
                        /\ log[l].firstFailed # NULL => next.firstFailed = log[l].firstFailed
  BY DEF WritesRow
<1>1. /\ log \in [LogId -> Row \cup {NULL}] /\ pending \in [DispatchId -> Sending]
      /\ DispatchInv /\ RowsInv /\ next # NULL /\ log[l] \in Row
  BY NullAssumption DEF IInv, MessagingTypeOK, Handoff, Exists
<1>2. log' \in [LogId -> Row \cup {NULL}]
  BY <1>1
<1>3. /\ log'[l] = next
      /\ \A m \in LogId : m # l => log'[m] = log[m]
      /\ \A m \in LogId : Exists(m)' = Exists(m)
      /\ \A m \in LogId : Handoff(m)' = Handoff(m)
  BY <1>1 DEF Exists, Handoff, RowOK
<1>4. RowsInv'
  BY <1>1, <1>3 DEF RowsInv
<1>5. DispatchInv'
  <2> SUFFICES ASSUME NEW d \in DispatchId
               PROVE  /\ Exists(<<d, "IN_APP">>)' =>
                           /\ log'[<<d, "IN_APP">>].status = "SENT"
                           /\ log'[<<d, "IN_APP">>].attempts = 0
                           /\ log'[<<d, "IN_APP">>].firstFailed = NULL
                      /\ \A c \in HandoffChannel : ChannelOK(d, c)'
    BY DEF DispatchInv
  <2>1. <<d, "IN_APP">> \in LogId /\ \A c \in HandoffChannel : <<d, c>> \in LogId
    BY DEF LogId
  <2>2. <<d, "IN_APP">> # l \/ ~Exists(<<d, "IN_APP">>)
    BY <1>1 DEF DispatchInv, Handoff
  <2>3. Exists(<<d, "IN_APP">>)' => log'[<<d, "IN_APP">>] = log[<<d, "IN_APP">>]
    BY <1>3, <2>1, <2>2
  <2>4. \A c \in HandoffChannel : Exists(<<d, c>>)' => log'[<<d, c>>].status # "SENT"
    BY <1>1, <1>3, <2>1 DEF DispatchInv, ChannelOK, Handoff
  <2>5. ASSUME NEW c \in HandoffChannel PROVE ChannelOK(d, c)'
    <3>1. ChannelOK(d, c) /\ pending' = pending
      BY <1>1 DEF DispatchInv
    <3>2. Exists(<<d, c>>)' = Exists(<<d, c>>) /\ Exists(<<d, "IN_APP">>)' = Exists(<<d, "IN_APP">>)
      BY <1>3, <2>1
    <3> QED BY <2>4, <3>1, <3>2 DEF ChannelOK
  <2>6. Exists(<<d, "IN_APP">>)' = Exists(<<d, "IN_APP">>)
    BY <1>3, <2>1
  <2>7. Exists(<<d, "IN_APP">>) => /\ log[<<d, "IN_APP">>].status = "SENT"
                                   /\ log[<<d, "IN_APP">>].attempts = 0
                                   /\ log[<<d, "IN_APP">>].firstFailed = NULL
    BY <1>1 DEF DispatchInv
  <2> QED BY <2>3, <2>5, <2>6, <2>7
<1>6. \A m \in LogId : Handoff(m) /\ log[m].firstFailed # NULL => log'[m].firstFailed # NULL
  BY <1>1, <1>3
<1>7. \A s \in Seen : Past(s) => Past(s)'
  <2> SUFFICES ASSUME NEW s \in Seen, Past(s) PROVE Past(s)'
    OBVIOUS
  <2>1. s.id \in LogId /\ s.attempts \in Nat
    BY DEF Seen
  <2>2. CASE s.id = l
    <3>1. log[l].attempts \in Nat /\ next.attempts \in Nat
      BY <1>1 DEF Row
    <3>2. s.attempts <= next.attempts
      BY <2>1, <2>2, <3>1 DEF Past
    <3> QED BY <1>3, <2>1, <2>2, <3>2 DEF Past
  <2>3. CASE s.id # l
    BY <1>3, <2>1, <2>3 DEF Past
  <2> QED BY <2>2, <2>3
<1>8. now' >= now
  BY DEF IInv, MessagingTypeOK
<1> QED BY <1>2, <1>3, <1>4, <1>5, <1>6, <1>7, <1>8 DEF Monotone

-----------------------------------------------------------------------------
(* A step that writes no row, and lets time pass or not.                      *)
LEMMA NoWrite ==
    ASSUME IInv, log' = log, now' \in Nat, now' >= now
    PROVE  RowsInv' /\ Monotone
<1>1. \A m \in LogId : Handoff(m)' = Handoff(m) /\ log'[m] = log[m]
  BY DEF Handoff, Exists
<1>2. RowsInv'
  <2> SUFFICES ASSUME NEW l \in LogId, Handoff(l) PROVE RowOK(log[l], now')
    BY <1>1 DEF RowsInv
  <2>1. RowOK(log[l], now) /\ log[l] \in Row /\ now \in Nat
    BY DEF IInv, MessagingTypeOK, RowsInv, Handoff, Exists
  <2>2. log[l].firstFailed \in Nat \cup {NULL} /\ log[l].nextRetry \in Nat \cup {NULL} /\ log[l].attempts \in Nat
    BY <2>1 DEF Row, Time
  <2> QED BY <2>1, <2>2, NullAssumption, MessagingAssumption DEF RowOK
<1>3. \A s \in Seen : Past(s) => Past(s)'
  BY DEF Past, Handoff, Exists
<1> QED BY <1>1, <1>2, <1>3 DEF Monotone

LEMMA MonotoneKeeps ==
    ASSUME IInv, Monotone, now' \in Nat
    PROVE  /\ \A rep \in Report \cup {NULL} : ReportOK(rep) => ReportOK(rep)'
           /\ \A x \in Run : RunOK(x) => RunOK(x)'
<1>1. ASSUME NEW rep \in Report \cup {NULL}, ReportOK(rep), rep # NULL
      PROVE  ReportOK(rep)'
  <2>1. rep.id \in LogId /\ (rep.stage = "read" => rep.seen \in Seen)
    BY <1>1 DEF Report
  <2> QED BY <1>1, <2>1 DEF ReportOK, Monotone
<1>2. ASSUME NEW x \in Run, RunOK(x)
      PROVE  RunOK(x)'
  <2>1. /\ x.at \in Nat /\ now \in Nat
        /\ \A s \in x.todo : s \in Seen
        /\ x.half # NULL => x.half \in Seen
    BY DEF Run, IInv, MessagingTypeOK
  <2>2. x.at <= now'
    BY <1>2, <2>1 DEF RunOK, Monotone
  <2> QED BY <1>2, <2>1, <2>2 DEF RunOK, Monotone
<1>3. ReportOK(NULL)'
  BY DEF ReportOK
<1> QED BY <1>1, <1>2, <1>3

LEMMA ReportUpdate ==
    ASSUME IInv, Monotone, now' \in Nat, NEW o \in Operator, NEW rep \in Report \cup {NULL},
           ReportOK(rep)', report' = [report EXCEPT ![o] = rep]
    PROVE  report' \in [Operator -> Report \cup {NULL}] /\ ReportInv'
<1>1. report \in [Operator -> Report \cup {NULL}] /\ ReportInv
  BY DEF IInv, MessagingTypeOK
<1>2. \A p \in Operator : report'[p] = IF p = o THEN rep ELSE report[p]
  BY <1>1
<1>3. ASSUME NEW p \in Operator PROVE ReportOK(report[p])'
  <2>1. CASE p = o
    BY <1>2, <2>1 DEF ReportOK
  <2>2. CASE p # o
    <3> DEFINE q == report[p]
    <3>1. PICK y \in Report \cup {NULL} : y = q
      BY <1>1
    <3>2. ReportOK(y)'
      BY <1>1, <3>1, MonotoneKeeps DEF ReportInv
    <3>3. report'[p] = y
      BY <1>2, <2>2, <3>1
    <3> QED BY <3>2, <3>3 DEF ReportOK
  <2> QED BY <2>1, <2>2
<1> QED BY <1>1, <1>3 DEF ReportInv

LEMMA ReportStays ==
    ASSUME IInv, Monotone, now' \in Nat, report' = report
    PROVE  report' \in [Operator -> Report \cup {NULL}] /\ ReportInv'
<1>1. report \in [Operator -> Report \cup {NULL}] /\ ReportInv
  BY DEF IInv, MessagingTypeOK
<1>2. ASSUME NEW p \in Operator PROVE ReportOK(report[p])'
  <2>1. PICK y \in Report \cup {NULL} : y = report[p]
    BY <1>1
  <2>2. ReportOK(y)'
    BY <1>1, <2>1, MonotoneKeeps DEF ReportInv
  <2>3. report'[p] = y
    BY <2>1
  <2> QED BY <2>2, <2>3 DEF ReportOK
<1> QED BY <1>1, <1>2 DEF ReportInv

LEMMA RunUpdate ==
    ASSUME IInv, Monotone, now' \in Nat, NEW r \in Retrier, NEW x \in Run, RunOK(x)',
           run' = [run EXCEPT ![r] = x]
    PROVE  run' \in [Retrier -> Run] /\ RunInv'
<1>1. run \in [Retrier -> Run] /\ RunInv
  BY DEF IInv, MessagingTypeOK
<1>2. \A q \in Retrier : run'[q] = IF q = r THEN x ELSE run[q]
  BY <1>1
<1>3. ASSUME NEW q \in Retrier PROVE RunOK(run[q])'
  <2>1. CASE q = r
    BY <1>2, <2>1 DEF RunOK
  <2>2. CASE q # r
    <3>1. PICK y \in Run : y = run[q]
      BY <1>1
    <3>2. RunOK(y)'
      BY <1>1, <3>1, MonotoneKeeps DEF RunInv
    <3>3. run'[q] = y
      BY <1>2, <2>2, <3>1
    <3> QED BY <3>2, <3>3 DEF RunOK
  <2> QED BY <2>1, <2>2
<1> QED BY <1>1, <1>3 DEF RunInv

LEMMA RunStays ==
    ASSUME IInv, Monotone, now' \in Nat, run' = run
    PROVE  run' \in [Retrier -> Run] /\ RunInv'
<1>1. run \in [Retrier -> Run] /\ RunInv
  BY DEF IInv, MessagingTypeOK
<1>2. ASSUME NEW q \in Retrier PROVE RunOK(run[q])'
  <2>1. PICK y \in Run : y = run[q]
    BY <1>1
  <2>2. RunOK(y)'
    BY <1>1, <2>1, MonotoneKeeps DEF RunInv
  <2>3. run'[q] = y
    BY <2>1
  <2> QED BY <2>2, <2>3 DEF RunOK
<1> QED BY <1>1, <1>2 DEF RunInv

-----------------------------------------------------------------------------
LEMMA SeenIsPast ==
    ASSUME IInv, NEW l \in LogId, Handoff(l)
    PROVE  SeenOf(l) \in Seen /\ (log[l].firstFailed # NULL => Past(SeenOf(l)))
<1>1. log[l] \in Row
  BY DEF IInv, MessagingTypeOK, Handoff, Exists
<1> QED BY <1>1 DEF SeenOf, Seen, Row, Past

LEMMA DoneOK ==
    ASSUME IInv, NEW r \in Retrier, NEW s
    PROVE  Done(r, s) \in Run /\ RunOK(Done(r, s))
<1>1. run[r] \in Run /\ RunOK(run[r]) /\ now \in Nat
  BY DEF IInv, MessagingTypeOK, RunInv
<1>2. Idle \in Run /\ RunOK(Idle)
  BY <1>1 DEF Idle, Run, RunOK
<1> DEFINE x == [run[r] EXCEPT !.todo = run[r].todo \ {s}, !.half = NULL]
<1>3. x \in Run /\ x.at = run[r].at /\ x.todo = run[r].todo \ {s} /\ x.half = NULL
  BY <1>1 DEF Run
<1>4. RunOK(x)
  BY <1>1, <1>3 DEF RunOK
<1> QED BY <1>2, <1>3, <1>4 DEF Done

(* A statement that writes one handoff row on behalf of a report or a run.    *)
LEMMA WriteStep ==
    ASSUME IInv, NEW l \in LogId, Handoff(l), WritesRow(l),
           UNCHANGED <<now, pending, aborts>>,
           \/ report' = report
           \/ \E o \in Operator, rep \in Report \cup {NULL} :
                ReportOK(rep)' /\ report' = [report EXCEPT ![o] = rep],
           \/ run' = run
           \/ \E r \in Retrier, x \in Run : RunOK(x) /\ run' = [run EXCEPT ![r] = x]
    PROVE  IInv'
<1>1. /\ log' \in [LogId -> Row \cup {NULL}] /\ DispatchInv' /\ RowsInv' /\ Monotone
      /\ now' \in Nat
  BY WriteKeeps DEF IInv, MessagingTypeOK
<1>2. report' \in [Operator -> Report \cup {NULL}] /\ ReportInv'
  BY <1>1, ReportUpdate, ReportStays
<1>3. run' \in [Retrier -> Run] /\ RunInv'
  <2>1. CASE run' = run
    BY <1>1, <2>1, RunStays
  <2>2. ASSUME NEW r \in Retrier, NEW x \in Run, RunOK(x), run' = [run EXCEPT ![r] = x]
        PROVE  run' \in [Retrier -> Run] /\ RunInv'
    <3>1. RunOK(x)'
      BY <1>1, <2>2, MonotoneKeeps
    <3> QED BY <1>1, <2>2, <3>1, RunUpdate
  <2> QED BY <2>1, <2>2
<1>4. MessagingTypeOK'
  BY <1>1, <1>2, <1>3 DEF IInv, MessagingTypeOK
<1> QED BY <1>1, <1>2, <1>3, <1>4 DEF IInv

(* A step that writes no row.                                                 *)
LEMMA ReadStep ==
    ASSUME IInv, log' = log, now' \in Nat, now' >= now, aborts' \in Nat,
           \/ pending' = pending
           \/ /\ pending' \in [DispatchId -> Sending]
              /\ \A d \in DispatchId : NoFurther(pending'[d], pending[d]),
           \/ report' = report
           \/ \E o \in Operator, rep \in Report \cup {NULL} :
                ReportOK(rep) /\ report' = [report EXCEPT ![o] = rep],
           \/ run' = run
           \/ \E r \in Retrier, x \in Run : RunOK(x) /\ run' = [run EXCEPT ![r] = x]
    PROVE  IInv'
<1>1. RowsInv' /\ Monotone
  BY NoWrite
<1>2. log' \in [LogId -> Row \cup {NULL}] /\ pending' \in [DispatchId -> Sending] /\ DispatchInv'
  BY DEF IInv, MessagingTypeOK, DispatchInv, ChannelOK, NoFurther, Exists
<1>3. report' \in [Operator -> Report \cup {NULL}] /\ ReportInv'
  <2>1. CASE report' = report
    BY <1>1, <2>1, ReportStays
  <2>2. ASSUME NEW o \in Operator, NEW rep \in Report \cup {NULL}, ReportOK(rep),
               report' = [report EXCEPT ![o] = rep]
        PROVE  report' \in [Operator -> Report \cup {NULL}] /\ ReportInv'
    <3>1. ReportOK(rep)'
      BY <1>1, <2>2, MonotoneKeeps
    <3> QED BY <1>1, <2>2, <3>1, ReportUpdate
  <2> QED BY <2>1, <2>2
<1>4. run' \in [Retrier -> Run] /\ RunInv'
  <2>1. CASE run' = run
    BY <1>1, <2>1, RunStays
  <2>2. ASSUME NEW r \in Retrier, NEW x \in Run, RunOK(x), run' = [run EXCEPT ![r] = x]
        PROVE  run' \in [Retrier -> Run] /\ RunInv'
    <3>1. RunOK(x)'
      BY <1>1, <2>2, MonotoneKeeps
    <3> QED BY <1>1, <2>2, <3>1, RunUpdate
  <2> QED BY <2>1, <2>2
<1>5. MessagingTypeOK'
  BY <1>2, <1>3, <1>4 DEF IInv, MessagingTypeOK
<1> QED BY <1>1, <1>2, <1>3, <1>4, <1>5 DEF IInv

(* Dispatch and Queue insert a row where there is none.                       *)
LEMMA CreateStep ==
    ASSUME IInv, NEW l \in LogId, ~Exists(l), NEW row \in Row, log' = [log EXCEPT ![l] = row],
           row.status # "SENT" => RowOK(row, now),
           UNCHANGED <<now, report, run, aborts>>,
           pending' \in [DispatchId -> Sending], DispatchInv'
    PROVE  IInv'
<1>1. log \in [LogId -> Row \cup {NULL}] /\ now \in Nat /\ row # NULL
  BY NullAssumption DEF IInv, MessagingTypeOK
<1>2. /\ log'[l] = row
      /\ \A m \in LogId : m # l => log'[m] = log[m]
      /\ \A m \in LogId : Exists(m) => m # l
  BY <1>1 DEF Exists
<1>3. RowsInv'
  BY <1>1, <1>2 DEF IInv, RowsInv, Handoff, Exists
<1>4. \A m \in LogId : Handoff(m) => log'[m] = log[m] /\ Handoff(m)'
  BY <1>2 DEF Handoff, Exists
<1>5. \A s \in Seen : Past(s) => Past(s)'
  BY <1>4 DEF Past, Seen
<1>6. Monotone
  BY <1>1, <1>4, <1>5 DEF Monotone
<1>7. report' \in [Operator -> Report \cup {NULL}] /\ ReportInv'
  BY <1>1, <1>6, ReportStays
<1>8. run' \in [Retrier -> Run] /\ RunInv'
  BY <1>1, <1>6, RunStays
<1>9. MessagingTypeOK'
  BY <1>1, <1>7, <1>8 DEF IInv, MessagingTypeOK
<1> QED BY <1>3, <1>7, <1>8, <1>9 DEF IInv

-----------------------------------------------------------------------------
LEMMA InitIInv == Init => IInv
<1> SUFFICES ASSUME Init PROVE IInv
  OBVIOUS
<1> USE NullAssumption DEF Init
<1>1. Idle \in Run /\ RunOK(Idle)
  BY DEF Idle, Run, RunOK
<1>2. MessagingTypeOK
  BY <1>1 DEF MessagingTypeOK, NotSent, Sending
<1>3. \A l \in LogId : ~Exists(l)
  BY DEF Exists
<1>4. DispatchInv
  BY <1>3 DEF DispatchInv, ChannelOK, NotSent, LogId
<1>5. RowsInv
  BY <1>3 DEF RowsInv, Handoff
<1>6. ReportInv
  BY DEF ReportInv, ReportOK
<1>7. RunInv
  BY <1>1 DEF RunInv, RunOK, Idle
<1> QED BY <1>2, <1>4, <1>5, <1>6, <1>7 DEF IInv

LEMMA DispatchStep ==
    ASSUME IInv, NEW d \in DispatchId, NEW channels \in SUBSET HandoffChannel,
           Dispatch(d, channels)
    PROVE  IInv'
<1> DEFINE row == [status |-> "SENT", attempts |-> 0, nextRetry |-> NULL, firstFailed |-> NULL]
           l == <<d, "IN_APP">>
           sent == [asked |-> channels, todo |-> channels, cut |-> FALSE]
<1>1. l \in LogId /\ row \in Row /\ row.status = "SENT" /\ ~Exists(l) /\ log' = [log EXCEPT ![l] = row]
  BY DEF Dispatch, Create, LogId, Row, Time
<1>2. pending' = [pending EXCEPT ![d] = sent] /\ UNCHANGED <<now, report, run, aborts>>
  BY DEF Dispatch
<1>3. /\ pending \in [DispatchId -> Sending]
      /\ log \in [LogId -> Row \cup {NULL}] /\ DispatchInv /\ row # NULL
  BY <1>1, NullAssumption DEF IInv, MessagingTypeOK
<1>4. /\ log'[l] = row
      /\ \A m \in LogId : m # l => log'[m] = log[m]
      /\ \A m \in LogId : Exists(m)' <=> (m = l \/ Exists(m))
  BY <1>1, <1>3 DEF Exists
<1>5. /\ pending' \in [DispatchId -> Sending]
      /\ \A e \in DispatchId : pending'[e] = IF e = d THEN sent ELSE pending[e]
  BY <1>2, <1>3 DEF Sending
<1>6. row.attempts = 0 /\ row.firstFailed = NULL
  OBVIOUS
<1> HIDE DEF row
<1>7. DispatchInv'
  <2> SUFFICES ASSUME NEW e \in DispatchId
               PROVE  /\ Exists(<<e, "IN_APP">>)' =>
                           /\ log'[<<e, "IN_APP">>].status = "SENT"
                           /\ log'[<<e, "IN_APP">>].attempts = 0
                           /\ log'[<<e, "IN_APP">>].firstFailed = NULL
                      /\ \A c \in HandoffChannel : ChannelOK(e, c)'
    BY DEF DispatchInv
  <2>1. /\ <<e, "IN_APP">> \in LogId
        /\ \A c \in HandoffChannel : <<e, c>> \in LogId /\ <<e, c>> # l
    BY MessagingAssumption DEF LogId
  <2>2. CASE e = d
    BY <1>1, <1>3, <1>4, <1>5, <1>6, <2>1, <2>2 DEF DispatchInv, ChannelOK
  <2>3. CASE e # d
    BY <1>3, <1>4, <1>5, <2>1, <2>3 DEF DispatchInv, ChannelOK
  <2> QED BY <2>2, <2>3
<1> QED BY <1>1, <1>2, <1>5, <1>7, CreateStep

LEMMA QueueStep ==
    ASSUME IInv, NEW d \in DispatchId, NEW channel \in HandoffChannel, Queue(d, channel)
    PROVE  IInv'
<1> DEFINE row == [status |-> "QUEUED", attempts |-> 0, nextRetry |-> now + 1, firstFailed |-> NULL]
           l == <<d, channel>>
<1>1. /\ pending \in [DispatchId -> Sending] /\ now \in Nat
      /\ log \in [LogId -> Row \cup {NULL}] /\ DispatchInv
  BY DEF IInv, MessagingTypeOK
<1>2. l \in LogId /\ row \in Row /\ row.status = "QUEUED" /\ log' = [log EXCEPT ![l] = row]
  BY <1>1 DEF Queue, Create, LogId, Row, Time
<1>3. /\ pending' = [pending EXCEPT ![d].todo = @ \ {channel}] /\ UNCHANGED <<now, report, run, aborts>>
      /\ channel \in pending[d].todo
  BY DEF Queue
<1>4. Exists(<<d, "IN_APP">>) /\ ~Exists(l) /\ channel \in pending[d].asked
  BY <1>1, <1>3 DEF DispatchInv, ChannelOK
<1>5. RowOK(row, now)
  BY <1>1, NullAssumption DEF RowOK
<1>6. /\ log'[l] = row
      /\ \A m \in LogId : m # l => log'[m] = log[m]
      /\ \A m \in LogId : Exists(m)' <=> (m = l \/ Exists(m))
  BY <1>1, <1>2, NullAssumption DEF Exists
<1>7. /\ pending' \in [DispatchId -> Sending]
      /\ \A e \in DispatchId :
           /\ pending'[e].asked = pending[e].asked /\ pending'[e].cut = pending[e].cut
           /\ pending'[e].todo = IF e = d THEN pending[d].todo \ {channel} ELSE pending[e].todo
  BY <1>1, <1>3 DEF Sending
<1> HIDE DEF row
<1>8. DispatchInv'
  <2> SUFFICES ASSUME NEW e \in DispatchId
               PROVE  /\ Exists(<<e, "IN_APP">>)' =>
                           /\ log'[<<e, "IN_APP">>].status = "SENT"
                           /\ log'[<<e, "IN_APP">>].attempts = 0
                           /\ log'[<<e, "IN_APP">>].firstFailed = NULL
                      /\ \A c \in HandoffChannel : ChannelOK(e, c)'
    BY DEF DispatchInv
  <2>1. <<e, "IN_APP">> \in LogId /\ <<e, "IN_APP">> # l /\ \A c \in HandoffChannel : <<e, c>> \in LogId
    BY MessagingAssumption DEF LogId
  <2>2. Exists(<<e, "IN_APP">>)' <=> Exists(<<e, "IN_APP">>)
    BY <1>6, <2>1
  <2>3. Exists(<<e, "IN_APP">>)' => log'[<<e, "IN_APP">>] = log[<<e, "IN_APP">>]
    BY <1>6, <2>1
  <2>4. ASSUME NEW c \in HandoffChannel
        PROVE  ChannelOK(e, c)'
    <3>1. CASE <<e, c>> = l
      BY <1>2, <1>4, <1>6, <1>7, <2>1, <2>2, <3>1 DEF ChannelOK
    <3>2. CASE <<e, c>> # l
      BY <1>1, <1>6, <1>7, <2>1, <2>2, <3>2 DEF DispatchInv, ChannelOK
    <3> QED BY <3>1, <3>2
  <2> QED BY <1>1, <2>2, <2>3, <2>4 DEF DispatchInv
<1> QED BY <1>2, <1>3, <1>4, <1>5, <1>7, <1>8, CreateStep

LEMMA PrintStep ==
    ASSUME IInv, NEW l \in LogId, MarkPrinted(l)
    PROVE  IInv'
<1> DEFINE row == log[l]
           next == [row EXCEPT !.status = "PRINTED"]
<1>1. Handoff(l) /\ row \in Row /\ RowOK(row, now) /\ row.status = "QUEUED"
  BY DEF MarkPrinted, Handoff, Exists, IInv, MessagingTypeOK, RowsInv
<1>2. log' = [log EXCEPT ![l] = next] /\ next \in Row
  BY <1>1 DEF MarkPrinted, Row, IInv, MessagingTypeOK
<1>3. /\ next.status = "PRINTED" /\ next.nextRetry = row.nextRetry
      /\ next.attempts = row.attempts /\ next.firstFailed = row.firstFailed
      /\ row.attempts \in Nat
  BY <1>1 DEF Row
<1> HIDE DEF next, row
<1>4. RowOK(next, now)
  BY <1>1, <1>3 DEF RowOK
<1>5. next.attempts >= row.attempts /\ (row.firstFailed # NULL => next.firstFailed = row.firstFailed)
  BY <1>3
<1>6. WritesRow(l)
  BY <1>2, <1>4, <1>5 DEF WritesRow, row
<1>7. UNCHANGED <<now, pending, report, run, aborts>>
  BY DEF MarkPrinted
<1> QED BY <1>1, <1>6, <1>7, WriteStep

LEMMA ReportStep ==
    ASSUME IInv, NEW o \in Operator,
           \/ \E l \in LogId : CheckStatus(o, l)
           \/ WriteFailed(o)
           \/ ReadAgain(o)
           \/ ScheduleRetry(o)
    PROVE  IInv'
<1>1. /\ report[o] \in Report \cup {NULL} /\ ReportOK(report[o]) /\ now \in Nat /\ aborts \in Nat
      /\ log \in [LogId -> Row \cup {NULL}] /\ pending \in [DispatchId -> Sending]
      /\ ReportOK(NULL)
  BY DEF IInv, MessagingTypeOK, ReportInv, ReportOK
<1>2. ASSUME NEW l \in LogId, CheckStatus(o, l) PROVE IInv'
  <2> DEFINE rep == [id |-> l, stage |-> "checked"]
  <2>1. Handoff(l)
    BY <1>2 DEF CheckStatus, MayFail, Handoff
  <2>2. rep \in Report
    BY DEF Report
  <2>3. ReportOK(rep)
    BY <2>1 DEF ReportOK
  <2>4. report' = [report EXCEPT ![o] = rep] /\ UNCHANGED <<now, log, pending, run, aborts>>
    BY <1>2 DEF CheckStatus
  <2>5. \E p \in Operator, q \in Report \cup {NULL} :
           ReportOK(q) /\ report' = [report EXCEPT ![p] = q]
    BY <2>2, <2>3, <2>4
  <2>6. now' \in Nat /\ now' >= now
    BY <1>1, <2>4
  <2> QED BY <1>1, <2>4, <2>5, <2>6, ReadStep
<1>3. CASE WriteFailed(o)
  <2> DEFINE l == report[o].id
             rep == [id |-> l, stage |-> "written"]
  <2>1. report[o] # NULL /\ report[o].stage = "checked" /\ UpdateStatus(l, "FAILED")
        /\ report' = [report EXCEPT ![o] = rep]
        /\ UNCHANGED <<now, pending, run, aborts>>
    BY <1>3 DEF WriteFailed
  <2>2. l \in LogId /\ Handoff(l)
    BY <1>1, <2>1 DEF Report, ReportOK
  <2>3. rep \in Report
    BY <2>2 DEF Report
  <2>4. WritesRow(l) /\ log'[l].firstFailed # NULL
    BY <2>1, <2>2, StatusWrite
  <2> PICK k \in LogId, y \in Report : k = l /\ y = rep
    BY <2>2, <2>3
  <2>5. y.id = k /\ y.stage = "written"
    OBVIOUS
  <2>6. Handoff(k)' /\ log'[k].firstFailed # NULL
    BY <2>1, <2>2, <2>4, WriteKeeps DEF Monotone
  <2>7. ReportOK(y)'
    BY <2>5, <2>6 DEF ReportOK
  <2>8. Handoff(k) /\ WritesRow(k) /\ report' = [report EXCEPT ![o] = y]
    BY <2>1, <2>2, <2>4
  <2> QED BY <2>1, <2>7, <2>8, WriteStep
<1>4. CASE ReadAgain(o)
  <2> DEFINE l == report[o].id
             rep == [id |-> l, stage |-> "read", seen |-> SeenOf(l)]
  <2>1. report[o] # NULL /\ report[o].stage = "written" /\ report' = [report EXCEPT ![o] = rep]
        /\ UNCHANGED <<now, log, pending, run, aborts>>
    BY <1>4 DEF ReadAgain
  <2>2. l \in LogId /\ Handoff(l) /\ log[l].firstFailed # NULL
    BY <1>1, <2>1 DEF Report, ReportOK
  <2>3. SeenOf(l) \in Seen /\ Past(SeenOf(l)) /\ SeenOf(l).id = l
    BY <2>2, SeenIsPast DEF SeenOf
  <2>4. rep \in Report
    BY <2>2, <2>3 DEF Report
  <2>5. ReportOK(rep)
    BY <2>2, <2>3 DEF ReportOK
  <2>6. \E p \in Operator, q \in Report \cup {NULL} :
           ReportOK(q) /\ report' = [report EXCEPT ![p] = q]
    BY <2>1, <2>4, <2>5
  <2>7. now' \in Nat /\ now' >= now
    BY <1>1, <2>1
  <2> QED BY <1>1, <2>1, <2>6, <2>7, ReadStep
<1>5. CASE ScheduleRetry(o)
  <2> DEFINE l == report[o].id
             s == report[o].seen
             at == RetryAfterFailure(s)
  <2>1. report[o] # NULL /\ report[o].stage = "read" /\ UpdateNextRetry(l, at)
        /\ report' = [report EXCEPT ![o] = NULL]
        /\ UNCHANGED <<now, pending, run, aborts>>
    BY <1>5 DEF ScheduleRetry
  <2>2. l \in LogId /\ Handoff(l) /\ s \in Seen /\ s.id = l /\ Past(s)
    BY <1>1, <2>1 DEF Report, ReportOK
  <2>3. /\ log[l].firstFailed # NULL /\ s.firstFailed = log[l].firstFailed
        /\ s.attempts <= log[l].attempts
    BY <2>2 DEF Past
  <2>4. s.attempts \in Nat /\ s.firstFailed \in Nat /\ log[l].attempts \in Nat
    BY <1>1, <2>2, <2>3 DEF Seen, Time, Row, Handoff, Exists
  <2>5. at \in Nat /\ at <= log[l].firstFailed + log[l].attempts + 1
    BY <2>3, <2>4 DEF RetryAfterFailure
  <2>6. WritesRow(l)
    BY <2>1, <2>2, <2>3, <2>5, RetryWrite, NullAssumption DEF Time
  <2>7. ReportOK(NULL)'
    BY DEF ReportOK
  <2> QED BY <2>1, <2>2, <2>6, <2>7, WriteStep
<1> QED BY <1>2, <1>3, <1>4, <1>5

LEMMA RunStep ==
    ASSUME IInv, NEW r \in Retrier, StartRetry(r) \/ RetryStep(r)
    PROVE  IInv'
<1>1. /\ run[r] \in Run /\ RunOK(run[r]) /\ now \in Nat /\ aborts \in Nat
      /\ log \in [LogId -> Row \cup {NULL}] /\ pending \in [DispatchId -> Sending]
  BY DEF IInv, MessagingTypeOK, RunInv
<1>2. CASE StartRetry(r)
  <2> DEFINE due == GetRetryable(now)
             x == [at |-> now, half |-> NULL, todo |-> {SeenOf(l) : l \in due}]
  <2>1. run' = [run EXCEPT ![r] = x] /\ UNCHANGED <<now, log, pending, report, aborts>>
    BY <1>2 DEF StartRetry
  <2>2. \A l \in due : SeenOf(l) \in Seen /\ Past(SeenOf(l))
    <3> SUFFICES ASSUME NEW l \in due PROVE SeenOf(l) \in Seen /\ Past(SeenOf(l))
      OBVIOUS
    <3>1. l \in LogId /\ Handoff(l) /\ log[l].status = "FAILED"
      BY DEF GetRetryable, Handoff
    <3>2. log[l].firstFailed # NULL
      BY <3>1 DEF IInv, RowsInv, RowOK
    <3> QED BY <3>1, <3>2, SeenIsPast
  <2>3. x \in Run /\ RunOK(x)
    BY <1>1, <2>2 DEF Run, RunOK
  <2>4. \E q \in Retrier, y \in Run : RunOK(y) /\ run' = [run EXCEPT ![q] = y]
    BY <2>1, <2>3
  <2>5. now' \in Nat /\ now' >= now
    BY <1>1, <2>1
  <2> QED BY <1>1, <2>1, <2>4, <2>5, ReadStep
<1>3. ASSUME NEW s \in run[r].todo, GiveUp(r, s) PROVE IInv'
  <2>1. /\ Exhausted(run[r].at, s) /\ UpdateNextRetry(s.id, NULL)
        /\ run' = [run EXCEPT ![r] = Done(r, s)]
        /\ UNCHANGED <<now, pending, report, aborts>>
    BY <1>3 DEF GiveUp, ClearNextRetry
  <2>2. s \in Seen /\ Past(s) /\ s.id \in LogId /\ Handoff(s.id) /\ run[r].at \in Nat /\ run[r].at <= now
    BY <1>1 DEF Run, RunOK, Past, Seen
  <2>3. /\ log[s.id].firstFailed # NULL /\ s.firstFailed = log[s.id].firstFailed
        /\ s.attempts <= log[s.id].attempts /\ s.attempts \in Nat /\ s.firstFailed \in Nat
        /\ log[s.id].attempts \in Nat
    BY <1>1, <2>2 DEF Past, Seen, Time, Row, Handoff, Exists
  <2>4. log[s.id].attempts >= MaxAttempts \/ now > log[s.id].firstFailed + Window
    BY <1>1, <2>1, <2>2, <2>3, MessagingAssumption DEF Exhausted, WindowClosed
  <2>5. WritesRow(s.id)
    BY <2>1, <2>2, <2>3, <2>4, RetryWrite DEF Time
  <2>6. \E q \in Retrier, y \in Run : RunOK(y) /\ run' = [run EXCEPT ![q] = y]
    BY <2>1, DoneOK
  <2> QED BY <2>1, <2>2, <2>5, <2>6, WriteStep
<1>4. ASSUME NEW s \in run[r].todo, Requeue(r, s) PROVE IInv'
  <2> DEFINE x == [run[r] EXCEPT !.half = s]
  <2>1. /\ UpdateStatus(s.id, "QUEUED") /\ run' = [run EXCEPT ![r] = x]
        /\ UNCHANGED <<now, pending, report, aborts>>
    BY <1>1, <1>4 DEF Requeue, Run, IInv, MessagingTypeOK
  <2>2. s \in Seen /\ Past(s) /\ s.id \in LogId /\ Handoff(s.id)
    BY <1>1 DEF Run, RunOK, Past, Seen
  <2>3. WritesRow(s.id)
    BY <2>1, <2>2, StatusWrite
  <2>4. x \in Run /\ RunOK(x)
    BY <1>1, <2>2 DEF Run, RunOK
  <2>5. \E q \in Retrier, y \in Run : RunOK(y) /\ run' = [run EXCEPT ![q] = y]
    BY <2>1, <2>4
  <2> QED BY <2>1, <2>2, <2>3, <2>5, WriteStep
<1>5. CASE Reschedule(r)
  <2> DEFINE s == run[r].half
             at == NextSlot(run[r].at, s)
  <2>1. /\ s # NULL /\ UpdateNextRetry(s.id, at)
        /\ run' = [run EXCEPT ![r] = Done(r, s)]
        /\ UNCHANGED <<now, pending, report, aborts>>
    BY <1>5 DEF Reschedule
  <2>2. s \in Seen /\ Past(s) /\ s.id \in LogId /\ Handoff(s.id)
    BY <1>1, <2>1 DEF Run, RunOK, Past, Seen
  <2>3. /\ log[s.id].firstFailed # NULL /\ s.firstFailed = log[s.id].firstFailed
        /\ s.attempts <= log[s.id].attempts /\ s.attempts \in Nat /\ s.firstFailed \in Nat
        /\ log[s.id].attempts \in Nat
    BY <1>1, <2>2 DEF Past, Seen, Time, Row, Handoff, Exists
  <2>4. at \in Nat /\ at # NULL /\ at <= log[s.id].firstFailed + log[s.id].attempts + 1
    BY <2>3, NullAssumption DEF NextSlot
  <2>5. WritesRow(s.id)
    BY <2>1, <2>2, <2>3, <2>4, RetryWrite DEF Time
  <2>6. \E q \in Retrier, y \in Run : RunOK(y) /\ run' = [run EXCEPT ![q] = y]
    BY <2>1, DoneOK
  <2> QED BY <2>1, <2>2, <2>5, <2>6, WriteStep
<1> QED BY <1>2, <1>3, <1>4, <1>5 DEF RetryStep

LEMMA AbortStep == ASSUME IInv, Abort PROVE IInv'
<1>1. /\ now \in Nat /\ aborts' \in Nat /\ log' = log /\ now' \in Nat /\ now' >= now
      /\ pending \in [DispatchId -> Sending]
      /\ ReportOK(NULL)
  BY DEF Abort, IInv, MessagingTypeOK, ReportOK
<1>2. ASSUME NEW d \in DispatchId, AbortDispatch(d) PROVE IInv'
  <2>1. /\ pending' \in [DispatchId -> Sending]
        /\ \A e \in DispatchId : NoFurther(pending'[e], pending[e])
        /\ UNCHANGED <<report, run>>
    BY <1>1, <1>2 DEF AbortDispatch, NoFurther, Sending
  <2> QED BY <1>1, <2>1, ReadStep
<1>3. ASSUME NEW o \in Operator, AbortReport(o) PROVE IInv'
  <2>1. \E p \in Operator, q \in Report \cup {NULL} :
           ReportOK(q) /\ report' = [report EXCEPT ![p] = q]
    BY <1>1, <1>3 DEF AbortReport
  <2>2. UNCHANGED <<pending, run>>
    BY <1>3 DEF AbortReport
  <2> QED BY <1>1, <2>1, <2>2, ReadStep
<1>4. ASSUME NEW r \in Retrier, AbortRetry(r) \/ FailStatement(r) PROVE IInv'
  <2>1. run[r] \in Run /\ RunOK(run[r])
    BY DEF IInv, MessagingTypeOK, RunInv
  <2>2. Idle \in Run /\ RunOK(Idle)
    BY <1>1 DEF Idle, Run, RunOK
  <2>3. ASSUME NEW s \in run[r].todo
        PROVE  [run[r] EXCEPT !.half = s] \in Run /\ RunOK([run[r] EXCEPT !.half = s])
    BY <2>1 DEF Run, RunOK
  <2>4. \A s \in run[r].todo : [run EXCEPT ![r].half = s] = [run EXCEPT ![r] = [run[r] EXCEPT !.half = s]]
    BY DEF IInv, MessagingTypeOK, Run
  <2>5. \E q \in Retrier, y \in Run : RunOK(y) /\ run' = [run EXCEPT ![q] = y]
    <3>1. CASE AbortRetry(r)
      BY <2>2, <3>1 DEF AbortRetry
    <3>2. CASE FailStatement(r)
      <4>1. \/ \E s : run' = [run EXCEPT ![r] = Done(r, s)]
            \/ \E s \in run[r].todo : run' = [run EXCEPT ![r] = [run[r] EXCEPT !.half = s]]
        BY <2>4, <3>2 DEF FailStatement
      <4> QED BY <2>3, <4>1, DoneOK
    <3> QED BY <1>4, <3>1, <3>2
  <2>6. UNCHANGED <<pending, report>>
    BY <1>4 DEF AbortRetry, FailStatement
  <2> QED BY <1>1, <2>5, <2>6, ReadStep
<1> QED BY <1>2, <1>3, <1>4 DEF Abort

LEMMA StepIInv == IInv /\ [Next]_vars => IInv'
<1> SUFFICES ASSUME IInv, [Next]_vars PROVE IInv'
  OBVIOUS
<1>1. now \in Nat /\ aborts \in Nat /\ pending \in [DispatchId -> Sending]
  BY DEF IInv, MessagingTypeOK
<1>2. CASE Tick
  BY <1>1, <1>2, ReadStep DEF Tick
<1>3. CASE UNCHANGED vars
  BY <1>1, <1>3, ReadStep DEF vars
<1> QED
  BY <1>2, <1>3, DispatchStep, QueueStep, PrintStep, ReportStep, RunStep, AbortStep DEF Next

(* The invariant, for every number of operators and overlapping runs.         *)
THEOREM MessagingCorrect == Spec => []IInv
BY InitIInv, StepIInv, PTL DEF Spec

(* The rows keep their shape: no race of a requeue with a report computes a   *)
(* retry time from a row that has not failed, or loses count of attempts.     *)
THEOREM MessagingTypeCorrect == Spec => []MessagingTypeOK
<1>1. IInv => MessagingTypeOK
  BY DEF IInv
<1> QED BY <1>1, MessagingCorrect, PTL

(* A dispatch is accounted for, for any set of channels: the in-app record    *)
(* first and untouched ever after, every channel asked for queued or still to *)
(* be queued unless the dispatch was cut off, and no other.                   *)
THEOREM DispatchCorrect == Spec => []DispatchIsAccounted
<1>1. IInv => DispatchIsAccounted
  <2> SUFFICES ASSUME IInv, NEW d \in DispatchId
               PROVE  /\ Exists(<<d, "IN_APP">>) =>
                           /\ log[<<d, "IN_APP">>].status = "SENT"
                           /\ log[<<d, "IN_APP">>].attempts = 0
                      /\ \A c \in HandoffChannel :
                           /\ Exists(<<d, c>>) => Exists(<<d, "IN_APP">>) /\ c \in pending[d].asked
                           /\ c \in pending[d].asked =>
                                Exists(<<d, c>>) \/ c \in pending[d].todo \/ pending[d].cut
    BY DEF DispatchIsAccounted, Exists
  <2> QED BY DEF IInv, DispatchInv, ChannelOK
<1> QED BY <1>1, MessagingCorrect, PTL

(* No handoff is given up while the attempts and the window would allow a     *)
(* further try, whatever the job's snapshot said.                             *)
THEOREM GiveUpCorrect == Spec => []NotGivenUpEarly
<1>1. IInv => NotGivenUpEarly
  BY DEF IInv, RowsInv, RowOK, Handoff, NotGivenUpEarly
<1> QED BY <1>1, MessagingCorrect, PTL

(* No interleaving pushes a retry beyond the slot after the row's attempts.   *)
THEOREM CadenceCorrect == Spec => []NoRetryPostponed
<1>1. IInv => NoRetryPostponed
  <2> SUFFICES ASSUME IInv, NEW l \in LogId, Exists(l), log[l].firstFailed # NULL,
                      log[l].nextRetry # NULL
               PROVE  log[l].nextRetry <= log[l].firstFailed + log[l].attempts + 1
    BY DEF NoRetryPostponed
  <2>1. CASE log[l].status # "SENT"
    BY <2>1 DEF IInv, RowsInv, RowOK, Handoff
  <2>2. CASE log[l].status = "SENT"
    <3>1. \E d \in DispatchId : l = <<d, "IN_APP">> \/ \E c \in HandoffChannel : l = <<d, c>>
      BY DEF LogId
    <3> QED BY <2>2, <3>1 DEF IInv, DispatchInv, ChannelOK
  <2> QED BY <2>1, <2>2
<1> QED BY <1>1, MessagingCorrect, PTL
=============================================================================
