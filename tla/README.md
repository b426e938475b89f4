# FulfillOps in TLA+

FulfillOps (`src/repo`) is a Go server over PostgreSQL that hands rewards to
customers: it reserves a unit of a reward tier for a fulfillment, moves the
fulfillment through shipping or a voucher to completion, queues messages for
offline handoff, opens exceptions for overdue work, and purges, exports and
backs up its data from scheduled jobs.  This directory holds its formal model:
TLA+ modules translated from the source, TLC configurations that check them on
small instances, and proofs that TLAPS checks for every instance.

Run, from this directory: `tlc -config Fulfillment_stock.cfg MCFulfillment`,
and likewise for the other configurations (the table in section 4 names the
module of each); `tlapm FulfillmentProofs.tla` for its proofs, and likewise for
`TransactionsProofs`, `CleanupProofs`, `EditingProofs`, `MessagingProofs`,
`OverdueProofs`, `AccountsProofs` and `BackupProofs`.

## 1. Inventory of the system

All server state that outlives a request is in PostgreSQL and in two directory
trees (assets, exports).  Requests run concurrently, one goroutine each, over a
connection pool; jobs run in goroutines of one scheduler, beside the requests.

| Component | State | Operations | Talks to | What makes it hard |
|---|---|---|---|---|
| Fulfillment lifecycle (`service/fulfillment.go`, `repository/fulfillment.go`) | `fulfillments`, `fulfillment_timeline`, `shipping_addresses` | Create, Transition to seven targets, UpdateShippingAddress, soft delete, restore | inventory in the same transaction; customers, addresses and audit on other connections | stale pages, order of timeline and status, type-specific paths |
| Inventory (`service/inventory.go`, `repository/reservation.go`, `tier.go`) | `reward_tiers.inventory_count`, `reservations` | Reserve, Release | called by Create and by CANCELED | two tables that must agree; release must happen once |
| Reward tiers (`handler/tier.go`, `page_tier.go`) | `reward_tiers` | create, versioned update, soft delete, restore | shares `inventory_count` with inventory | an absolute write over relative ones |
| Customers (`handler/customer.go`, `page_customer.go`) | `customers` | create, versioned update, soft delete, restore | read by Create, messaging, purge | an update merged from three readings of the row; foreign keys |
| Cleanup job (`job/cleanup_job.go`) | none of its own | nightly purge of rows soft-deleted for 30 days | every table | one failing DELETE rolls back all; races with restore |
| Messaging (`service/messaging.go`, `repository/send_log.go`) | `send_logs` | Dispatch, MarkPrinted, MarkFailed, RetryPending | the notify job, customers, templates | several unlocked statements per operation; retry against handoff |
| Exceptions and overdue job | `fulfillment_exceptions`, events | open, update, system creation from the job | fulfillments, SLA | check then create; snapshot of candidates |
| SLA (`service/sla.go`) | none (settings, blackout dates) | due date in business hours | overdue job, READY_TO_SHIP | calendar arithmetic, termination |
| Scheduler (`job/scheduler.go`) | `job_run_history`, `job_schedules` | interval and daily loops, manual run, stop | all jobs | shutdown and crash during a run, manual run beside the ticker |
| Report exports | `report_exports`, files | generate, verify, delete, expire | scheduler, file system | row and file are not atomic |
| Users and sessions | `users`, cookies, open edit forms | update, deactivate, change password, bootstrap | every request | the last administrator, stale forms and updates |
| Backup and restore | archives, asset directory | backup, list, restore | pg tools, file system | crash between two renames, two restores on the same directories |
| Audit log, notifications, settings, encryption, HTTP | append-only rows, configuration | | | nothing decides on them, or pure formatting |

What has to be true of each:

* **Lifecycle**: a version identifies what a page showed; a completed
  fulfillment has gone through the whole of its own path; the timeline tells
  the status; a deleted row is frozen.
* **Inventory**: shelf plus reservations is constant; a fulfillment holds one
  unit from creation until cancellation; never below zero.
* **Purchase limit**: no 30-day window of a customer and tier exceeds the limit,
  whatever is deleted, restored, canceled or purged.
* **Tiers, customers**: no edit is lost or half undone; no oversell.
* **Cleanup**: no orphans, nothing purged that may still be restored, expired
  rows do go.
* **Messaging**: every channel of a dispatch is accounted for, a printed handoff
  stays printed, none is given up early or postponed, a failed one is handled.
* **SLA**: a deadline is the first moment by which the business hours passed.
* **Exceptions**: the job opens no second exception beside an open one, but for
  an overlap; none early; and what stays overdue is reported.
* **Scheduler**: a row that is RUNNING has its run; shutdown ends.
* **Exports**: a completed record has its file, a file has its record, what is
  expired goes, row and file.
* **Users**: who is deactivated does not get access back by accident; an edit
  overwrites nothing that was saved since its handler read the account; the
  initial password is really replaced.
* **Backup**: the assets survive every restore and every crash; a restore that
  reports success has happened.

The hazards behind these, each at its line, are listed in `PROJECT.json`.

## 2. Plan

Done, in this order: `Fulfillment` (the core), what interferes with it
(`TierEditing`, `CustomerEditing`, `Cleanup`), the send-log protocol
(`Messaging`), the statements behind the core's actions (`Transactions`, which
refines `Fulfillment`), the calendar, the scheduler and the overdue job composed
(`Calendar`, `Scheduler`, `Overdue`), user accounts and sessions (`Accounts`),
exports with backup and restore (`Exports`, `Backup`).  Then the proofs: every
safety invariant and action property that a run confirms is also a theorem
(section 5), and `Transactions` is proved to refine `Fulfillment`.

What is left, most important first:

1. Proofs: the safety cores of the liveness properties, for example that a run
   of the retry job or of the overdue job comes nearer to its end with each of
   its steps, and that a request of `Transactions` waits for nothing but the
   pool and a lock whose holder does not wait for it.
2. Model: the purge of message templates with their send logs (step 4 of the
   cleanup job), the creation of tiers and customers, legacy `.sql.gz`
   archives.

Each module keeps parameters as CONSTANTS under named assumptions, one action
per operation, invariants as named conjuncts, and no RECURSIVE operator.

## 3. The modules

### `Fulfillment`

| Variable | Code |
|---|---|
| `tier[t]` | row of `reward_tiers`: `inventory_count`, `purchase_limit`, `version`, `deleted_at` |
| `customer[c]` | `customers.deleted_at` |
| `ful[f]` | row of `fulfillments`, `NULL` before the INSERT; `filled` is the set of nullable columns that have a value (`shipped_at` stands for carrier, tracking number and time) |
| `reservation[f]` | status of the row of `reservations`, `NONE` without one |
| `address[f]` | row of `shipping_addresses` |
| `timeline[f]` | rows of `fulfillment_timeline` in order |
| `view[k]` | the fulfillment page a client has open |
| `now` | the clock |

*Granularity.*  Create, Transition and UpdateShippingAddress run in one
transaction that first takes `SELECT ... FOR UPDATE` on the row it decides on
(the tier for Create, the fulfillment otherwise); every other row it writes is
written only by transactions that hold the same lock, or by a relative update
of the stock counter.  A committed transaction is therefore one action, and a
rejected one, which rolls back, is a disabled action.  Two things the code does
outside the lock are covered too: Create looks up the customer on another
connection, and a deletion that slips in between has the same outcome as the
creation followed by the deletion, which the model has; and it takes `since`
before `created_at`, which can only make the count larger.  Soft deletes and
restores are single statements.  Opening a page is two reads (`Open`,
`ReadAddress`), because the handler reads row and address by two statements
outside any transaction.

*Inputs.*  A request carries the version some open page shows, or 0, which
Transition takes as "do not check" and UpdateShippingAddress refuses.

*Left out.*  Audit rows, notifications, names and texts, encryption of the
voucher code, the SLA due date set with READY_TO_SHIP.  Tiers and customers
exist from the start.

### `TierEditing` (extends `Fulfillment`)

`form[a]` is an administrator's open form with the row it was read from;
`SaveForm` is `Update`, which writes the absolute count under the version
check.  `granted[t]` is a history variable: the units an administrator meant to
put on the shelf, counted as the amount by which an entered count exceeds the
one the form showed.

### `CustomerEditing` (extends `TierEditing`)

`contact[c]` is the version and the encrypted columns of a customer; a value is
named by the version it was written with.  `edit[a]` is what an editor sees,
has sent, and what the handler has read since.  `SendUpdate` covers API and
page: the API sends the columns it names, the page its other columns as well, as
it shows them.  `ReadExisting` and `WriteCustomer` are the two statements of
`Update` and `PostUpdate`.

### `Cleanup` (extends `Fulfillment`)

`Run` is the purge's transaction: expired fulfillments with their children,
then customers, then tiers.  `Blocked` is the foreign-key failure that rolls it
back.  `purged` keeps the row a purged fulfillment had (history), `goneTier` and
`goneCustomer` the purged rows of the other tables.  The transaction is one
action because rows expired at its start can be reached by no other statement:
restore refuses them, and every other statement asks for `deleted_at IS NULL`.

### `Messaging`

| Variable | Code |
|---|---|
| `log[<<d, c>>]` | the row of `send_logs` for dispatch `d` and channel `c`: `status`, `attempt_count`, `next_retry_at`, `first_failed_at` |
| `pending[d]` | the channels `Dispatch` was asked for, those it has still to insert, and whether it was cut off before it had (`asked` and `cut` are history) |
| `report[o]` | where a request is in `MarkFailed`: status checked, FAILED written, row read again |
| `run[r]` | where a `RetryPending` is: its `now`, the snapshot rows left, the row set to QUEUED and not yet rescheduled |

Nothing here runs in a transaction, so every action is one SQL statement and
everything may run between two statements of one operation.  `UpdateStatus`
writes whatever the status has become, as the WHERE clause names only the id;
`MarkPrinted` is the one guarded statement.  `Abort` ends an operation between
two statements (server stop, canceled context), or lets a statement of
`RetryPending` fail, whose errors the code ignores.  `Ticker` is the scheduler's
loop, `Manual` a run triggered by an administrator beside it.  A tick is ten
minutes, the unit of the retry policy.  The order in which `Dispatch` queues the
channels is left open.

### `Transactions` (extends `Fulfillment`)

Create, Transition and UpdateShippingAddress as `WithTx` runs them: `tx[r]` is
where request `r` is (begun, row locked, second lookup done, limit counted,
written, committed and about to audit), with the version it carries and the row
it read under its lock; `maxConns` is the size of the pool.  `Locked(r)` are the
rows held by `SELECT ... FOR UPDATE` or an UPDATE; a lookup on a second
connection waits for the pool.  `Abort` ends a request anywhere: canceled, a
statement failed, the process died.  Uncommitted writes are invisible, so the
writes appear with the commit.  The clock stands still: a tick is a day.

The refinement: `Atomic == INSTANCE Fulfillment WITH customer <- CustomerBar`.
A customer that a creation has looked up counts as deleted only once the
creation is over, because nobody can tell the two orders apart.
The refinement is checked for every step, so that `TypeOK` and the invariants
of `Fulfillment` carry over and are not checked again here.

### `Calendar`, `Scheduler`, `Overdue`

`Calendar` holds the settings of the business hours key by key, the form that
saves them by one upsert each, the blackout dates, and the pure functions of
`SLAService`: `Walk` is the loop of `CalculateDeadline` as a recursive function
of the moment it has come to and the units it still needs, `NULL` standing for
"does not end".  `ReferenceDeadline` counts business units
one by one.

`Scheduler` is the process (up, stopping, down) and its runs: `worker[w]` is
where the ticker's or a manual run is and whether it has a row in
`job_run_history`; `orphans` are rows left RUNNING, by boot.  Stop cancels the
ticker's context and waits for it, not for manual runs.  Every statement may
fail; `faulty` remembers that one did.

`Overdue` extends both: `job[w]` is where a run of the overdue job is, with its
snapshot of candidates, the settings and the blackout dates it has loaded.  The
snapshot is ordered by the moment of readiness; rows of the same moment come in
any order, as PostgreSQL promises none.  `exc` are the exceptions of each
fulfillment, which staff open, resolve and reopen, and `openings` counts how
often that happened.  An exception carries, as history, which of the openings
was its last and how many its opener had seen when it looked for an open one
(`seen`, which the run keeps in `job[w]` between its check and its insert).

### `Accounts`

`users` is the table, `cookies[b]` the API and the page cookie of a browser,
`forms` the edit forms that browsers have open with the account they show,
`requests[r]` a request on its way through authorisation, the statements of its
handler and back; answers arrive in any order or not at all.  `Start` is the
bootstrap of the first administrator.  A request that saves a form carries, as
`shown`, the account the form showed; no action reads it, because
`PostUpdateUser` ignores the version the form sends, and `UpdateUser` compares
the version it has read itself a statement earlier.  Histories: `renewed` (an
account has had a password other than the initial one), `revived` (an edit undid
its deactivation), `overlapped` (a browser had two requests under way).

### `Exports`, `Backup`

`Exports`: `rows` and `files` of the exports, `gen[e]` the position of the
goroutine that generates one, `removal[d]` that of a deletion by hand or by the
cleanup job.  `disturbed` collects the exports that met a failure, a crash or a
deletion half way; the properties say what holds of the others.  `stranded`
collects those whose row may go without their file: the removal of the file
failed, the row was read before it named the file, or a restore replaced it.

`Backup` extends it: `archives` and `sums` by the second in their names,
`writers` the backups under way, `restore[r]` the position of each restore, and
the three directories that restores rename (`assets`, `.pre_restore` = `pre`,
`.restore_stage` = `stage`).  A directory is the set of its files, `NULL` when
missing.  Any number of restores may be under way, since neither the service nor
the page handler takes a lock; all of them use the one `stage` and the one
`pre`.  The stage is filled directory first, then file by file, each copy one
step.  `os.Rename` refuses a directory as its target, empty or not (`Free`).
While two restores load their dumps side by side the database may become any
mixture of them (`Mixtures`).  `live` is the last tree that a restore
put in place, whatever it was, or that others wrote; histories are
`found` (the tree there was when a restore began), `overlapped` (two restores
were under way at once), `bare` (there was no assets directory at the start) and
`tainted` (a restore was cut off or one of its operations failed).  Others change
the assets directory only while no restore is under way: the model does not say
what a restore does to files written during it.

### Proof and MC modules

The eight `*Proofs` modules hold the theorems (section 5); `CleanupProofs`,
`EditingProofs` and `TransactionsProofs` build on `FulfillmentProofs`, and
`OverdueProofs` covers `Calendar` and `Scheduler` too.  `MC*` modules give the constants that need definitions.

## 4. The runs

| Run (module, configuration) | Question | Instance |
|---|---|---|
| `fulfillment_stock` (`MCFulfillment`, `Fulfillment_stock.cfg`) | Is a unit ever lost, oversold or released twice, or the rolling limit broken? | 3 fulfillments, 2 customers, 1 tier of 2 units and limit 1, 3 clock values, versions to 3 |
| `fulfillment_path` (`MCFulfillment`, `Fulfillment_path.cfg`) | Do versions, timeline and completion tell the truth through a whole life? | 1 fulfillment to version 7, a client, 2 addresses, 2 clock values |
| `editing` (`MCCustomerEditing`, `CustomerEditing.cfg`) | Do concurrent edits of a tier and a customer, reservations and deletions respect each other? | 2 administrators, 1 fulfillment, counts 0 and 1, versions to 3, 1 contact column |
| `tier_oversell` (violation; `MCTierEditing`, `TierEditing_oversell.cfg`) | Can more be reserved than was stocked? | 1 administrator, 2 fulfillments, 1 unit |
| `cleanup` (`MCCleanup`, `Cleanup.cfg`) | Does the purge leave everything else's properties intact, and does it purge? | 2 fulfillments, 1 customer, 1 tier, 4 clock values |
| `messaging` (`MCMessaging`, `Messaging.cfg`) | Is every channel of a dispatch accounted for, and do overlapping reports and retry runs give up or postpone a handoff, or leave it in limbo? | 1 dispatch with one further channel, 2 reports, the loop and a manual run, 6 clock values, 1 failure half way |
| `messaging_printed` (violation; `MCMessaging`, `Messaging_printed.cfg`) | Is a printed handoff final, as `MarkFailed` means it to be? | the same |
| `transactions` (`MCTransactions`, `Transactions.cfg`) | Are interleaved statements of concurrent transactions those of `Fulfillment`'s whole ones, and what can a request wait for in vain? | 2 requests out of 6, 2 fulfillments, 1 unit, pools of 2 and 3 connections |
| `calendar` (`MCCalendar`, `Calendar.cfg`) | Does the deadline loop compute the right moment, and when does it not end? | days of 4 units, weeks of 3 days, 3 forms in every half-saved mixture, every set of 5 blackout dates, every hour of readiness |
| `overdue` (`MCOverdue`, `Overdue.cfg`) | Which exceptions does the job open, and does shutdown end? | a voucher and a shipment, the ticker and a manual run, 2 events of the environment |
| `accounts` (`MCAccounts`, `Accounts.cfg`) | Who can lose an edit, get access back or keep the initial password? | 3 accounts, 1 browser, 4 requests, 3 at a time |
| `storage` (`MCBackup`, `Backup.cfg`) | Do rows, files and assets survive failures, crashes and restores? | 1 export, 1 deletion, 1 backup, 2 restores, 2 assets, 2 clock values, 4 events of the environment |

*Bounds.*  `MaxTime` stops the clock, `MaxVersion` the versions, `MaxEvents` and
`MaxRequests` what the environment does (requests, faults, crashes, edits).  A
window of one tick lets a purchase be inside, on the edge of and outside the
window with two ticks.  `fulfillment_stock` has one fulfillment more than units,
and one more than the limit allows a customer, so both guards are hit while
another is canceled or deleted.  Versions to 3 reach a cancellation and a hold,
each after the first transition; `fulfillment_path` goes to 7, beyond the five
transitions of the longest straight path, so a hold with a resume, or an address
edit, fits in.  The longest loop adds nothing new: after a resume the fulfillment
is READY_TO_SHIP with more columns filled.  `editing` needs three versions: an
edit, one that was overtaken, and one more to be overtaken; in it a browser has
one thing open at a time.  `cleanup` lets time pass beyond creation, deletion
and retention.  `messaging` has one more report than attempts (the cap is 2
there, 3 in the code, which only lengthens the row's life), and a clock that
outlives the last retry time any report can set, so that a row stuck in FAILED
is not mistaken for one whose time has not come.  `transactions` asks for the
last unit twice and for the same fulfillment's preparation, cancellation and
address at once; with two connections and two requests the pool can run dry,
with three it cannot.  `calendar` is exhaustive for its calendar: weeks of three
days have two business days in a row, one alone and none, and needing three units
of two-unit days lets a deadline fall on the first, second or a later business
day.  `overdue` allows two events: enough for a half-saved form, a failed
statement with a restart, a resolved and reopened exception, or a manual run
with a change under it or a duplicate from it.  Its clock stops within two days after the last possible
blackout date (`OverdueAssumption`), because beyond it the search for a deadline
has ended.  `accounts` has four requests: a login, the opening of an
edit form, and two more that overlap (the form's own edit with another edit, a
deactivation or a password change).  `messaging` has one handoff channel beside
the in-app one, as two exceed what can be checked in minutes; a dispatch that
queues some of its channels and is cut off before the others is left to the
proof, which is for any set.  `storage` allows a backup and two restores that
overlap, with a crash, a failure or a change of the assets, of trees with
different files, from a directory that exists or not (`Start`).  It has one
backup at a time, so two backups of one second, whose archive mixes, are
modelled and proved about for any set of writers, but not reached in the run.
Deadlock
is not checked because bounded clocks, versions and events do bring the models
to a stop where the program would go on.

*Fairness.*  `Cleanup`: the scheduler's daily loop starts the purge every day
while the server runs, hence `WF(Run)`, and the clock goes on.  Nothing is
assumed of users, so `PurgedUnlessBlocked` has the absence of a lasting
foreign-key block as its hypothesis.  `Messaging`: the loop starts the job every
interval and a goroutine that runs is scheduled, hence weak fairness of
`StartRetry` and `RetryStep` for the ticker, none for manual runs, reports or
prints.  `Transactions`: strong fairness of each request's next statement,
because pgxpool hands out connections, and PostgreSQL row locks, in the order
they were asked for; none of requests being sent or aborted.  `Overdue`: weak
fairness of a run's next statement, of the ticker, of a form that is being
saved, and of the exit of a process that can; a crash, stop or restart is never
owed.  `Backup`: weak fairness of the export cleanup and its statements, as the
scheduler runs it again and again.

*What the hypotheses of properties stand for.*  Several properties name the one
way in which the code lets them fail, and hold otherwise:

* `StuckOnlyByPool`: Create, Transition and UpdateShippingAddress hold a
  connection while they ask the pool for another; as many of them as there are
  connections wait for ever (`service/fulfillment.go:165`).
* `OverdueIsReported`, `StopEnds`: the loop of `CalculateDeadline` does not end
  when hours are half saved or senseless, and then neither does the ticker, and
  Stop waits for it.
* `DeadlineIsExact`: blackout dates are looked up by the server's date and for 30
  days only (`service/sla.go:101`).
* `DuplicatesOnlyByOverlap`: check and insert are two statements; what another
  run or staff open or reopen between them gets a duplicate, and staff may open
  one beside another at any time.  `docs/design.md:150` ("Avoid duplicate open
  exceptions for same breach") and the comments at `job/overdue_job.go:14` ("if
  none already exist") and `:68` promise more.
* `RunningRowsRun`: a failed statement, or a shutdown that canceled the context
  the last statement uses, leaves a row RUNNING.
* `NoEditLostOnceRead`: the version guards only the moment between the two
  statements of `UpdateUser` (`service/user.go:98`).  The edit form sends the
  version it shows, the page handler does not read it (`handler/page_admin.go:182`),
  and the API carries none (`handler/user.go:89`), so that an edit made from a
  form overwrites, unseen, what was saved since the form was opened, against
  `docs/design.md:82` ("Updates require matching `version`", else 409).
* `ReactivatedOnlyByEdit`: Deactivate does not change the version
  (`repository/user.go:123`), so that an edit read before undoes it.
* `RotationIsReal`: an edit may revive an account between the two statements of a
  password change that then keeps the initial password.  And the rotation is a
  thing of the past: an account that has once had another password may change back
  to the initial one, and is not asked to change it again.
* `CookiesAgree`: a late answer to a page request sets the page cookie again after
  a logout or another login.
* `ExportsAccounted`: a failure, a crash or a deletion during generation leaves a
  row PROCESSING or a file without a row (`service/export.go:79`, `:135`,
  `:299`).
* `ExpiredIsRemoved`: a file that could not be removed is only logged
  (`service/export.go:306`); its row goes, nothing names the file any more and it
  stays for ever, while `docs/design.md:211` says the nightly cleanup "removes
  expired files and rows".
* `AssetsSurvive`: a failed or interrupted restore, or two at once, never lose
  the tree, except where no assets directory existed at first (nothing in the
  program creates it) and two restores overlap: the one that found nothing to move
  away removes as its own leftover what the other has just moved away
  (`service/backup.go:288`).
* `RestoreTellsTheTruth`: errors of staging and renaming are only logged, and
  leftovers of an interrupted restore disturb later ones (`service/backup.go:278`).
  Two restores at once share the stage: they mix their trees in it, one puts in
  place what the other has staged half way, the databases mix too, and both report
  success.  The comments at `service/backup.go:227` ("atomic staged swap") and `:274`
  ("Restore assets atomically") promise more.
* `PurgedUnlessBlocked`: one expired customer or tier that a live fulfillment
  references rolls back every nightly purge (`job/cleanup_job.go:109`), while
  `docs/questions.md:96` and `docs/design.md:203` promise the purge without
  reservation.

*Findings.*  Two runs show code that contradicts its documents: saving a tier
form undoes the reservations made since it was opened (`tier_oversell`), and a
failure report that races a print drags the printed row back to FAILED
(`messaging_printed`).

Met on the way, not a run each: a hold does not restock, while
`docs/questions.md:13` says so; an address edit leaves no timeline event, while
the comment at `service/fulfillment.go:429` promises one; `docs/design.md:176` and
`docs/questions.md:68` and `:72` say that an in-app message is queued and retried
three times in 30 minutes while SMS and e-mail entries only wait to be printed,
but Dispatch marks the in-app record SENT at once, nothing ever retries it, and
the retries go to SMS and e-mail (`DispatchIsAccounted` states what the code
does; what a dispatch that was cut off had not queued yet is lost);
an export expires after 7 days (`service/export.go:129`), while `docs/design.md:210`
and `docs/questions.md:116` and `:120` say 90; a transition that sends
version 0 is not version-checked (`handler/page_fulfillment.go:246` sends 0 for a
missing field); `docs/design.md:114` says every attempted transition is
audit-visible, while a rejected one writes no audit row; `job/notify_job.go:10`
says the job retries QUEUED rows and turns exhausted ones into FAILED, while it
selects FAILED rows only and clears their retry time; an error message of more
than 64 characters does not fit the checksum column it is stored in and the
export stays PROCESSING (`service/export.go:135`); an export holds at most 20
rows, because the page size of 10000 it asks for is normalised
(`service/export.go:151`); two backups of one second write the same archive
(`service/backup.go:65`), and an archive that was never finished is listed as
COMPLETED (`service/backup.go:216`); `psql` is run without `ON_ERROR_STOP`, and the
server goes on serving during a restore although `docs/design.md:248` wants it
quiet; a customer's page cannot clear a contact column, because an empty one counts
as not sent; with every administrator but the inactive one demoted, bootstrap
finds the name `admin` taken and leaves nobody to administer
(`service/user.go:148`).

## 5. What is proved

`FulfillmentProofs`, for all constants satisfying `FulfillmentAssumption`
(finitely many fulfillment ids; stock a natural number and limit a positive one
for every tier; windows and bounds natural numbers, arbitrary otherwise) and
`NullAssumption` (NULL is no value of a column):

| Theorem | Property | Inductive invariant |
|---|---|---|
| `TypeCorrect` | `TypeOK`, with it stock never below zero | itself |
| `ReservationCorrect` | `ReservationFollowsStatus` | with `TypeOK` |
| `StockCorrect` | `StockConserved` | with `TypeOK` and `ReservationFollowsStatus` |
| `LimitCorrect` | `RollingLimit` | with `TypeOK` and `CreatedInPast` |
| `VersionCorrect` | `VersionIdentifiesRow` | with `TypeOK` |
| `CompletionCorrect` | `CompletionEvidence` | `EvidenceInv`, with `TypeOK` |
| `TimelineCorrect` | `TimelineTellsStatus` | `TimelineInv`, with `TypeOK` |

`ReservationFollowsStatus` is what makes stock conservation inductive: Release
increments the shelf whether or not it voided anything, so only knowing that a
fulfillment about to be canceled still holds its unit shows that the sum is
kept.  `CreatedInPast` (no row is created in the future) makes the window that
ends with an older purchase immune to a new one; the new purchase's own window
is what Create counted.

The step proofs rest on one case split, `StepKinds`: every step is a creation,
a cancellation, or quiet, that is, it changes no stock, no reservation and no
fulfillment's tier, customer, creation time or being canceled.  The seven
transitions share their effect lemma `RowAfterTransition`.  `EvidenceInv` says of
each status, not only of COMPLETED, which columns are filled: the transition to
COMPLETED checks none of them, so they have to be there when it is reached, and a
hold leads back to READY_TO_SHIP, from where the whole path is gone again.  `TimelineInv` says that the timeline walks the state graph
to the current status, and is empty without a row.

The rest of the core builds on this.  What a step of the services does to the
tables is taken from `FulfillmentProofs`; the further modules add what only they
have.

`TransactionsProofs`, for any sets of requests, operations and pool sizes that
satisfy `PoolAssumption` and `OperationAssumption` (operations are creations,
transitions and address edits) besides the two above:

| Theorem | Property |
|---|---|
| `AtomicCorrect` | `AtomicSpec`: Transactions implements Fulfillment |
| `InterleavingsCorrect` | `StockConserved`, `ReservationFollowsStatus`, `RollingLimit`, `VersionIdentifiesRow`, `CompletionEvidence`, `TimelineTellsStatus` |

The inductive invariant is `TxInv`: two requests never hold the same lock
(`Exclusive`); what a request has found out under its lock is still so, for the
row it read, the limit it counted, the stock it compared and the customer or
address it looked up (`Holds`); the id that a creation is about to insert is
nobody else's (`Fresh`).  With it, a commit maps to the whole transaction of
`Fulfillment`, and every other statement to a stutter: a deletion of a customer
is hidden by `CustomerBar` while a creation that looked the customer up is under
way, and takes place, in the abstract, when that creation is over.
`InterleavingsCorrect` then costs no second invariant: the theorems of
`FulfillmentProofs`, instantiated under the same mapping, hold of the abstract
tables, and the properties do not depend on the one table that differs.

`CleanupProofs`, under `CleanupAssumption` (the retention is no shorter than the
purchase window and the restore window; in the code all three are 30 days):

| Theorem | Property |
|---|---|
| `CleanupTypeCorrect` | `CleanupTypeOK` |
| `OrphansCorrect` | `NoOrphans` |
| `StockAccountedCorrect` | `StockAccounted` |
| `LimitWithPurgedCorrect` | `RollingLimitWithPurged` |

All from `CleanupInv`.  `DeletedLater` and `PurgedLongAgo` relate the two cutoffs:
a row is deleted no earlier than it was created, so one that is old enough to be
purged counts in no window that a purchase can still enter.  `GoneDeleted` keeps
purged tiers and customers out of every later creation.

`EditingProofs`, under `TierEditingAssumption` and `CustomerEditingAssumption`
(counts are natural numbers, the default limit is positive, versions start at 1):

| Theorem | Property |
|---|---|
| `EditingTypeCorrect` | `CustomerEditingTypeOK` |
| `TierEditCorrect` | `NoLostTierEdit` |
| `ContactEditCorrect` | `NoLostContactEdit` |

`FormInv` and `EditInv` say that what a form shows, what an editor saw and what
the handler read for its merge are moments of the row's life in this order, and
that under the same version it is the row.  For a tier this is so of the limit
only: reservations change the stock without the version, which is the finding of
`tier_oversell`.

`MessagingProofs`, for any sets of dispatches, channels, operators and runs
that satisfy `MessagingAssumption` (natural bounds, IN_APP no handoff channel)
and `NullAssumption`:

| Theorem | Property |
|---|---|
| `MessagingTypeCorrect` | `MessagingTypeOK` |
| `DispatchCorrect` | `DispatchIsAccounted` |
| `GiveUpCorrect` | `NotGivenUpEarly` |
| `CadenceCorrect` | `NoRetryPostponed` |

All four follow from one inductive invariant, `IInv`.  Its core is `Past`: what a
report or a run remembers of a row never overstates it, since attempts only
grow and a first failure, once set, stays.  That is why decisions on a stale
snapshot are still sound, although the status they were based on is not.
`WriteStep`, `ReadStep` and `CreateStep` show that the three kinds of steps keep
the invariant; each action is then one of the three.

`OverdueProofs`, for any calendar, fulfillments and manual runs that satisfy
`CalendarAssumption` (positive lengths of day, week and need; the server's offset
is less than a day), `SchedulerAssumption` and `OverdueAssumption` (finitely many
fulfillments, the clock's bound; `"ticker"` is no manual run):

| Theorem | Property |
|---|---|
| `DeadlineCorrect` | `DeadlineIsExact`, of `CalendarSpec` |
| `OverdueTypeCorrect` | `OverdueTypeOK` |
| `RunningRowsCorrect` | `RunningRowsRun` |
| `DuplicatesCorrect` | `DuplicatesOnlyByOverlap` |
| `NeverEarlyCorrect` | `NeverEarly` |

`DeadlineCorrect` is about an algorithm: the loop and the count of business units
agree for every calendar, every setting of the hours, half saved or senseless
ones included, and every set of dates.  Induction is over a set of natural
numbers (`SetInduction`, from the library's theorem on minimal elements), because
the prover has none over a predicate.  `WalkExists` builds the recursive function
turn by turn, so that its definition may be unfolded; `TurnExact` shows that one
turn of the loop is exact when the next is, and `WalkExact` that all are.
`OpenAgain` justifies the horizon: beyond the last blackout date every week is
like the one before, so hours that are open once are open `Need` times before
it, and a search that has found nothing by then never will.  `LoadedAlike` and
`LoadedMore` compare the dates that the service loads with all dates.

Of the job: `TypeInv` says that a run is in the job exactly while its worker
works, `RowsTold` in which states of the process a row of this boot can be left
RUNNING, `OpenedInv` that every
exception's opening is one of those counted, `CheckedInv` that whatever is open when
a run is about to insert was opened since its check, and `PastInv` that a run which checks or opens is past
the deadline on the hours and dates it has read.

`AccountsProofs`, for any accounts, browsers, requests and operations that satisfy
`AccountsAssumption`, `NullAssumption` and `OperationAssumption` (a request
carries what its form has):

| Theorem | Property |
|---|---|
| `AccountsTypeCorrect` | `AccountsTypeOK` |
| `RotationCorrect` | `RotationIsReal` |
| `CookiesCorrect` | `CookiesAgree` |
| `AccountEditCorrect` | `NoEditLostOnceRead` |
| `ReactivationCorrect` | `ReactivatedOnlyByEdit` |

`UsersGrow` is what every statement does to the table: versions only grow, under
the same version a row is the same but for `is_active`, and only an edit revives.
From it follows `AskInv`, which says the same of the copy that a request has read
and writes back later, and of what open forms show (`FormsOK`).  That is why an
edit overwrites nothing saved after its handler's read, and why what it may
overwrite of a form's view can be told from the versions alone.  `RotationInv` follows the initial password
through the two statements of its change, `CookieInv` the answers: a browser with
one request at a time gets either both cookies of one account or changes to one
that agree with the other.

`BackupProofs`, for any sets of exports, deletions, backups, restores and assets
that satisfy `ExportsAssumption`, `ExportsNull` and `BackupAssumption`:

| Theorem | Property |
|---|---|
| `BackupTypeCorrect` | `BackupTypeOK` |
| `ExportsCorrect` | `ExportsAccounted` |
| `AssetsCorrect` | `AssetsSurvive` |
| `RestoreCorrect` | `RestoreTellsTheTruth` |

The first three follow from one inductive invariant, `IInv`, the fourth, an
action property, from `IInv` and `TruthInv`.  The part of `IInv` about
exports (`SnapOK`, `FilesInv`) rests on generation going only forward
(`Forward`): what a copy of the table says of a completed export, be it in an
archive, in a restore under way or in a mixture of two, stays true of its file
however old the copy is, so that a restore cannot make a completed row out of an
unfinished file.  And whoever works on an export that someone else works on, or
fails, marks it as disturbed, so that of the others row and file go together
(`Regular`).  The part about assets (`SwapInv`) is about any number of restores
in any positions: the current tree is in the assets directory, or moved away while
that directory is missing; and at most one restore is about to remove
`.pre_restore`, at a time when the assets directory is there.  That is so because
`os.Rename` refuses a directory: a second restore can put its stage in place only
after the first one's tree was moved away, and there is room to move it away only
once `.pre_restore` is gone.  It fails only where the first restore had nothing to
move away, hence `bare`.  `TruthInv` says what a restore that met no other has done
at each position: something true whatever failed before (`Told`), and exactly what
the positions before were for if nothing did (`Exact`, `NothingLeft`).

Only model-checked are the liveness properties (`FailedIsHandled`,
`PurgedUnlessBlocked`, `StuckOnlyByPool`, `OverdueIsReported`, `StopEnds`,
`ExpiredIsRemoved`): liveness under fairness and ENABLED are outside the prover.
`NoOversell` and `PrintedIsFinal` are violated by the code (section 4).

## 6. What is not modelled

`PROJECT.json` lists it by component.  Left out for good: notifications (rows
that are inserted and marked read, no decision depends on them), encryption,
masking, CSV and password hashing (formatting and cryptography), routing and
views, except which roles a route asks for.  Left out because they are single
statements nothing else depends on: the creation of tiers and customers, recovery
drills, the free-text events of exceptions.  Left out so far: message templates
(one versioned update of the form `TierEditing` has, and step 4 of the purge),
legacy `.sql.gz` archives, and when exactly the daily loop ticks.
