---------------------------- MODULE Transactions ----------------------------
(***************************************************************************)
(* The database transactions behind Fulfillment, statement by statement:   *)
(* Create, Transition and UpdateShippingAddress each begin on a connection *)
(* of a bounded pool, lock the row they decide on, ask for facts on a      *)
(* second connection of the same pool, write, commit, and audit after the  *)
(* commit.  A transaction may end at any point by a rollback: its request  *)
(* was canceled, or a statement failed.  Ticks are days and transactions   *)
(* are shorter: the clock stands still here.  Uncommitted writes are       *)
(* invisible to others, so a transaction carries the row it read under its *)
(* lock and its writes appear with the commit.                             *)
(*                                                                         *)
(* AtomicSpec states that these interleavings are those of Fulfillment,    *)
(* whose actions are whole transactions.                                   *)
(***************************************************************************)
EXTENDS Fulfillment

CONSTANTS
    Request,     \* the requests that may be in progress at a time
    Operation,   \* what they may ask for
    Pools        \* the values MaxConns of the connection pool may have

ASSUME PoolAssumption == Pools \subseteq Nat \ {0}

Creation == [kind : {"create"}, f : FulfillmentId, c : Customer, t : Tier, type : Types]
Change   == [kind : {"transition"}, f : FulfillmentId, to : Statuses, a : Address \cup {NULL},
             page : Client \cup {NULL}]
Edit     == [kind : {"address"}, f : FulfillmentId, a : Address, page : Client]

ASSUME OperationAssumption ==
    /\ Operation \subseteq Creation \cup Change \cup Edit
    /\ \A op \in Operation : op # NULL

VARIABLES
    tx,      \* where each request is in WithTx: idle, waiting (for a connection),
             \* begun, locked, looked (up), counted, written, audit; with its
             \* operation, the version it carries and the row it read
    maxConns \* the size of the pool

txVars == <<vars, tx, maxConns>>

NoTx == [at |-> "idle", op |-> NULL, expected |-> 0, row |-> NULL]

-----------------------------------------------------------------------------
At(r, p) == tx[r].at = p

Op(r) == tx[r].op

GoTo(r, p) == tx' = [tx EXCEPT ![r].at = p]

InTransaction(r) == tx[r].at \in {"begun", "locked", "looked", "counted", "written"}

Cancels(op) == op.kind = "transition" /\ op.to = "CANCELED"

(* The rows request r holds with SELECT ... FOR UPDATE or an UPDATE of its   *)
(* own: the tier for a creation, the fulfillment for the other two, and the  *)
(* tier as well once a cancellation has incremented it.                      *)
Locked(r) ==
    IF tx[r].at \notin {"locked", "looked", "counted", "written"} THEN {}
    ELSE IF Op(r).kind = "create" THEN {<<"tier", Op(r).t>>}
    ELSE {<<"ful", Op(r).f>>} \cup
         (IF Cancels(Op(r)) /\ At(r, "written") THEN {<<"tier", tx[r].row.tier>>} ELSE {})

NobodyLocks(r, row) == FALSE                                       \* mutant

LockedByOther(r, row) == \E q \in Request \ {r} : row \in Locked(q)

InUse == Cardinality({ r \in Request : InTransaction(r) })

ConnectionFree == InUse < maxConns

-----------------------------------------------------------------------------
(* A client sends a request, perhaps twice: from an open page, with the      *)
(* version the page shows, or with none.  A new fulfillment has a fresh uuid.*)
Submit(r, op) ==
    LET page == IF op.kind = "create" THEN NULL ELSE op.page IN
    /\ At(r, "idle")
    /\ IF op.kind = "create"
       THEN ~Exists(op.f) /\ \A q \in Request : Op(q) # NULL => Op(q).f # op.f
       ELSE Exists(op.f)
    /\ page # NULL => view[page] # NULL /\ view[page].loaded /\ view[page].id = op.f
    /\ tx' = [tx EXCEPT ![r] = [at |-> "waiting", op |-> op, row |-> NULL,
                                expected |-> IF page = NULL THEN 0 ELSE view[page].version]]
    /\ UNCHANGED <<vars, maxConns>>

(* pool.Begin *)
Begin(r) ==
    /\ At(r, "waiting")
    /\ ConnectionFree
    /\ GoTo(r, "begun")
    /\ UNCHANGED <<vars, maxConns>>

(* What the operation asks of the row it has locked.                         *)
Accepts(r) ==
    LET op == Op(r) IN
    CASE op.kind = "create" -> TierLive(op.t)
      [] op.kind = "transition" ->
           /\ Live(op.f)
           /\ tx[r].expected \in {0, ful[op.f].version}
           /\ IsTransitionAllowed(ful[op.f].status, op.to)
           /\ TypeAllows(op.f, op.to)
           /\ ful[op.f].version < MaxVersion
      [] op.kind = "address" ->
           /\ Live(op.f)
           /\ tx[r].expected # 0 /\ tx[r].expected = ful[op.f].version
           /\ ful[op.f].type = "PHYSICAL"
           /\ ful[op.f].status \notin {"DELIVERED", "COMPLETED"}
           /\ ful[op.f].version < MaxVersion

RowToLock(op) == IF op.kind = "create" THEN <<"tier", op.t>> ELSE <<"ful", op.f>>

(* SELECT ... FOR UPDATE waits for the lock and returns the row as it is     *)
(* then; the guards that need no other statement are evaluated on it.        *)
Lock(r) ==
    /\ At(r, "begun")
    /\ ~LockedByOther(r, RowToLock(Op(r)))
    /\ Accepts(r)
    /\ tx' = [tx EXCEPT ![r].at = "locked",
                        ![r].row = IF Op(r).kind = "create" THEN tier[Op(r).t] ELSE ful[Op(r).f]]
    /\ UNCHANGED <<vars, maxConns>>

(* Whether the operation asks for something on a second connection while it  *)
(* holds its own and its row: the customer, or the address it has.           *)
LooksUp(r) ==
    \/ Op(r).kind \in {"create", "address"}
    \/ /\ Op(r).kind = "transition"
       /\ Op(r).to = "READY_TO_SHIP"
       /\ tx[r].row.type = "PHYSICAL"

Found(r) ==
    CASE Op(r).kind = "create" -> CustomerLive(Op(r).c)
      [] Op(r).kind = "transition" -> Op(r).a # NULL \/ address[Op(r).f] # NULL
      [] Op(r).kind = "address" -> TRUE

LookUp(r) ==
    /\ At(r, "locked")
    /\ LooksUp(r)
    /\ ConnectionFree
    /\ Found(r)
    /\ GoTo(r, "looked")
    /\ UNCHANGED <<vars, maxConns>>

UnderLimit(r) ==
    CountByCustomerAndTier(Op(r).c, Op(r).t, now - PurchaseWindow) < tx[r].row.limit

Count(r) ==
    /\ At(r, "looked")
    /\ Op(r).kind = "create"
    /\ UnderLimit(r)
    /\ GoTo(r, "counted")
    /\ UNCHANGED <<vars, maxConns>>

(* The writes of the transaction.  A creation decrements the stock, which    *)
(* must not be used up; a cancellation increments it and waits for the tier; *)
(* an address edit logs its audit row on a second connection.  Both updates  *)
(* of a fulfillment compare the version once more.                           *)
Write(r) ==
    /\ \/ /\ At(r, "counted")
          /\ tier[Op(r).t].inventory >= 1
       \/ /\ tx[r].at \in {"locked", "looked"}
          /\ Op(r).kind = "transition"
          /\ LooksUp(r) <=> At(r, "looked")
          /\ Live(Op(r).f) /\ ful[Op(r).f].version = tx[r].row.version
          /\ Cancels(Op(r)) => ~LockedByOther(r, <<"tier", tx[r].row.tier>>)
       \/ /\ At(r, "looked")
          /\ Op(r).kind = "address"
          /\ ConnectionFree
          /\ Live(Op(r).f) /\ ful[Op(r).f].version = tx[r].expected
    /\ GoTo(r, "written")
    /\ UNCHANGED <<vars, maxConns>>

RefuseWithoutRollback(r) ==                                        \* mutant
    At(r, "begun") /\ ~Accepts(r) /\ UNCHANGED txVars

(* The function passed to WithTx returns an error: the request is answered,  *)
(* the transaction rolled back.                                              *)
Refuse(r) ==
    /\ \/ At(r, "begun") /\ ~LockedByOther(r, RowToLock(Op(r))) /\ ~Accepts(r)
       \/ At(r, "locked") /\ LooksUp(r) /\ ConnectionFree /\ ~Found(r)
       \/ At(r, "looked") /\ Op(r).kind = "create" /\ ~UnderLimit(r)
       \/ At(r, "counted") /\ tier[Op(r).t].inventory < 1
    /\ tx' = [tx EXCEPT ![r] = NoTx]
    /\ UNCHANGED <<vars, maxConns>>

-----------------------------------------------------------------------------
(* Commits: what the transaction wrote appears at once.                      *)

CommitCreate(r) ==
    LET op == Op(r) IN
    /\ At(r, "written") /\ op.kind = "create"
    /\ ful' = [ful EXCEPT ![op.f] =
                 [tier |-> op.t, customer |-> op.c, type |-> op.type, status |-> "DRAFT",
                  version |-> 1, createdAt |-> now, deletedAt |-> NULL, filled |-> {}]]
    /\ AddInventory(op.t, -1)
    /\ reservation' = [reservation EXCEPT ![op.f] = "ACTIVE"]
    /\ timeline' = [timeline EXCEPT ![op.f] = <<[from |-> NULL, to |-> "DRAFT"]>>]
    /\ GoTo(r, "audit")
    /\ UNCHANGED <<now, customer, address, view, maxConns>>

ColumnsOf(to) ==
    CASE to = "READY_TO_SHIP"  -> {"ready_at"}
      [] to = "SHIPPED"        -> {"shipped_at"}
      [] to = "VOUCHER_ISSUED" -> {"voucher_code"}
      [] to = "DELIVERED"      -> {"delivered_at"}
      [] to = "COMPLETED"      -> {"completed_at"}
      [] to = "ON_HOLD"        -> {"hold_reason"}
      [] to = "CANCELED"       -> {"cancel_reason"}

(* The UPDATE writes every column but deleted_at from the row that was read  *)
(* under the lock.                                                           *)
CommitTransition(r) ==
    LET op == Op(r) row == tx[r].row IN
    /\ At(r, "written") /\ op.kind = "transition"
    /\ ful' = [ful EXCEPT ![op.f] = [row EXCEPT !.status = op.to,
                                                !.version = @ + 1,
                                                !.filled = @ \cup ColumnsOf(op.to),
                                                !.deletedAt = ful[op.f].deletedAt]]
    /\ timeline' = [timeline EXCEPT ![op.f] = Append(@, [from |-> row.status, to |-> op.to])]
    /\ IF op.to = "READY_TO_SHIP" /\ row.type = "PHYSICAL" /\ op.a # NULL
       THEN address' = [address EXCEPT ![op.f] = op.a]
       ELSE UNCHANGED address
    /\ IF Cancels(op) THEN Release(row.tier, op.f) ELSE UNCHANGED <<tier, reservation>>
    /\ GoTo(r, "audit")
    /\ UNCHANGED <<now, customer, view, maxConns>>

CommitAddress(r) ==
    LET op == Op(r) IN
    /\ At(r, "written") /\ op.kind = "address"
    /\ address' = [address EXCEPT ![op.f] = op.a]
    /\ BumpVersion(op.f)
    /\ tx' = [tx EXCEPT ![r] = NoTx]
    /\ UNCHANGED <<now, tier, customer, reservation, timeline, view, maxConns>>

(* The audit row of a creation or transition is inserted on a connection of  *)
(* its own after the commit, and its error is dropped.                       *)
Audit(r) ==
    /\ At(r, "audit")
    /\ ConnectionFree
    /\ tx' = [tx EXCEPT ![r] = NoTx]
    /\ UNCHANGED <<vars, maxConns>>

(* The request is canceled, a statement fails or the process dies.           *)
Abort(r) ==
    /\ ~At(r, "idle")
    /\ tx' = [tx EXCEPT ![r] = NoTx]
    /\ UNCHANGED <<vars, maxConns>>

-----------------------------------------------------------------------------
(* Single statements, each a transaction of its own that waits for its row.  *)
Unlocked(row) == \A r \in Request : row \notin Locked(r)

SoftDeletes ==
    /\ ConnectionFree
    /\ \/ \E f \in FulfillmentId : /\ Unlocked(<<"ful", f>>)
                                   /\ DeleteFulfillment(f) \/ RestoreFulfillment(f)
       \/ \E t \in Tier : Unlocked(<<"tier", t>>) /\ (DeleteTier(t) \/ RestoreTier(t))
       \/ \E c \in Customer : DeleteCustomer(c) \/ RestoreCustomer(c)
    /\ UNCHANGED <<tx, maxConns>>

(* A client that waits for an answer opens nothing.                          *)
Browse ==
    /\ \A r \in Request : tx[r].expected = 0
    /\ ConnectionFree
    /\ \E k \in Client : ReadAddress(k) \/ \E f \in FulfillmentId : Open(k, f)
    /\ UNCHANGED <<tx, maxConns>>

Advance(r) ==
    \/ Begin(r) \/ Lock(r) \/ LookUp(r) \/ Count(r) \/ Write(r) \/ Refuse(r)
    \/ CommitCreate(r) \/ CommitTransition(r) \/ CommitAddress(r) \/ Audit(r)

TransactionsInit == Init /\ maxConns \in Pools /\ tx = [r \in Request |-> NoTx]

TransactionsNext ==
    \/ \E r \in Request :
         \/ \E op \in Operation : Submit(r, op)
         \/ Advance(r)
         \/ Abort(r)
    \/ Browse
    \/ SoftDeletes

(* pgxpool hands out connections and Postgres row locks in the order they    *)
(* were asked for: a request that can proceed again and again does.          *)
TransactionsSpec ==
    /\ TransactionsInit
    /\ [][TransactionsNext]_txVars
    /\ \A r \in Request : SF_txVars(Advance(r))

-----------------------------------------------------------------------------
(* Properties *)

(* A customer that a creation has found may be deleted before the creation   *)
(* commits.  Nobody can tell: the deletion is seen as following it.          *)
CustomerBar ==
    [c \in Customer |->
       IF \E r \in Request :
            /\ tx[r].at \in {"looked", "counted", "written", "audit"}
            /\ Op(r).kind = "create"
            /\ Op(r).c = c
       THEN NULL ELSE customer[c]]

Atomic == INSTANCE Fulfillment WITH customer <- CustomerBar

(* Every interleaving of the statements of concurrent requests, with         *)
(* rollbacks at any of them, is a sequence of Fulfillment's whole            *)
(* transactions: the row locks, the version compared under them and the      *)
(* relative stock updates make WithTx atomic although READ COMMITTED alone   *)
(* does not, and although the customer is checked without a lock.            *)
AtomicSpec == Atomic!Spec

(* A request that waits in the pool's queue while it holds a connection.     *)
AsksForConnection(r) ==
    \/ At(r, "locked") /\ LooksUp(r)
    \/ At(r, "looked") /\ Op(r).kind = "address"

Exhausted == ~ConnectionFree /\ \E r \in Request : AsksForConnection(r)

(* Locks never deadlock: a request that is never answered means that the     *)
(* pool ran dry for good, every connection held by a transaction, one of     *)
(* them in the queue for its second connection (Create, Transition and       *)
(* UpdateShippingAddress read through the pool inside WithTx).               *)
StuckOnlyByPool ==
    \A r \in Request : []<>At(r, "idle") \/ <>[]Exhausted
=============================================================================
