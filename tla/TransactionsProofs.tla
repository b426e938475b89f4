--------------------------- MODULE TransactionsProofs ---------------------------
(***************************************************************************)
(* The statements of concurrent requests, in any order and with rollbacks  *)
(* at any of them, implement the whole transactions of Fulfillment: for    *)
(* any number of requests, rows and connections.                           *)
(***************************************************************************)
EXTENDS Transactions, FulfillmentProofs

Holding4Update == {"locked", "looked", "counted", "written"}

Position == {"idle", "waiting", "begun", "audit"} \cup Holding4Update

Tx == [at : Position, op : Operation \cup {NULL}, expected : Nat,
       row : Row \cup TierRow \cup {NULL}]

(* Where the operation of a request may be, and the page it was sent from,   *)
(* which stays on the screen until the answer.                               *)
RequestOK(r) ==
    /\ ~At(r, "idle") => Op(r) \in Operation
    /\ At(r, "idle") => Op(r) = NULL
    /\ At(r, "counted") => Op(r).kind = "create"
    /\ tx[r].expected # 0 => Sent(Op(r).f, tx[r].expected)

TxTypeOK ==
    /\ TypeOK
    /\ tx \in [Request -> Tx]
    /\ \A r \in Request : RequestOK(r)

(* A uuid that is to be inserted is nobody else's.                           *)
Fresh(r) ==
    tx[r].at \in Position \ {"idle", "audit"} /\ Op(r).kind = "create" =>
        /\ ~Exists(Op(r).f)
        /\ \A q \in Request \ {r} : ~At(q, "idle") => Op(q).f # Op(r).f

Exclusive == \A r, q \in Request : r # q => Locked(r) \cap Locked(q) = {}

(* What a request has found out under its lock is still so.                  *)
CreationHolds(r) ==
    /\ tx[r].row = tier[Op(r).t]
    /\ TierLive(Op(r).t)
    /\ tx[r].at \in {"counted", "written"} => UnderLimit(r)
    /\ At(r, "written") => tier[Op(r).t].inventory >= 1

ChangeHolds(r) ==
    /\ tx[r].row = ful[Op(r).f]
    /\ Accepts(r)
    /\ LooksUp(r) /\ tx[r].at \in {"looked", "written"} => Found(r)

Holds(r) ==
    tx[r].at \in Holding4Update =>
        IF Op(r).kind = "create" THEN CreationHolds(r) ELSE ChangeHolds(r)

(* The clock stands still: whoever is deleted has been deleted now.          *)
GoneNow == \A c \in Customer : customer[c] \in {NULL, now}

TxInv ==
    /\ TxTypeOK
    /\ Exclusive
    /\ GoneNow
    /\ \A r \in Request : Fresh(r) /\ Holds(r)

-----------------------------------------------------------------------------
(* Operations and positions *)

LEMMA OperationKinds ==
    ASSUME NEW op \in Operation
    PROVE  /\ op # NULL
           /\ op.f \in FulfillmentId
           /\ op.kind \in {"create", "transition", "address"}
           /\ op.kind = "create" => op.c \in Customer /\ op.t \in Tier /\ op.type \in Types
           /\ op.kind = "transition" => op.to \in Statuses /\ op.a \in Address \cup {NULL}
           /\ op.kind = "address" => op.a \in Address
BY OperationAssumption DEF Creation, Change, Edit

(* What a step of one request does to where the requests are.                *)
LEMMA GoToEffect ==
    ASSUME TxTypeOK, NEW r \in Request, NEW p \in Position, GoTo(r, p)
    PROVE  /\ tx' \in [Request -> Tx]
           /\ tx'[r].at = p /\ tx'[r].op = tx[r].op
           /\ tx'[r].expected = tx[r].expected /\ tx'[r].row = tx[r].row
           /\ \A q \in Request : q # r => tx'[q] = tx[q]
<1> DEFINE x == [tx[r] EXCEPT !.at = p]
<1>1. tx \in [Request -> Tx] /\ tx[r] \in Tx
  BY DEF TxTypeOK
<1>2. /\ x \in Tx /\ x.at = p /\ x.op = tx[r].op
      /\ x.expected = tx[r].expected /\ x.row = tx[r].row
  BY <1>1 DEF Tx
<1>3. tx' = [tx EXCEPT ![r] = x]
  BY DEF GoTo
<1> HIDE DEF x
<1> QED
  BY <1>1, <1>2, <1>3

LEMMA EndEffect ==
    ASSUME TxTypeOK, NEW r \in Request, tx' = [tx EXCEPT ![r] = NoTx]
    PROVE  /\ tx' \in [Request -> Tx]
           /\ tx'[r].at = "idle" /\ tx'[r].op = NULL /\ tx'[r].expected = 0
           /\ \A q \in Request : q # r => tx'[q] = tx[q]
<1>1. tx \in [Request -> Tx]
  BY DEF TxTypeOK
<1>2. NoTx \in Tx
  BY DEF NoTx, Tx, Position
<1>3. NoTx.at = "idle" /\ NoTx.op = NULL /\ NoTx.expected = 0
  BY DEF NoTx
<1> HIDE DEF NoTx
<1> QED
  BY <1>1, <1>2, <1>3

LEMMA SubmitEffect ==
    ASSUME TxTypeOK, NEW r \in Request, NEW op \in Operation, Submit(r, op)
    PROVE  /\ tx' \in [Request -> Tx]
           /\ tx'[r].at = "waiting" /\ tx'[r].op = op
           /\ tx'[r].expected # 0 => Sent(op.f, tx'[r].expected)
           /\ \A q \in Request : q # r => tx'[q] = tx[q]
<1> DEFINE page == IF op.kind = "create" THEN NULL ELSE op.page
           e == IF page = NULL THEN 0 ELSE view[page].version
           x == [at |-> "waiting", op |-> op, row |-> NULL, expected |-> e]
<1>1. tx \in [Request -> Tx] /\ TypeOK
  BY DEF TxTypeOK
<1>2. page # NULL => /\ page \in Client /\ view[page] # NULL /\ view[page].loaded
                     /\ view[page].id = op.f /\ view[page].version \in Nat
  BY <1>1, OperationAssumption DEF Submit, Creation, Change, Edit, TypeOK, Page
<1>3. e \in Nat /\ (e # 0 => Sent(op.f, e))
  BY <1>2 DEF Sent
<1>4. tx' = [tx EXCEPT ![r] = x]
  BY DEF Submit
<1> HIDE DEF e, page
<1>5. x \in Tx /\ x.at = "waiting" /\ x.op = op /\ x.expected = e
  BY <1>3 DEF Tx, Position
<1> HIDE DEF x
<1> QED
  BY <1>1, <1>3, <1>4, <1>5

LEMMA LockEffect ==
    ASSUME TxTypeOK, NEW r \in Request, Lock(r)
    PROVE  /\ tx' \in [Request -> Tx]
           /\ tx'[r].at = "locked" /\ tx'[r].op = tx[r].op
           /\ tx'[r].expected = tx[r].expected
           /\ tx'[r].row = IF Op(r).kind = "create" THEN tier[Op(r).t] ELSE ful[Op(r).f]
           /\ \A q \in Request : q # r => tx'[q] = tx[q]
<1> DEFINE row == IF Op(r).kind = "create" THEN tier[Op(r).t] ELSE ful[Op(r).f]
           x == [tx[r] EXCEPT !.at = "locked", !.row = row]
<1>1. tx \in [Request -> Tx] /\ tx[r] \in Tx /\ TypeOK /\ Op(r) \in Operation
  BY DEF TxTypeOK, Lock, RequestOK, At
<1>2. row \in Row \cup TierRow \cup {NULL}
  BY <1>1, OperationKinds DEF TypeOK
<1>3. tx' = [tx EXCEPT ![r] = x]
  BY DEF Lock
<1> HIDE DEF row
<1>4. /\ x \in Tx /\ x.at = "locked" /\ x.op = tx[r].op
      /\ x.expected = tx[r].expected /\ x.row = row
  BY <1>1, <1>2 DEF Tx, Position, Holding4Update
<1> HIDE DEF x
<1> QED
  BY <1>1, <1>3, <1>4 DEF row

-----------------------------------------------------------------------------
(* What a commit does to the tables *)

(* The UPDATE from the row that was read is an UPDATE of the row that is.    *)
LEMMA RowWritten ==
    ASSUME NEW x \in Row, NEW to \in Statuses, NEW cs \in SUBSET Columns
    PROVE  [x EXCEPT !.status = to, !.version = @ + 1, !.filled = @ \cup cs,
                     !.deletedAt = x.deletedAt]
             = [x EXCEPT !.status = to, !.version = @ + 1, !.filled = @ \cup cs]
BY DEF Row

LEMMA ColumnsType ==
    \A to \in Statuses \ {"DRAFT"} : ColumnsOf(to) \in SUBSET Columns
BY DEF ColumnsOf, Statuses, Columns

LEMMA CommitIsTransition ==
    ASSUME TxInv, NEW r \in Request, CommitTransition(r)
    PROVE  /\ Op(r) \in Operation /\ Op(r).kind = "transition"
           /\ Op(r).to \in Statuses \ {"DRAFT"}
           /\ tx[r].row = ful[Op(r).f]
           /\ tx[r].expected \in 0 .. MaxVersion
           /\ LooksUp(r) => Found(r)
           /\ Transition(Op(r).f, tx[r].expected, Op(r).to, ColumnsOf(Op(r).to))
<1> DEFINE f == Op(r).f
           to == Op(r).to
           x == ful[f]
<1>1. At(r, "written") /\ Op(r).kind = "transition"
  BY DEF CommitTransition
<1>2. /\ Op(r) \in Operation /\ TypeOK
      /\ tx[r].expected # 0 => Sent(f, tx[r].expected)
  BY <1>1 DEF TxInv, TxTypeOK, RequestOK, At
<1>3. f \in FulfillmentId /\ to \in Statuses
  BY <1>1, <1>2, OperationKinds
<1>4. tx[r].row = x /\ Accepts(r) /\ (LooksUp(r) => Found(r))
  BY <1>1 DEF TxInv, Holds, ChangeHolds, At, Holding4Update
<1>5. /\ Live(f)
      /\ tx[r].expected \in {0, x.version}
      /\ IsTransitionAllowed(x.status, to)
      /\ TypeAllows(f, to)
      /\ x.version < MaxVersion
  BY <1>1, <1>4 DEF Accepts
<1>6. x \in Row /\ x.version \in Nat
  BY <1>2, <1>3, <1>5 DEF Live, Exists, TypeOK, Row
<1>7. tx[r].expected \in 0 .. MaxVersion /\ Sent(f, tx[r].expected)
  BY <1>2, <1>5, <1>6, FulfillmentAssumption DEF Sent
<1>8. to # "DRAFT"
  BY <1>5 DEF IsTransitionAllowed, AllowedTransitions
<1>9. ColumnsOf(to) \in SUBSET Columns
  BY <1>3, <1>8, ColumnsType
<1>10. ful' = [ful EXCEPT ![f].status = to, ![f].version = @ + 1,
                          ![f].filled = @ \cup ColumnsOf(to)]
  <2>1. ful' = [ful EXCEPT ![f] = [x EXCEPT !.status = to, !.version = @ + 1,
                                            !.filled = @ \cup ColumnsOf(to),
                                            !.deletedAt = x.deletedAt]]
    BY <1>4 DEF CommitTransition
  <2>2. ful' = [ful EXCEPT ![f] = [x EXCEPT !.status = to, !.version = @ + 1,
                                            !.filled = @ \cup ColumnsOf(to)]]
    BY <1>3, <1>6, <1>9, <2>1, RowWritten
  <2> QED
    BY <1>2, <1>3, <2>2 DEF TypeOK
<1>11. timeline' = [timeline EXCEPT ![f] = Append(@, TimelineEvent(f, to))]
  BY <1>4 DEF CommitTransition, TimelineEvent
<1>12. UNCHANGED <<now, customer, view>>
  BY DEF CommitTransition
<1>13. Transition(f, tx[r].expected, to, ColumnsOf(to))
  BY <1>5, <1>7, <1>10, <1>11, <1>12 DEF Transition
<1> QED
  BY <1>1, <1>2, <1>3, <1>4, <1>7, <1>8, <1>13

(* A committed transition is one of the seven, with the version its request  *)
(* carried.                                                                  *)
LEMMA CommitIsChange ==
    ASSUME TxInv, NEW r \in Request, CommitTransition(r)
    PROVE  /\ Op(r).f \in FulfillmentId
           /\ \E e \in 0 .. MaxVersion :
                \/ \E a \in Address \cup {NULL} : ReadyToShip(Op(r).f, e, a)
                \/ Ship(Op(r).f, e) \/ IssueVoucher(Op(r).f, e) \/ Deliver(Op(r).f, e)
                \/ Complete(Op(r).f, e) \/ Hold(Op(r).f, e) \/ Cancel(Op(r).f, e)
<1> DEFINE f == Op(r).f
           to == Op(r).to
           e == tx[r].expected
<1>1. /\ Op(r) \in Operation /\ Op(r).kind = "transition" /\ to \in Statuses \ {"DRAFT"}
      /\ tx[r].row = ful[f] /\ e \in 0 .. MaxVersion /\ (LooksUp(r) => Found(r))
      /\ Transition(f, e, to, ColumnsOf(to))
  BY CommitIsTransition
<1>2. f \in FulfillmentId /\ Op(r).a \in Address \cup {NULL}
  BY <1>1, OperationKinds
<1>3. CASE to = "READY_TO_SHIP"
  <2>1. UNCHANGED <<tier, reservation>>
    BY <1>1, <1>3 DEF CommitTransition, Cancels
  <2>2. IF ful[f].type = "PHYSICAL" /\ Op(r).a # NULL
        THEN address' = [address EXCEPT ![f] = Op(r).a]
        ELSE UNCHANGED address
    BY <1>1, <1>3 DEF CommitTransition
  <2>3. ful[f].type = "PHYSICAL" => Op(r).a # NULL \/ address[f] # NULL
    BY <1>1, <1>3 DEF LooksUp, Found
  <2>4. ReadyToShip(f, e, Op(r).a)
    BY <1>1, <1>3, <2>1, <2>2, <2>3 DEF ReadyToShip, ColumnsOf
  <2> QED
    BY <1>1, <1>2, <2>4
<1>4. CASE to = "CANCELED"
  <2>1. Release(ful[f].tier, f) /\ UNCHANGED address
    BY <1>1, <1>4 DEF CommitTransition, Cancels
  <2>2. Cancel(f, e)
    BY <1>1, <1>4, <2>1 DEF Cancel, ColumnsOf
  <2> QED
    BY <1>1, <1>2, <2>2
<1>5. CASE to \notin {"READY_TO_SHIP", "CANCELED"}
  <2>1. UNCHANGED <<tier, reservation, address>>
    BY <1>1, <1>5 DEF CommitTransition, Cancels
  <2>2. \/ Ship(f, e) \/ IssueVoucher(f, e) \/ Deliver(f, e) \/ Complete(f, e) \/ Hold(f, e)
    BY <1>1, <1>5, <2>1
       DEF Ship, IssueVoucher, Deliver, Complete, Hold, ColumnsOf, Statuses
  <2> QED
    BY <1>1, <1>2, <2>2
<1> QED
  BY <1>3, <1>4, <1>5

LEMMA CommitIsEdit ==
    ASSUME TxInv, NEW r \in Request, CommitAddress(r)
    PROVE  /\ Op(r).f \in FulfillmentId
           /\ \E e \in 0 .. MaxVersion : \E a \in Address :
                UpdateShippingAddress(Op(r).f, e, a)
<1> DEFINE f == Op(r).f
           e == tx[r].expected
<1>1. At(r, "written") /\ Op(r).kind = "address"
  BY DEF CommitAddress
<1>2. Op(r) \in Operation /\ TypeOK /\ (e # 0 => Sent(f, e))
  BY <1>1 DEF TxInv, TxTypeOK, RequestOK, At
<1>3. f \in FulfillmentId /\ Op(r).a \in Address
  BY <1>1, <1>2, OperationKinds
<1>4. Accepts(r)
  BY <1>1 DEF TxInv, Holds, ChangeHolds, At, Holding4Update
<1>5. /\ Live(f) /\ e # 0 /\ e = ful[f].version
      /\ ful[f].type = "PHYSICAL" /\ ful[f].status \notin {"DELIVERED", "COMPLETED"}
      /\ ful[f].version < MaxVersion
  BY <1>1, <1>4 DEF Accepts
<1>6. ful[f].version \in Nat
  BY <1>2, <1>3, <1>5 DEF Live, Exists, TypeOK, Row
<1>7. e \in 0 .. MaxVersion
  BY <1>5, <1>6, FulfillmentAssumption
<1>8. UpdateShippingAddress(f, e, Op(r).a)
  BY <1>2, <1>5 DEF CommitAddress, UpdateShippingAddress
<1> QED
  BY <1>3, <1>7, <1>8

LEMMA CommitCreateEffect ==
    ASSUME TxInv, NEW r \in Request, CommitCreate(r)
    PROVE  LET f == Op(r).f t == Op(r).t IN
           /\ Op(r) \in Operation /\ Op(r).kind = "create" /\ tier[t].inventory >= 1
           /\ TierLive(t) /\ UnderLimit(r) /\ tx[r].row = tier[t]
           /\ ~Exists(f) /\ ful'[f] # NULL
           /\ ful' \in [FulfillmentId -> Row \cup {NULL}]
           /\ \A g \in FulfillmentId : g # f => ful'[g] = ful[g]
           /\ ful'[f].tier = t /\ ful'[f].customer = Op(r).c
           /\ timeline' \in [FulfillmentId -> Seq(Event)]
           /\ reservation' \in [FulfillmentId -> {"NONE", "ACTIVE", "VOIDED"}]
           /\ tier' \in [Tier -> TierRow]
           /\ \A u \in Tier : u # t => tier'[u] = tier[u]
           /\ UNCHANGED <<now, customer, address, view>>
<1> DEFINE f == Op(r).f
           t == Op(r).t
           x == [tier |-> t, customer |-> Op(r).c, type |-> Op(r).type, status |-> "DRAFT",
                 version |-> 1, createdAt |-> now, deletedAt |-> NULL, filled |-> {}]
<1>1. At(r, "written") /\ Op(r).kind = "create"
  BY DEF CommitCreate
<1>2. Op(r) \in Operation /\ TypeOK
  BY <1>1 DEF TxInv, TxTypeOK, RequestOK, At
<1>3. f \in FulfillmentId /\ Op(r).c \in Customer /\ t \in Tier /\ Op(r).type \in Types
  BY <1>1, <1>2, OperationKinds
<1>4. /\ tx[r].row = tier[t] /\ TierLive(t) /\ UnderLimit(r)
      /\ tier[t].inventory >= 1
  BY <1>1 DEF TxInv, Holds, CreationHolds, At, Holding4Update
<1>5. ~Exists(f)
  BY <1>1 DEF TxInv, Fresh, At, Position, Holding4Update
<1>6. x \in Row
  BY <1>2, <1>3 DEF TypeOK, Row, Time, Statuses
<1>7. ful' = [ful EXCEPT ![f] = x] /\ x.tier = t /\ x.customer = Op(r).c
  BY DEF CommitCreate
<1> HIDE DEF x
<1>8. /\ ful' \in [FulfillmentId -> Row \cup {NULL}] /\ ful'[f] = x
      /\ \A g \in FulfillmentId : g # f => ful'[g] = ful[g]
  BY <1>2, <1>3, <1>6, <1>7 DEF TypeOK
<1>9. ful'[f] # NULL
  BY <1>6, <1>8, NullAssumption
<1>10. timeline' \in [FulfillmentId -> Seq(Event)]
  <2>1. [from |-> NULL, to |-> "DRAFT"] \in Event
    BY DEF Event, Statuses
  <2>2. <<[from |-> NULL, to |-> "DRAFT"]>> \in Seq(Event)
    BY <2>1
  <2>3. timeline' = [timeline EXCEPT ![f] = <<[from |-> NULL, to |-> "DRAFT"]>>]
    BY DEF CommitCreate
  <2> QED
    BY <1>2, <2>2, <2>3 DEF TypeOK
<1>11. reservation' \in [FulfillmentId -> {"NONE", "ACTIVE", "VOIDED"}]
  BY <1>2 DEF CommitCreate, TypeOK
<1>12. /\ tier' \in [Tier -> TierRow]
       /\ \A u \in Tier : u # t => tier'[u] = tier[u]
  <2>1. tier[t].inventory + (-1) \in Nat /\ -1 \in Int
    BY <1>2, <1>3, <1>4 DEF TypeOK, TierRow
  <2>2. AddInventory(t, -1)
    BY DEF CommitCreate
  <2> QED
    BY <1>2, <1>3, <2>1, <2>2, InventoryEffect
<1>13. UNCHANGED <<now, customer, address, view>>
  BY DEF CommitCreate
<1> QED
  BY <1>1, <1>2, <1>4, <1>5, <1>7, <1>8, <1>9, <1>10, <1>11, <1>12, <1>13

-----------------------------------------------------------------------------
(* The two kinds of steps: of one request, whose others stay where they are, *)
(* and of the rest of the system.                                            *)

Steps(r) == (\E op \in Operation : Submit(r, op)) \/ Advance(r) \/ Abort(r)

Commits(r) == CommitCreate(r) \/ CommitTransition(r) \/ CommitAddress(r)

LEMMA StepsEffect ==
    ASSUME TxTypeOK, NEW r \in Request, Steps(r)
    PROVE  /\ tx' \in [Request -> Tx]
           /\ \A q \in Request : q # r => tx'[q] = tx[q]
           /\ UNCHANGED vars \/ Commits(r)
<1>1. CASE \E op \in Operation : Submit(r, op)
  BY <1>1, SubmitEffect DEF Submit
<1>2. CASE Lock(r)
  BY <1>2, LockEffect DEF Lock
<1>3. ASSUME NEW p \in Position, GoTo(r, p)
      PROVE  tx' \in [Request -> Tx] /\ \A q \in Request : q # r => tx'[q] = tx[q]
  BY <1>3, GoToEffect
<1>4. CASE tx' = [tx EXCEPT ![r] = NoTx]
  BY <1>4, EndEffect DEF Steps, Advance, Commits, Submit, Begin, Lock, LookUp, Count, Write,
     Refuse, Audit, Abort
<1>5. CASE Begin(r) \/ LookUp(r) \/ Count(r) \/ Write(r)
  BY <1>3, <1>5 DEF Begin, LookUp, Count, Write, Position, Holding4Update
<1>6. CASE CommitCreate(r) \/ CommitTransition(r)
  BY <1>3, <1>6 DEF CommitCreate, CommitTransition, Position, Commits
<1>7. Refuse(r) \/ CommitAddress(r) \/ Audit(r) \/ Abort(r) => tx' = [tx EXCEPT ![r] = NoTx]
  BY DEF Refuse, CommitAddress, Audit, Abort
<1> QED
  BY <1>1, <1>2, <1>4, <1>5, <1>6, <1>7 DEF Steps, Advance

LEMMA TxKinds ==
    ASSUME [TransactionsNext]_txVars
    PROVE  \/ \E r \in Request : Steps(r)
           \/ Browse \/ SoftDeletes
           \/ UNCHANGED txVars
BY DEF TransactionsNext, Steps

(* A commit but that of a creation, and a statement outside transactions,    *)
(* are Fulfillment's.                                                        *)
LEMMA CommitsNext ==
    ASSUME TxInv, NEW r \in Request, CommitTransition(r) \/ CommitAddress(r)
    PROVE  /\ Op(r).f \in FulfillmentId /\ FulfillmentStep(Op(r).f) /\ Next
           /\ Exists(Op(r).f)
           /\ \A g \in FulfillmentId : g # Op(r).f => ful'[g] = ful[g] /\ address'[g] = address[g]
           /\ address[Op(r).f] # NULL => address'[Op(r).f] # NULL
           /\ UNCHANGED <<now, customer, view>>
           /\ tier' = tier \/ \E e : Cancel(Op(r).f, e)
<1>1. TypeOK
  BY DEF TxInv, TxTypeOK
<1>2. Op(r).f \in FulfillmentId /\ FulfillmentStep(Op(r).f)
  BY CommitIsChange, CommitIsEdit DEF FulfillmentStep
<1>3. CASE CommitTransition(r)
  <2>1. /\ Transition(Op(r).f, tx[r].expected, Op(r).to, ColumnsOf(Op(r).to))
        /\ Op(r) \in Operation /\ Op(r).kind = "transition"
    BY <1>3, CommitIsTransition
  <2>2. Op(r).a \in Address \cup {NULL}
    BY <2>1, OperationKinds
  <2>3. /\ Exists(Op(r).f)
        /\ \A g \in FulfillmentId : g # Op(r).f => ful'[g] = ful[g]
    BY <1>1, <1>2, <2>1 DEF Transition, Live, TypeOK
  <2>4. /\ \A g \in FulfillmentId : g # Op(r).f => address'[g] = address[g]
        /\ address[Op(r).f] # NULL => address'[Op(r).f] # NULL
    BY <1>1, <1>2, <1>3, <2>2 DEF CommitTransition, TypeOK
  <2>5. UNCHANGED <<now, customer, view>>
    BY <1>3 DEF CommitTransition
  <2>6. tier' = tier \/ \E e : Cancel(Op(r).f, e)
    BY <1>3, CommitIsChange DEF ReadyToShip, Ship, IssueVoucher, Deliver, Complete, Hold
  <2> QED
    BY <1>2, <2>3, <2>4, <2>5, <2>6 DEF Next
<1>4. CASE CommitAddress(r)
  <2>1. PICK e \in 0 .. MaxVersion, a \in Address : UpdateShippingAddress(Op(r).f, e, a)
    BY <1>4, CommitIsEdit
  <2>2. /\ Exists(Op(r).f)
        /\ ful' = [ful EXCEPT ![Op(r).f].version = @ + 1]
        /\ address' = [address EXCEPT ![Op(r).f] = a]
        /\ UNCHANGED <<now, customer, view, tier>>
    BY <2>1 DEF UpdateShippingAddress, Live, BumpVersion
  <2>3. a # NULL
    BY NullAssumption
  <2>4. /\ \A g \in FulfillmentId : g # Op(r).f => ful'[g] = ful[g] /\ address'[g] = address[g]
        /\ address'[Op(r).f] # NULL
    BY <1>1, <1>2, <2>2, <2>3 DEF TypeOK
  <2> QED
    BY <1>2, <2>2, <2>4 DEF Next
<1> QED
  BY <1>3, <1>4

LEMMA StatementsNext ==
    ASSUME Browse \/ SoftDeletes \/ UNCHANGED txVars
    PROVE  [Next]_vars /\ tx' = tx /\ UNCHANGED <<now, address>>
<1>1. CASE Browse
  BY <1>1 DEF Browse, Next, FulfillmentStep, ReadAddress, Open
<1>2. CASE SoftDeletes
  BY <1>2 DEF SoftDeletes, Next, FulfillmentStep, DeleteFulfillment, RestoreFulfillment,
     DeleteTier, RestoreTier, DeleteCustomer, RestoreCustomer
<1>3. CASE UNCHANGED txVars
  BY <1>3 DEF txVars, vars
<1> QED
  BY <1>1, <1>2, <1>3

-----------------------------------------------------------------------------
(* Types *)

LEMMA RequestStays ==
    ASSUME NEW q \in Request, RequestOK(q), tx'[q] = tx[q],
           view' = view \/ tx[q].expected = 0
    PROVE  RequestOK(q)'
BY DEF RequestOK, At, Op, Sent

LEMMA RequestNext ==
    ASSUME TxInv, NEW r \in Request, Steps(r)
    PROVE  RequestOK(r)'
<1>1. TxTypeOK /\ RequestOK(r)
  BY DEF TxInv, TxTypeOK
<1>2. ASSUME tx' = [tx EXCEPT ![r] = NoTx]
      PROVE  RequestOK(r)'
  BY <1>1, <1>2, EndEffect DEF RequestOK, At, Op
<1>3. ASSUME NEW p \in Position, GoTo(r, p), ~At(r, "idle"), p # "idle",
             p = "counted" => Op(r).kind = "create", UNCHANGED view
      PROVE  RequestOK(r)'
  <2>1. /\ tx'[r].at = p /\ tx'[r].op = tx[r].op /\ tx'[r].expected = tx[r].expected
    BY <1>1, <1>3, GoToEffect
  <2> QED
    BY <1>1, <1>3, <2>1 DEF RequestOK, At, Op, Sent
<1>4. ASSUME NEW op \in Operation, Submit(r, op)
      PROVE  RequestOK(r)'
  <2>1. /\ tx'[r].at = "waiting" /\ tx'[r].op = op /\ view' = view
        /\ tx'[r].expected # 0 => Sent(op.f, tx'[r].expected)
    BY <1>1, <1>4, SubmitEffect DEF Submit, vars
  <2> QED
    BY <2>1 DEF RequestOK, At, Op, Sent
<1>5. CASE Lock(r)
  <2>1. /\ tx'[r].at = "locked" /\ tx'[r].op = tx[r].op /\ view' = view
        /\ tx'[r].expected = tx[r].expected /\ tx[r].at = "begun"
    BY <1>1, <1>5, LockEffect DEF Lock, At, vars
  <2> QED
    BY <1>1, <2>1 DEF RequestOK, At, Op, Sent
<1>6. CASE Begin(r) \/ LookUp(r) \/ Write(r)
  BY <1>3, <1>6 DEF Begin, LookUp, Write, At, Position, Holding4Update, vars
<1>7. CASE Count(r)
  BY <1>3, <1>7 DEF Count, At, Position, Holding4Update, vars
<1>8. CASE CommitCreate(r) \/ CommitTransition(r)
  BY <1>3, <1>8 DEF CommitCreate, CommitTransition, At, Position
<1>9. CASE Refuse(r) \/ CommitAddress(r) \/ Audit(r) \/ Abort(r)
  BY <1>2, <1>9 DEF Refuse, CommitAddress, Audit, Abort
<1> QED
  BY <1>4, <1>5, <1>6, <1>7, <1>8, <1>9 DEF Steps, Advance

LEMMA TablesTypeNext ==
    ASSUME TxInv, [TransactionsNext]_txVars
    PROVE  TypeOK'
<1>1. TypeOK /\ TxTypeOK
  BY DEF TxInv, TxTypeOK
<1>2. ASSUME NEW r \in Request, Steps(r)
      PROVE  TypeOK'
  <2>1. CASE UNCHANGED vars
    BY <1>1, <2>1 DEF TypeOK, vars
  <2>2. CASE CommitCreate(r)
    BY <1>1, <2>2, CommitCreateEffect DEF TypeOK
  <2>3. CASE CommitTransition(r) \/ CommitAddress(r)
    BY <1>1, <2>3, CommitsNext, TypeNext
  <2> QED
    BY <1>1, <1>2, <2>1, <2>2, <2>3, StepsEffect DEF Commits
<1>3. CASE Browse \/ SoftDeletes \/ UNCHANGED txVars
  BY <1>1, <1>3, StatementsNext, TypeNext
<1> QED
  BY <1>2, <1>3, TxKinds

LEMMA TxTypeNext ==
    ASSUME TxInv, [TransactionsNext]_txVars
    PROVE  TxTypeOK'
<1>1. TypeOK'
  BY TablesTypeNext
<1>2. TxTypeOK /\ \A q \in Request : RequestOK(q)
  BY DEF TxInv, TxTypeOK
<1>3. ASSUME NEW r \in Request, Steps(r)
      PROVE  tx' \in [Request -> Tx] /\ \A q \in Request : RequestOK(q)'
  <2>1. /\ tx' \in [Request -> Tx]
        /\ \A q \in Request : q # r => tx'[q] = tx[q]
        /\ UNCHANGED vars \/ Commits(r)
    BY <1>2, <1>3, StepsEffect
  <2>2. view' = view
    <3>1. CASE CommitCreate(r)
      BY <3>1 DEF CommitCreate
    <3>2. CASE CommitTransition(r) \/ CommitAddress(r)
      BY <3>2 DEF CommitTransition, CommitAddress
    <3> QED
      BY <2>1, <3>1, <3>2 DEF Commits, vars
  <2> QED
    BY <1>2, <1>3, <2>1, <2>2, RequestNext, RequestStays
<1>4. CASE Browse \/ SoftDeletes \/ UNCHANGED txVars
  <2>1. tx' = tx
    BY <1>4, StatementsNext
  <2>2. view' = view \/ \A q \in Request : tx[q].expected = 0
    <3>1. CASE SoftDeletes
      BY <3>1 DEF SoftDeletes, DeleteFulfillment, RestoreFulfillment, DeleteTier, RestoreTier,
         DeleteCustomer, RestoreCustomer
    <3>2. Browse => \A q \in Request : tx[q].expected = 0
      BY DEF Browse
    <3> QED
      BY <1>4, <3>1, <3>2 DEF txVars, vars
  <2> QED
    BY <1>1, <1>2, <2>1, <2>2, RequestStays DEF TxTypeOK
<1> QED
  BY <1>1, <1>3, <1>4, TxKinds DEF TxTypeOK

-----------------------------------------------------------------------------
(* Locks *)

LEMMA LockedOf ==
    ASSUME NEW r \in Request
    PROVE  /\ tx[r].at \notin Holding4Update => Locked(r) = {}
           /\ tx[r].at \in Holding4Update /\ Op(r).kind = "create" =>
                Locked(r) = {<<"tier", Op(r).t>>}
           /\ tx[r].at \in Holding4Update /\ Op(r).kind # "create" =>
                Locked(r) = {<<"ful", Op(r).f>>} \cup
                  (IF Cancels(Op(r)) /\ At(r, "written") THEN {<<"tier", tx[r].row.tier>>} ELSE {})
BY DEF Locked, Holding4Update

(* What a request's step adds to its locks was nobody's.                     *)
LEMMA LocksTaken ==
    ASSUME TxTypeOK, NEW r \in Request, Steps(r), NEW row, row \in Locked(r)', row \notin Locked(r)
    PROVE  ~LockedByOther(r, row)
<1>1. ASSUME tx'[r].at \notin Holding4Update
      PROVE  FALSE
  BY <1>1 DEF Locked, Holding4Update
<1>2. CASE \E op \in Operation : Submit(r, op)
  BY <1>1, <1>2, SubmitEffect DEF Holding4Update
<1>3. CASE tx' = [tx EXCEPT ![r] = NoTx]
  BY <1>1, <1>3, EndEffect DEF Holding4Update
<1>4. ASSUME NEW p \in Position, GoTo(r, p), p # "written",
             tx[r].at \in Holding4Update \/ p \notin Holding4Update
      PROVE  FALSE
  <2>1. tx'[r].at = p /\ tx'[r].op = tx[r].op /\ tx'[r].row = tx[r].row
    BY <1>4, GoToEffect
  <2>2. p \in Holding4Update /\ tx[r].at \in Holding4Update
    BY <1>1, <1>4, <2>1
  <2> QED
    BY <1>4, <2>1, <2>2 DEF Locked, Holding4Update, At, Op
<1>5. CASE Lock(r)
  <2>1. /\ tx'[r].at = "locked" /\ tx'[r].op = tx[r].op
        /\ ~LockedByOther(r, RowToLock(Op(r)))
    BY <1>5, LockEffect DEF Lock
  <2>2. row = RowToLock(Op(r))
    BY <2>1 DEF Locked, At, Op, RowToLock
  <2> QED
    BY <2>1, <2>2
<1>6. CASE Write(r)
  <2>1. /\ tx'[r].at = "written" /\ tx'[r].op = tx[r].op /\ tx'[r].row = tx[r].row
        /\ tx[r].at \in {"locked", "looked", "counted"}
    BY <1>6, GoToEffect DEF Write, Position, Holding4Update, At
  <2>2. Cancels(Op(r)) /\ row = <<"tier", tx[r].row.tier>>
    BY <2>1 DEF Locked, At, Op, Cancels
  <2>3. Op(r).kind = "transition"
    BY <2>2 DEF Cancels
  <2>4. ~LockedByOther(r, <<"tier", tx[r].row.tier>>)
    BY <1>6, <2>2, <2>3 DEF Write, TxTypeOK, RequestOK
  <2> QED
    BY <2>2, <2>4
<1>7. CASE Begin(r) \/ LookUp(r) \/ Count(r) \/ CommitCreate(r) \/ CommitTransition(r)
  BY <1>4, <1>7 DEF Begin, LookUp, Count, CommitCreate, CommitTransition, At, Position,
     Holding4Update
<1>8. CASE Refuse(r) \/ CommitAddress(r) \/ Audit(r) \/ Abort(r)
  BY <1>3, <1>8 DEF Refuse, CommitAddress, Audit, Abort
<1> QED
  BY <1>2, <1>5, <1>6, <1>7, <1>8 DEF Steps, Advance

LEMMA ExclusiveNext ==
    ASSUME TxInv, [TransactionsNext]_txVars
    PROVE  Exclusive'
<1>1. TxTypeOK /\ Exclusive
  BY DEF TxInv
<1>2. ASSUME NEW r \in Request, Steps(r)
      PROVE  Exclusive'
  <2>1. \A q \in Request : q # r => tx'[q] = tx[q]
    BY <1>1, <1>2, StepsEffect
  <2>2. \A q \in Request : q # r => Locked(q)' = Locked(q)
    BY <2>1 DEF Locked, Op, At
  <2>3. ASSUME NEW q \in Request, q # r, NEW row, row \in Locked(q)
        PROVE  row \notin Locked(r)'
    <3>1. row \notin Locked(r)
      BY <1>1, <2>3 DEF Exclusive
    <3>2. LockedByOther(r, row)
      BY <2>3 DEF LockedByOther
    <3> QED
      BY <1>1, <1>2, <3>1, <3>2, LocksTaken
  <2> QED
    BY <1>1, <2>2, <2>3 DEF Exclusive
<1>3. CASE Browse \/ SoftDeletes \/ UNCHANGED txVars
  <2>1. tx' = tx
    BY <1>3, StatementsNext
  <2> QED
    BY <1>1, <2>1 DEF Exclusive, Locked, Op, At
<1> QED
  BY <1>2, <1>3, TxKinds

-----------------------------------------------------------------------------
(* Fresh uuids *)

(* A request keeps its operation from Submit to the answer.                  *)
LEMMA OwnStep ==
    ASSUME TxTypeOK, NEW r \in Request, Steps(r)
    PROVE  \/ \E op \in Operation : Submit(r, op) /\ tx'[r].op = op
           \/ tx'[r].at = "idle"
           \/ /\ tx'[r].op = tx[r].op
              /\ tx[r].at \notin {"idle", "audit"}
              /\ CommitCreate(r) => tx'[r].at = "audit"
<1>1. CASE \E op \in Operation : Submit(r, op)
  BY <1>1, SubmitEffect
<1>2. CASE Lock(r)
  BY <1>2, LockEffect DEF Lock, CommitCreate, At
<1>3. CASE Begin(r) \/ LookUp(r) \/ Count(r) \/ Write(r)
  <2>1. tx'[r].op = tx[r].op
    BY <1>3, GoToEffect DEF Begin, LookUp, Count, Write, Position, Holding4Update
  <2>2. tx[r].at \notin {"idle", "audit"}
    BY <1>3 DEF Begin, LookUp, Count, Write, At
  <2>3. ASSUME CommitCreate(r) PROVE tx'[r].at = "audit"
    BY <2>3, GoToEffect DEF CommitCreate, Position
  <2> QED
    BY <2>1, <2>2, <2>3
<1>4. CASE CommitCreate(r) \/ CommitTransition(r)
  <2>1. At(r, "written") /\ GoTo(r, "audit")
    BY <1>4 DEF CommitCreate, CommitTransition
  <2> QED
    BY <2>1, GoToEffect DEF At, Position
<1>5. CASE Refuse(r) \/ CommitAddress(r) \/ Audit(r) \/ Abort(r)
  <2>1. tx' = [tx EXCEPT ![r] = NoTx]
    BY <1>5 DEF Refuse, CommitAddress, Audit, Abort
  <2> QED
    BY <2>1, EndEffect
<1> QED
  BY <1>1, <1>2, <1>3, <1>4, <1>5 DEF Steps, Advance

(* Only the commit of its creation makes a row exist.                        *)
LEMMA NewRows ==
    ASSUME TxInv, [TransactionsNext]_txVars, NEW f \in FulfillmentId, ~Exists(f), Exists(f)'
    PROVE  \E r \in Request : CommitCreate(r) /\ f = Op(r).f
<1>1. CASE UNCHANGED ful
  BY <1>1 DEF Exists
<1>2. ASSUME NEW r \in Request, Steps(r)
      PROVE  \E q \in Request : CommitCreate(q) /\ f = Op(q).f
  <2>1. CASE CommitCreate(r)
    <3>1. \A g \in FulfillmentId : g # Op(r).f => ful'[g] = ful[g]
      BY <2>1, CommitCreateEffect
    <3> QED
      BY <2>1, <3>1 DEF Exists
  <2>2. CASE CommitTransition(r) \/ CommitAddress(r)
    <3>1. /\ Exists(Op(r).f)
          /\ \A g \in FulfillmentId : g # Op(r).f => ful'[g] = ful[g]
      BY <2>2, CommitsNext
    <3> QED
      BY <3>1 DEF Exists
  <2> QED
    BY <1>1, <1>2, <2>1, <2>2, StepsEffect DEF Commits, TxInv, vars
<1>3. CASE SoftDeletes
  <2>1. \/ UNCHANGED ful
        \/ \E g \in FulfillmentId, x \in Time : Exists(g) /\ ful' = [ful EXCEPT ![g].deletedAt = x]
    BY <1>3 DEF SoftDeletes, DeleteFulfillment, RestoreFulfillment, DeleteTier, RestoreTier,
       DeleteCustomer, RestoreCustomer, Live, Time, TxInv, TxTypeOK, TypeOK
  <2>2. ful \in [FulfillmentId -> Row \cup {NULL}]
    BY DEF TxInv, TxTypeOK, TypeOK
  <2> QED
    BY <2>1, <2>2 DEF Exists
<1>4. CASE Browse \/ UNCHANGED txVars
  BY <1>1, <1>4 DEF Browse, ReadAddress, Open, txVars, vars
<1> QED
  BY <1>2, <1>3, <1>4, TxKinds

LEMMA FreshNext ==
    ASSUME TxInv, [TransactionsNext]_txVars, NEW p \in Request
    PROVE  Fresh(p)'
<1>1. /\ TxTypeOK /\ Fresh(p)
      /\ \A q \in Request : ~At(q, "idle") => Op(q) \in Operation
      /\ \A q \in Request : Op(q) \in Operation => Op(q) # NULL /\ Op(q).f \in FulfillmentId
  BY OperationKinds DEF TxInv, TxTypeOK, RequestOK
<1> SUFFICES ASSUME tx'[p].at \in Position \ {"idle", "audit"}, tx'[p].op.kind = "create"
             PROVE  /\ ful'[tx'[p].op.f] = NULL
                    /\ \A q \in Request \ {p} : tx'[q].at # "idle" => tx'[q].op.f # tx'[p].op.f
  BY DEF Fresh, Op, At, Exists
<1>2. ASSUME NEW r \in Request, Steps(r), tx'[p] = tx[p], p # r
      PROVE  /\ ful'[tx'[p].op.f] = NULL
             /\ \A q \in Request \ {p} : tx'[q].at # "idle" => tx'[q].op.f # tx'[p].op.f
  <2>1. /\ ~Exists(Op(p).f) /\ Op(p).f \in FulfillmentId /\ Op(p) # NULL
        /\ \A q \in Request \ {p} : ~At(q, "idle") => Op(q).f # Op(p).f
        /\ tx'[p].op = Op(p)
    BY <1>1, <1>2 DEF Fresh, Op, At
  <2>2. ful'[Op(p).f] = NULL
    <3>1. ASSUME NEW q \in Request, CommitCreate(q), Op(p).f = Op(q).f
          PROVE  FALSE
      <4>1. At(q, "written") /\ GoTo(q, "audit")
        BY <3>1 DEF CommitCreate
      <4>2. q # p
        BY <1>1, <1>2, <4>1, GoToEffect DEF Position, At
      <4> QED
        BY <2>1, <3>1, <4>1, <4>2 DEF At
    <3>2. ASSUME NEW f \in FulfillmentId, f = Op(p).f
          PROVE  ful'[f] = NULL
      BY <2>1, <3>1, <3>2, NewRows DEF Exists
    <3> QED
      BY <2>1, <3>2
  <2>3. ASSUME NEW q \in Request \ {p}, tx'[q].at # "idle"
        PROVE  tx'[q].op.f # Op(p).f
    <3>1. CASE q # r
      <4>1. tx'[q] = tx[q]
        BY <1>1, <1>2, <3>1, StepsEffect
      <4> QED
        BY <2>1, <2>3, <4>1 DEF At, Op
    <3>2. CASE q = r
      <4>1. ASSUME NEW op \in Operation, Submit(r, op), tx'[r].op = op
            PROVE  tx'[q].op.f # Op(p).f
        <5>1. CASE op.kind = "create"
          BY <2>1, <3>2, <4>1, <5>1 DEF Submit
        <5>2. CASE op.kind # "create"
          BY <2>1, <3>2, <4>1, <5>2 DEF Submit
        <5> QED
          BY <5>1, <5>2
      <4>2. CASE tx'[r].op = tx[r].op /\ tx[r].at # "idle"
        BY <2>1, <2>3, <3>2, <4>2 DEF At, Op
      <4> QED
        BY <1>1, <1>2, <2>3, <3>2, <4>1, <4>2, OwnStep
    <3> QED
      BY <3>1, <3>2
  <2> QED
    BY <2>1, <2>2, <2>3
<1>3. ASSUME Steps(p)
      PROVE  /\ ful'[tx'[p].op.f] = NULL
             /\ \A q \in Request \ {p} : tx'[q].at # "idle" => tx'[q].op.f # tx'[p].op.f
  <2>1. \A q \in Request \ {p} : tx'[q] = tx[q]
    BY <1>1, <1>3, StepsEffect
  <2>2. ASSUME NEW op \in Operation, Submit(p, op), tx'[p].op = op
        PROVE  /\ ful'[tx'[p].op.f] = NULL
               /\ \A q \in Request \ {p} : tx'[q].at # "idle" => tx'[q].op.f # tx'[p].op.f
    <3>1. /\ ~Exists(op.f) /\ ful' = ful
          /\ \A q \in Request : Op(q) # NULL => Op(q).f # op.f
      BY <2>2 DEF Submit, vars
    <3> QED
      BY <1>1, <2>1, <2>2, <3>1 DEF Exists, At, Op
  <2>3. CASE /\ tx'[p].op = tx[p].op
             /\ tx[p].at \notin {"idle", "audit"}
             /\ CommitCreate(p) => tx'[p].at = "audit"
    <3>1. /\ ~Exists(Op(p).f) /\ Op(p).f \in FulfillmentId
          /\ \A q \in Request \ {p} : ~At(q, "idle") => Op(q).f # Op(p).f
      BY <1>1, <2>3 DEF Fresh, Op, At, TxTypeOK, Tx
    <3>2. ~CommitCreate(p)
      BY <2>3
    <3>3. ASSUME NEW f \in FulfillmentId, f = Op(p).f
          PROVE  ful'[f] = NULL
      <4>1. ASSUME NEW q \in Request, CommitCreate(q), f = Op(q).f
            PROVE  FALSE
        BY <3>1, <3>2, <3>3, <4>1 DEF CommitCreate, At
      <4> QED
        BY <3>1, <3>3, <4>1, NewRows DEF Exists
    <3> QED
      BY <2>1, <2>3, <3>1, <3>3 DEF Op, At
  <2> QED
    BY <1>1, <1>3, <2>2, <2>3, OwnStep
<1>4. CASE Browse \/ SoftDeletes \/ UNCHANGED txVars
  <2>1. tx' = tx
    BY <1>4, StatementsNext
  <2>2. /\ ~Exists(Op(p).f) /\ Op(p).f \in FulfillmentId
        /\ \A q \in Request \ {p} : ~At(q, "idle") => Op(q).f # Op(p).f
    BY <1>1, <2>1 DEF Fresh, Op, At
  <2>3. ASSUME NEW f \in FulfillmentId, f = Op(p).f
        PROVE  ful'[f] = NULL
    <3>1. ASSUME NEW q \in Request, CommitCreate(q), f = Op(q).f
          PROVE  FALSE
      <4>1. GoTo(q, "audit") /\ At(q, "written")
        BY <3>1 DEF CommitCreate
      <4> QED
        BY <1>1, <2>1, <4>1, GoToEffect DEF Position, At
    <3> QED
      BY <2>2, <2>3, <3>1, NewRows DEF Exists
  <2> QED
    BY <2>1, <2>2, <2>3 DEF Op, At
<1> QED
  BY <1>1, <1>2, <1>3, <1>4, TxKinds, StepsEffect

-----------------------------------------------------------------------------
(* What was found out under a lock stays so *)

(* No purchase of tier t is added, and none is taken out of its cancellation.*)
OnlyFewer(t) ==
    \A f \in FulfillmentId :
        ful'[f] # NULL /\ ful'[f].tier = t /\ ful'[f].status # "CANCELED" =>
            /\ Exists(f)
            /\ ful[f].tier = t
            /\ ful[f].status # "CANCELED"
            /\ ful[f].customer = ful'[f].customer
            /\ ful[f].createdAt = ful'[f].createdAt

(* A step leaves the rows alone that request q has locked.                   *)
Spares(q) ==
    /\ now' = now
    /\ \A f \in FulfillmentId :
         <<"ful", f>> \in Locked(q) =>
            ful'[f] = ful[f] /\ (address[f] # NULL => address'[f] # NULL)
    /\ \A t \in Tier : <<"tier", t>> \in Locked(q) => tier'[t] = tier[t] /\ OnlyFewer(t)

LEMMA FewerPurchases ==
    ASSUME NEW c, NEW t, OnlyFewer(t), now' = now
    PROVE  /\ CountByCustomerAndTier(c, t, now - PurchaseWindow)'
                <= CountByCustomerAndTier(c, t, now - PurchaseWindow)
           /\ CountByCustomerAndTier(c, t, now - PurchaseWindow) \in Nat
           /\ CountByCustomerAndTier(c, t, now - PurchaseWindow)' \in Nat
<1> DEFINE P == Purchases(c, t, now - PurchaseWindow)
           Q == { f \in FulfillmentId :
                    /\ ful'[f] # NULL /\ ful'[f].customer = c /\ ful'[f].tier = t
                    /\ ful'[f].status # "CANCELED" /\ ful'[f].createdAt >= now - PurchaseWindow }
<1>1. Q \subseteq P
  BY DEF OnlyFewer, Purchases
<1>2. P \subseteq FulfillmentId /\ Q \subseteq FulfillmentId
  BY DEF Purchases
<1>3. Purchases(c, t, now - PurchaseWindow)' = Q
  BY DEF Purchases, Exists
<1> HIDE DEF P, Q
<1>4. IsFiniteSet(P) /\ IsFiniteSet(Q)
  BY <1>2, FulfillmentAssumption, FS_Subset
<1>5. /\ Cardinality(Q) <= Cardinality(P)
      /\ Cardinality(P) \in Nat /\ Cardinality(Q) \in Nat
  BY <1>1, <1>4, FS_Subset, FS_CardinalityType
<1> QED
  BY <1>3, <1>5 DEF CountByCustomerAndTier, P

LEMMA HoldsOn ==
    ASSUME TxTypeOK, TypeOK', NEW q \in Request, Holds(q), Spares(q), tx'[q] = tx[q]
    PROVE  Holds(q)'
<1> SUFFICES ASSUME tx[q].at \in Holding4Update PROVE Holds(q)'
  BY DEF Holds, Holding4Update
<1>1. Op(q) \in Operation
  BY DEF TxTypeOK, RequestOK, At, Holding4Update
<1>2. Op(q)' = Op(q) /\ Op(q).f \in FulfillmentId /\ now' = now
  BY <1>1, OperationKinds DEF Op, Spares
<1>3. CASE Op(q).kind = "create"
  <2> DEFINE t == Op(q).t
             c == Op(q).c
  <2>1. CreationHolds(q) /\ <<"tier", t>> \in Locked(q) /\ t \in Tier /\ c \in Customer
    BY <1>1, <1>3, LockedOf, OperationKinds DEF Holds
  <2>2. tier'[t] = tier[t] /\ OnlyFewer(t)
    BY <2>1 DEF Spares
  <2>3. tx[q].at \in {"counted", "written"} =>
          CountByCustomerAndTier(c, t, now - PurchaseWindow)' < tx[q].row.limit
    <3> SUFFICES ASSUME UnderLimit(q)
                 PROVE  CountByCustomerAndTier(c, t, now - PurchaseWindow)' < tx[q].row.limit
      BY <2>1 DEF CreationHolds
    <3> DEFINE m == CountByCustomerAndTier(c, t, now - PurchaseWindow)
               n == CountByCustomerAndTier(c, t, now - PurchaseWindow)'
    <3>1. n <= m /\ m \in Nat /\ n \in Nat
      BY <1>2, <2>2, FewerPurchases
    <3>2. m < tx[q].row.limit
      BY DEF UnderLimit
    <3>3. tx[q].row.limit \in Nat
      BY <2>1 DEF CreationHolds, TxTypeOK, TypeOK, TierRow
    <3> HIDE DEF m, n
    <3>4. n < tx[q].row.limit
      BY <3>1, <3>2, <3>3
    <3> QED
      BY <3>4 DEF n
  <2>4. CreationHolds(q)'
    BY <1>2, <2>1, <2>2, <2>3 DEF CreationHolds, TierLive, UnderLimit, At
  <2> QED
    BY <1>2, <1>3, <2>4 DEF Holds
<1>4. CASE Op(q).kind # "create"
  <2>1. ChangeHolds(q) /\ <<"ful", Op(q).f>> \in Locked(q)
    BY <1>4, LockedOf DEF Holds
  <2>2. ful'[Op(q).f] = ful[Op(q).f] /\ (address[Op(q).f] # NULL => address'[Op(q).f] # NULL)
    BY <1>2, <2>1 DEF Spares
  <2>3. Accepts(q)'
    BY <1>1, <1>2, <1>4, <2>1, <2>2, OperationKinds
       DEF ChangeHolds, Accepts, Live, Exists, TypeAllows
  <2>4. LooksUp(q)' /\ tx'[q].at \in {"looked", "written"} => Found(q)'
    BY <1>1, <1>2, <1>4, <2>1, <2>2, OperationKinds DEF ChangeHolds, LooksUp, Found
  <2>5. ChangeHolds(q)'
    BY <1>2, <2>1, <2>2, <2>3, <2>4 DEF ChangeHolds
  <2> QED
    BY <1>2, <1>4, <2>5 DEF Holds
<1> QED
  BY <1>3, <1>4

(* Whoever commits holds what it writes.                                     *)
LEMMA CommitSpares ==
    ASSUME TxInv, NEW r \in Request, Commits(r), NEW q \in Request, q # r
    PROVE  Spares(q)
<1>1. /\ TypeOK /\ TxTypeOK
      /\ \A row : row \in Locked(r) => row \notin Locked(q)
  BY DEF TxInv, TxTypeOK, Exclusive
<1>2. \A f \in FulfillmentId :
        <<"ful", f>> \in Locked(q) => f = Op(q).f /\ ~At(q, "idle") /\ Op(q).kind # "create"
  BY DEF Locked, At
<1>3. CASE CommitCreate(r)
  <2> DEFINE f == Op(r).f
             t == Op(r).t
  <2>1. /\ Op(r) \in Operation /\ Op(r).kind = "create" /\ ~Exists(f)
        /\ \A g \in FulfillmentId : g # f => ful'[g] = ful[g]
        /\ ful'[f].tier = t
        /\ \A u \in Tier : u # t => tier'[u] = tier[u]
        /\ UNCHANGED <<now, customer, address, view>>
    BY <1>3, CommitCreateEffect
  <2>2. At(r, "written") /\ Fresh(r)
    BY <1>3 DEF CommitCreate, TxInv
  <2>3. <<"tier", t>> \in Locked(r)
    BY <2>1, <2>2, LockedOf DEF At, Holding4Update
  <2>4. ~At(q, "idle") => Op(q).f # f
    BY <2>1, <2>2 DEF Fresh, At, Position, Holding4Update
  <2>5. ASSUME NEW g \in FulfillmentId, <<"ful", g>> \in Locked(q)
        PROVE  ful'[g] = ful[g] /\ (address[g] # NULL => address'[g] # NULL)
    BY <1>2, <2>1, <2>4, <2>5
  <2>6. ASSUME NEW u \in Tier, <<"tier", u>> \in Locked(q)
        PROVE  tier'[u] = tier[u] /\ OnlyFewer(u)
    <3>1. u # t
      BY <1>1, <2>3, <2>6
    <3> QED
      BY <2>1, <3>1 DEF OnlyFewer, Exists
  <2> QED
    BY <2>1, <2>5, <2>6 DEF Spares
<1>4. CASE CommitTransition(r) \/ CommitAddress(r)
  <2> DEFINE f == Op(r).f
  <2>1. /\ f \in FulfillmentId /\ Next /\ Exists(f)
        /\ \A g \in FulfillmentId : g # f => ful'[g] = ful[g] /\ address'[g] = address[g]
        /\ UNCHANGED <<now, customer, view>>
    BY <1>4, CommitsNext
  <2>2. At(r, "written") /\ Op(r).kind # "create"
    BY <1>4 DEF CommitTransition, CommitAddress
  <2>3. <<"ful", f>> \in Locked(r)
    BY <2>2, LockedOf DEF At, Holding4Update
  <2>4. ASSUME NEW g \in FulfillmentId, <<"ful", g>> \in Locked(q)
        PROVE  ful'[g] = ful[g] /\ (address[g] # NULL => address'[g] # NULL)
    <3>1. g # f
      BY <1>1, <2>3, <2>4
    <3> QED
      BY <2>1, <3>1
  <2>5. ASSUME NEW u \in Tier, <<"tier", u>> \in Locked(q)
        PROVE  tier'[u] = tier[u]
    <3>1. CASE tier' = tier
      BY <3>1
    <3>2. CASE tier' # tier
      <4>1. CommitTransition(r) /\ Cancels(Op(r)) /\ AddInventory(tx[r].row.tier, 1)
        BY <1>4, <3>2 DEF CommitTransition, CommitAddress, Release
      <4>2. tx[r].row = ful[f]
        BY <4>1, CommitIsTransition
      <4>3. tx[r].row.tier \in Tier
        BY <1>1, <2>1, <4>2 DEF TypeOK, Exists, Row
      <4>4. <<"tier", tx[r].row.tier>> \in Locked(r)
        BY <2>2, <4>1, LockedOf DEF At, Holding4Update
      <4>5. u # tx[r].row.tier
        BY <1>1, <2>5, <4>4
      <4> QED
        BY <1>1, <4>1, <4>3, <4>5 DEF AddInventory, TypeOK
    <3> QED
      BY <3>1, <3>2
  <2>6. ASSUME NEW u PROVE OnlyFewer(u)
    <3>1. ASSUME NEW g \in FulfillmentId, NEW c \in Customer, NEW t \in Tier,
                 NEW type \in Types, Create(g, c, t, type)
          PROVE  FALSE
      BY <1>1, <2>1, <3>1, CreateEffect DEF Exists
    <3>2. ASSUME NEW g \in FulfillmentId, NEW e, Cancel(g, e)
          PROVE  OnlyFewer(u)
      <4>1. SameOrder(g) /\ ful'[g].status = "CANCELED"
        BY <1>1, <3>2, TransitionEffect DEF Cancel, Statuses, Columns
      <4> QED
        BY <4>1 DEF SameOrder, OnlyFewer, Exists
    <3>3. CASE Quiet
      BY <3>3 DEF Quiet, OnlyFewer, Exists
    <3> QED
      BY <1>1, <2>1, <3>1, <3>2, <3>3, StepKinds
  <2> QED
    BY <2>1, <2>4, <2>5, <2>6 DEF Spares
<1> QED
  BY <1>3, <1>4 DEF Commits

(* A statement outside transactions waits for the lock of its row.           *)
LEMMA StatementSpares ==
    ASSUME TxInv, Browse \/ SoftDeletes \/ UNCHANGED txVars, NEW q \in Request
    PROVE  Spares(q)
<1>1. TypeOK /\ UNCHANGED <<now, address>>
  BY StatementsNext DEF TxInv, TxTypeOK
<1>2. ASSUME UNCHANGED <<ful, tier>>
      PROVE  Spares(q)
  BY <1>1, <1>2 DEF Spares, OnlyFewer, Exists
<1>3. CASE Browse \/ UNCHANGED txVars
  BY <1>2, <1>3 DEF Browse, ReadAddress, Open, txVars, vars
<1>4. ASSUME NEW f \in FulfillmentId, Unlocked(<<"ful", f>>),
             DeleteFulfillment(f) \/ RestoreFulfillment(f)
      PROVE  Spares(q)
  <2>1. PICK at \in Time : ful' = [ful EXCEPT ![f].deletedAt = at]
    BY <1>1, <1>4 DEF DeleteFulfillment, RestoreFulfillment, Time, TypeOK
  <2>2. Exists(f) /\ tier' = tier
    BY <1>4 DEF DeleteFulfillment, RestoreFulfillment, Live
  <2>3. SameOrder(f) /\ ful'[f].status = ful[f].status
    BY <1>1, <2>1, <2>2, DeletedAtEffect
  <2>4. \A u : OnlyFewer(u)
    BY <2>3 DEF SameOrder, OnlyFewer, Exists
  <2>5. <<"ful", f>> \notin Locked(q)
    BY <1>4 DEF Unlocked
  <2> QED
    BY <1>1, <2>2, <2>3, <2>4, <2>5 DEF Spares, SameOrder
<1>5. ASSUME NEW t \in Tier, Unlocked(<<"tier", t>>), DeleteTier(t) \/ RestoreTier(t)
      PROVE  Spares(q)
  <2>1. /\ ful' = ful /\ \A u \in Tier : u # t => tier'[u] = tier[u]
        /\ <<"tier", t>> \notin Locked(q)
    BY <1>1, <1>5 DEF DeleteTier, RestoreTier, Unlocked, TypeOK
  <2> QED
    BY <1>1, <2>1 DEF Spares, OnlyFewer, Exists
<1>6. ASSUME NEW c \in Customer, DeleteCustomer(c) \/ RestoreCustomer(c)
      PROVE  Spares(q)
  BY <1>2, <1>6 DEF DeleteCustomer, RestoreCustomer
<1> QED
  BY <1>3, <1>4, <1>5, <1>6 DEF SoftDeletes

LEMMA HoldsOwn ==
    ASSUME TxInv, NEW r \in Request, Steps(r)
    PROVE  Holds(r)'
<1>1. /\ TxTypeOK /\ Holds(r) /\ RequestOK(r)
      /\ ~At(r, "idle") => Op(r) \in Operation
  BY DEF TxInv, TxTypeOK, RequestOK
<1>2. CASE tx'[r].at \notin Holding4Update
  BY <1>2 DEF Holds
<1>3. CASE Lock(r)
  <2>1. /\ tx'[r].at = "locked" /\ tx'[r].op = tx[r].op
        /\ tx'[r].expected = tx[r].expected
        /\ tx'[r].row = IF Op(r).kind = "create" THEN tier[Op(r).t] ELSE ful[Op(r).f]
        /\ UNCHANGED vars /\ Accepts(r) /\ Op(r) \in Operation
    BY <1>1, <1>3, LockEffect DEF Lock, At
  <2>2. Accepts(r)'
    BY <2>1 DEF Accepts, Op, vars, Live, Exists, TypeAllows, TierLive
  <2>3. CASE Op(r).kind = "create"
    BY <2>1, <2>3 DEF Holds, CreationHolds, Accepts, Op, At, vars, TierLive
  <2>4. CASE Op(r).kind # "create"
    BY <2>1, <2>2, <2>4 DEF Holds, ChangeHolds, Op, At, vars
  <2> QED
    BY <2>3, <2>4
<1>4. ASSUME NEW p \in {"looked", "counted", "written"}, GoTo(r, p),
             tx[r].at \in Holding4Update, UNCHANGED vars,
             p \in {"counted", "written"} /\ Op(r).kind = "create" =>
                UnderLimit(r) /\ (p = "written" => tier[Op(r).t].inventory >= 1),
             LooksUp(r) /\ p \in {"looked", "written"} /\ Op(r).kind # "create" => Found(r)
      PROVE  Holds(r)'
  <2>1. /\ tx'[r].at = p /\ tx'[r].op = tx[r].op
        /\ tx'[r].expected = tx[r].expected /\ tx'[r].row = tx[r].row
    BY <1>1, <1>4, GoToEffect DEF Position, Holding4Update
  <2>2. CASE Op(r).kind = "create"
    <3>1. CreationHolds(r)
      BY <1>1, <1>4, <2>2 DEF Holds
    <3> QED
      BY <1>4, <2>1, <2>2, <3>1 DEF Holds, CreationHolds, Op, At, vars, TierLive, UnderLimit,
         CountByCustomerAndTier, Purchases, Exists
  <2>3. CASE Op(r).kind # "create"
    <3>1. ChangeHolds(r)
      BY <1>1, <1>4, <2>3 DEF Holds
    <3>2. Accepts(r)'
      BY <1>4, <2>1, <3>1 DEF ChangeHolds, Accepts, Op, vars, Live, Exists, TypeAllows, TierLive
    <3>3. LooksUp(r)' /\ p \in {"looked", "written"} => Found(r)'
      BY <1>4, <2>1, <2>3 DEF LooksUp, Found, Op, vars, CustomerLive
    <3> QED
      BY <1>4, <2>1, <2>3, <3>1, <3>2, <3>3 DEF Holds, ChangeHolds, Op, vars
  <2> QED
    BY <2>2, <2>3
<1>5. CASE LookUp(r)
  BY <1>4, <1>5 DEF LookUp, At, Holding4Update
<1>6. CASE Count(r)
  BY <1>4, <1>6 DEF Count, At, Holding4Update
<1>7. CASE Write(r)
  <2>1. /\ GoTo(r, "written") /\ UNCHANGED vars
        /\ tx[r].at \in {"locked", "looked", "counted"} /\ Op(r) \in Operation
    BY <1>1, <1>7 DEF Write, At
  <2>2. ASSUME Op(r).kind = "create"
        PROVE  UnderLimit(r) /\ tier[Op(r).t].inventory >= 1
    <3>1. At(r, "counted") /\ tier[Op(r).t].inventory >= 1
      BY <1>7, <2>2 DEF Write
    <3> QED
      BY <1>1, <2>2, <3>1 DEF Holds, CreationHolds, At, Holding4Update
  <2>3. ASSUME LooksUp(r), Op(r).kind # "create"
        PROVE  Found(r)
    <3>1. At(r, "looked")
      BY <1>1, <1>7, <2>3 DEF Write, RequestOK
    <3> QED
      BY <1>1, <2>3, <3>1 DEF Holds, ChangeHolds, At, Holding4Update
  <2> QED
    BY <1>4, <2>1, <2>2, <2>3 DEF Holding4Update
<1>8. CASE \E op \in Operation : Submit(r, op)
  BY <1>1, <1>2, <1>8, SubmitEffect DEF Holding4Update
<1>9. CASE Begin(r) \/ CommitCreate(r) \/ CommitTransition(r)
  BY <1>1, <1>2, <1>9, GoToEffect DEF Begin, CommitCreate, CommitTransition, Position,
     Holding4Update
<1>10. CASE Refuse(r) \/ CommitAddress(r) \/ Audit(r) \/ Abort(r)
  BY <1>1, <1>2, <1>10, EndEffect DEF Refuse, CommitAddress, Audit, Abort, Holding4Update
<1> QED
  BY <1>3, <1>5, <1>6, <1>7, <1>8, <1>9, <1>10 DEF Steps, Advance

-----------------------------------------------------------------------------
(* The invariant *)

LEMMA GoneNowNext ==
    ASSUME TxInv, [TransactionsNext]_txVars
    PROVE  GoneNow'
<1>1. GoneNow /\ TypeOK /\ TxTypeOK
  BY DEF TxInv, TxTypeOK
<1>2. CASE UNCHANGED <<now, customer>>
  BY <1>1, <1>2 DEF GoneNow
<1>3. ASSUME NEW r \in Request, Steps(r)
      PROVE  UNCHANGED <<now, customer>>
  <2>1. CASE CommitCreate(r)
    BY <2>1 DEF CommitCreate
  <2>2. CASE CommitTransition(r) \/ CommitAddress(r)
    BY <2>2, CommitsNext
  <2> QED
    BY <1>1, <1>3, <2>1, <2>2, StepsEffect DEF Commits, vars
<1>4. CASE Browse \/ SoftDeletes \/ UNCHANGED txVars
  <2>1. ASSUME NEW c \in Customer, DeleteCustomer(c) \/ RestoreCustomer(c)
        PROVE  GoneNow'
    BY <1>1, <2>1 DEF DeleteCustomer, RestoreCustomer, GoneNow, TypeOK
  <2>2. \/ UNCHANGED <<now, customer>>
        \/ \E c \in Customer : DeleteCustomer(c) \/ RestoreCustomer(c)
    BY <1>4 DEF Browse, SoftDeletes, ReadAddress, Open, DeleteFulfillment, RestoreFulfillment,
       DeleteTier, RestoreTier, txVars, vars
  <2> QED
    BY <1>2, <2>1, <2>2
<1> QED
  BY <1>2, <1>3, <1>4, TxKinds

LEMMA HoldsNext ==
    ASSUME TxInv, [TransactionsNext]_txVars, NEW q \in Request
    PROVE  Holds(q)'
<1>1. TxTypeOK /\ TypeOK' /\ Holds(q)
  BY TablesTypeNext DEF TxInv
<1>2. ASSUME NEW r \in Request, Steps(r), q # r
      PROVE  Holds(q)'
  <2>1. tx'[q] = tx[q] /\ (UNCHANGED vars \/ Commits(r))
    BY <1>1, <1>2, StepsEffect
  <2>2. UNCHANGED vars => Spares(q)
    BY DEF Spares, OnlyFewer, Exists, vars
  <2> QED
    BY <1>1, <1>2, <2>1, <2>2, CommitSpares, HoldsOn
<1>3. CASE Browse \/ SoftDeletes \/ UNCHANGED txVars
  BY <1>1, <1>3, StatementsNext, StatementSpares, HoldsOn
<1> QED
  BY <1>2, <1>3, HoldsOwn, TxKinds

LEMMA TxInvNext == TxInv /\ [TransactionsNext]_txVars => TxInv'
BY TxTypeNext, ExclusiveNext, GoneNowNext, FreshNext, HoldsNext DEF TxInv

LEMMA TxInvInit == TransactionsInit => TxInv
<1> SUFFICES ASSUME TransactionsInit PROVE TxInv
  OBVIOUS
<1>1. /\ TypeOK
      /\ \A r \in Request : tx[r].at = "idle" /\ tx[r].op = NULL /\ tx[r].expected = 0
  BY TypeInit DEF TransactionsInit, NoTx
<1>2. tx \in [Request -> Tx]
  BY DEF TransactionsInit, NoTx, Tx, Position
<1>3. TxTypeOK
  BY <1>1, <1>2 DEF TxTypeOK, RequestOK, At, Op
<1>4. \A r \in Request : Locked(r) = {}
  BY <1>1 DEF Locked
<1> QED
  BY <1>1, <1>3, <1>4 DEF TxInv, Exclusive, GoneNow, Fresh, Holds, Holding4Update,
     TransactionsInit, Init

-----------------------------------------------------------------------------
(* The simulation.  Where no customer's bar changes, a step of the tables is *)
(* the same step of the specification with the bar in the customers' place.  *)

Bars(q, c) ==
    /\ tx[q].at \in {"looked", "counted", "written", "audit"}
    /\ Op(q).kind = "create"
    /\ Op(q).c = c

LEMMA BarOf ==
    /\ CustomerBar = [c \in Customer |->
                        IF \E q \in Request : Bars(q, c) THEN NULL ELSE customer[c]]
    /\ CustomerBar' = [c \in Customer |->
                         IF \E q \in Request : Bars(q, c)' THEN NULL ELSE customer'[c]]
BY DEF CustomerBar, Bars, Op

LEMMA BarSame ==
    ASSUME customer' = customer,
           \A c \in Customer : (\E q \in Request : Bars(q, c)') <=> (\E q \in Request : Bars(q, c))
    PROVE  CustomerBar' = CustomerBar
BY DEF CustomerBar, Bars, Op

LEMMA LiftTransition ==
    ASSUME NEW f, NEW e, NEW to, NEW cs, Transition(f, e, to, cs), CustomerBar' = CustomerBar
    PROVE  Atomic!Transition(f, e, to, cs)
BY DEF Transition, Atomic!Transition, Sent, Atomic!Sent, Live, Atomic!Live, Exists, Atomic!Exists,
   IsTransitionAllowed, Atomic!IsTransitionAllowed, AllowedTransitions, Atomic!AllowedTransitions,
   TypeAllows, Atomic!TypeAllows, TimelineEvent, Atomic!TimelineEvent

LEMMA LiftChange ==
    ASSUME NEW f, NEW e \in 0 .. MaxVersion, CustomerBar' = CustomerBar,
           \/ \E a \in Address \cup {NULL} : ReadyToShip(f, e, a)
           \/ Ship(f, e) \/ IssueVoucher(f, e) \/ Deliver(f, e)
           \/ Complete(f, e) \/ Hold(f, e) \/ Cancel(f, e)
    PROVE  Atomic!FulfillmentStep(f)
<1>1. ASSUME NEW a \in Address \cup {NULL}, ReadyToShip(f, e, a)
      PROVE  Atomic!ReadyToShip(f, e, a)
  BY <1>1, LiftTransition DEF ReadyToShip, Atomic!ReadyToShip
<1>2. /\ Ship(f, e) => Atomic!Ship(f, e)
      /\ IssueVoucher(f, e) => Atomic!IssueVoucher(f, e)
      /\ Deliver(f, e) => Atomic!Deliver(f, e)
      /\ Complete(f, e) => Atomic!Complete(f, e)
      /\ Hold(f, e) => Atomic!Hold(f, e)
  BY LiftTransition DEF Ship, Atomic!Ship, IssueVoucher, Atomic!IssueVoucher, Deliver,
     Atomic!Deliver, Complete, Atomic!Complete, Hold, Atomic!Hold
<1>3. Cancel(f, e) => Atomic!Cancel(f, e)
  BY LiftTransition DEF Cancel, Atomic!Cancel, Release, Atomic!Release, AddInventory,
     Atomic!AddInventory
<1> QED
  BY <1>1, <1>2, <1>3 DEF Atomic!FulfillmentStep

LEMMA LiftEdit ==
    ASSUME NEW f, NEW e \in 0 .. MaxVersion, NEW a \in Address, CustomerBar' = CustomerBar,
           UpdateShippingAddress(f, e, a)
    PROVE  Atomic!FulfillmentStep(f)
<1>1. Atomic!UpdateShippingAddress(f, e, a)
  BY DEF UpdateShippingAddress, Atomic!UpdateShippingAddress, Sent, Atomic!Sent, Live,
     Atomic!Live, Exists, Atomic!Exists, BumpVersion, Atomic!BumpVersion
<1> QED
  BY <1>1 DEF Atomic!FulfillmentStep

LEMMA LiftStatement ==
    ASSUME CustomerBar' = CustomerBar,
           \/ \E f \in FulfillmentId : DeleteFulfillment(f) \/ RestoreFulfillment(f)
           \/ \E t \in Tier : DeleteTier(t) \/ RestoreTier(t)
           \/ \E k \in Client : ReadAddress(k) \/ \E f \in FulfillmentId : Open(k, f)
    PROVE  Atomic!Next
<1>1. ASSUME NEW f \in FulfillmentId, DeleteFulfillment(f) \/ RestoreFulfillment(f)
      PROVE  Atomic!FulfillmentStep(f)
  BY <1>1 DEF DeleteFulfillment, Atomic!DeleteFulfillment, RestoreFulfillment,
     Atomic!RestoreFulfillment, Live, Atomic!Live, Exists, Atomic!Exists, Restorable,
     Atomic!Restorable, Atomic!FulfillmentStep
<1>2. ASSUME NEW t \in Tier, DeleteTier(t) \/ RestoreTier(t)
      PROVE  Atomic!DeleteTier(t) \/ Atomic!RestoreTier(t)
  BY <1>2 DEF DeleteTier, Atomic!DeleteTier, RestoreTier, Atomic!RestoreTier, TierLive,
     Atomic!TierLive, Restorable, Atomic!Restorable
<1>3. ASSUME NEW k \in Client, ReadAddress(k)
      PROVE  Atomic!ReadAddress(k)
  BY <1>3 DEF ReadAddress, Atomic!ReadAddress
<1>4. ASSUME NEW k \in Client, NEW f \in FulfillmentId, Open(k, f)
      PROVE  Atomic!FulfillmentStep(f)
  <2>1. Atomic!Open(k, f)
    BY <1>4 DEF Open, Atomic!Open, Live, Atomic!Live, Exists, Atomic!Exists
  <2> QED
    BY <2>1 DEF Atomic!FulfillmentStep
<1> QED
  BY <1>1, <1>2, <1>3, <1>4 DEF Atomic!Next

(* A bar changes only with the request that holds it.                        *)
LEMMA BarKept ==
    ASSUME NEW r \in Request, customer' = customer,
           \A q \in Request : q # r => tx'[q] = tx[q],
           \A c \in Customer : Bars(r, c)' <=> Bars(r, c)
    PROVE  CustomerBar' = CustomerBar
<1>1. \A q \in Request, c \in Customer : q # r => (Bars(q, c)' <=> Bars(q, c))
  BY DEF Bars, Op
<1> QED
  BY <1>1, BarSame

LEMMA BarMoves ==
    ASSUME TxInv, NEW r \in Request, NEW p \in Position, GoTo(r, p), customer' = customer,
           Op(r).kind = "create" =>
             (p \in {"looked", "counted", "written", "audit"} <=>
              tx[r].at \in {"looked", "counted", "written", "audit"})
    PROVE  CustomerBar' = CustomerBar
<1>1. /\ tx'[r].at = p /\ tx'[r].op = tx[r].op
      /\ \A q \in Request : q # r => tx'[q] = tx[q]
  BY GoToEffect DEF TxInv
<1>2. ASSUME NEW c \in Customer
      PROVE  Bars(r, c)' <=> Bars(r, c)
  BY <1>1 DEF Bars, Op
<1> QED
  BY <1>1, <1>2, BarKept

(* With the end of its last creation a customer deleted meanwhile is deleted.*)
LEMMA BarLost ==
    ASSUME TxInv, NEW r \in Request, tx' = [tx EXCEPT ![r] = NoTx], UNCHANGED vars
    PROVE  \/ CustomerBar' = CustomerBar
           \/ \E c \in Customer : Atomic!DeleteCustomer(c)
<1>1. /\ tx'[r].at = "idle"
      /\ \A q \in Request : q # r => tx'[q] = tx[q]
  BY EndEffect DEF TxInv
<1>2. UNCHANGED <<now, tier, customer, ful, reservation, address, timeline, view>>
  BY DEF vars
<1>3. \A c : ~Bars(r, c)'
  BY <1>1 DEF Bars
<1>4. \A q \in Request, c \in Customer : q # r => (Bars(q, c)' <=> Bars(q, c))
  BY <1>1 DEF Bars, Op
<1>5. CASE \A c \in Customer : ~Bars(r, c)
  BY <1>1, <1>2, <1>3, <1>5, BarKept
<1>6. ASSUME NEW c \in Customer, Bars(r, c)
      PROVE  CustomerBar' = CustomerBar \/ Atomic!DeleteCustomer(c)
  <2> DEFINE barred(d) == \E q \in Request : Bars(q, d)
  <2>1. /\ CustomerBar = [d \in Customer |-> IF barred(d) THEN NULL ELSE customer[d]]
        /\ CustomerBar' = [d \in Customer |-> IF barred(d)' THEN NULL ELSE customer[d]]
    BY <1>2, BarOf
  <2>2. \A d \in Customer : d # c => (barred(d)' <=> barred(d))
    BY <1>3, <1>4, <1>6 DEF Bars
  <2>3. barred(c)
    BY <1>6
  <2> HIDE DEF barred
  <2>4. CASE barred(c)' \/ customer[c] = NULL
    BY <2>1, <2>2, <2>3, <2>4
  <2>5. CASE ~barred(c)' /\ customer[c] = now
    <3>1. CustomerBar' = [CustomerBar EXCEPT ![c] = now] /\ CustomerBar[c] = NULL
      BY <2>1, <2>2, <2>3, <2>5
    <3> QED
      BY <1>2, <3>1 DEF Atomic!DeleteCustomer, Atomic!CustomerLive
  <2> QED
    BY <2>4, <2>5 DEF TxInv, GoneNow
<1> QED
  BY <1>5, <1>6

LEMMA CardinalityImplements ==
    ASSUME NEW S
    PROVE  Atomic!Cardinality(S) = Cardinality(S)
BY DEF Cardinality, Atomic!Cardinality

LEMMA LiftCreate ==
    ASSUME TxInv, NEW r \in Request, CommitCreate(r)
    PROVE  Op(r).f \in FulfillmentId /\ Atomic!FulfillmentStep(Op(r).f)
<1> DEFINE f == Op(r).f
           t == Op(r).t
           c == Op(r).c
<1>1. /\ Op(r) \in Operation /\ Op(r).kind = "create" /\ tier[t].inventory >= 1
      /\ TierLive(t) /\ UnderLimit(r) /\ tx[r].row = tier[t] /\ ~Exists(f)
  BY CommitCreateEffect
<1>2. f \in FulfillmentId /\ c \in Customer /\ t \in Tier /\ Op(r).type \in Types
  BY <1>1, OperationKinds
<1>3. GoTo(r, "audit") /\ At(r, "written") /\ UNCHANGED <<now, customer, address, view>>
  BY DEF CommitCreate
<1>4. CustomerBar' = CustomerBar
  BY <1>3, BarMoves DEF Position, At
<1>5. CustomerBar[c] = NULL
  <2>1. Bars(r, c)
    BY <1>1, <1>3 DEF Bars, At
  <2> QED
    BY <1>2, <2>1, BarOf
<1>6. Atomic!CountByCustomerAndTier(c, t, now - PurchaseWindow) < tier[t].limit
  BY <1>1, CardinalityImplements DEF UnderLimit, CountByCustomerAndTier,
     Atomic!CountByCustomerAndTier, Purchases, Atomic!Purchases, Exists, Atomic!Exists
<1>7. ~Atomic!Exists(f) /\ Atomic!TierLive(t) /\ Atomic!CustomerLive(c)
  BY <1>1, <1>5 DEF Exists, Atomic!Exists, TierLive, Atomic!TierLive, Atomic!CustomerLive
<1>8. Atomic!Reserve(t, f)
  BY <1>1 DEF CommitCreate, AddInventory, Atomic!Reserve, Atomic!AddInventory
<1>9. /\ ful' = [ful EXCEPT ![f] =
                   [tier |-> t, customer |-> c, type |-> Op(r).type, status |-> "DRAFT",
                    version |-> 1, createdAt |-> now, deletedAt |-> NULL, filled |-> {}]]
      /\ timeline' = [timeline EXCEPT ![f] = <<[from |-> NULL, to |-> "DRAFT"]>>]
  BY DEF CommitCreate
<1>10. Atomic!Create(f, c, t, Op(r).type)
  BY <1>3, <1>4, <1>6, <1>7, <1>8, <1>9 DEF Atomic!Create
<1> QED
  BY <1>2, <1>10 DEF Atomic!FulfillmentStep, Types, Atomic!Types

LEMMA LiftCommit ==
    ASSUME TxInv, NEW r \in Request, Commits(r)
    PROVE  Atomic!Next
<1>1. CASE CommitCreate(r)
  BY <1>1, LiftCreate DEF Atomic!Next
<1>2. CASE CommitTransition(r)
  <2>1. GoTo(r, "audit") /\ At(r, "written") /\ UNCHANGED customer
    BY <1>2 DEF CommitTransition
  <2>2. CustomerBar' = CustomerBar
    BY <2>1, BarMoves DEF Position, At
  <2> QED
    BY <1>2, <2>2, CommitIsChange, LiftChange DEF Atomic!Next
<1>3. CASE CommitAddress(r)
  <2>1. /\ tx' = [tx EXCEPT ![r] = NoTx] /\ Op(r).kind = "address" /\ UNCHANGED customer
    BY <1>3 DEF CommitAddress
  <2>2. tx'[r].at = "idle" /\ \A q \in Request : q # r => tx'[q] = tx[q]
    BY <2>1, EndEffect DEF TxInv
  <2>3. \A c \in Customer : Bars(r, c)' <=> Bars(r, c)
    BY <2>1, <2>2 DEF Bars, Op
  <2>4. CustomerBar' = CustomerBar
    BY <2>1, <2>2, <2>3, BarKept
  <2> QED
    BY <1>3, <2>4, CommitIsEdit, LiftEdit DEF Atomic!Next
<1> QED
  BY <1>1, <1>2, <1>3 DEF Commits

(* A request's other steps change no table; found is only who is not deleted.*)
LEMMA LiftOther ==
    ASSUME TxInv, NEW r \in Request, Steps(r), ~Commits(r)
    PROVE  UNCHANGED vars /\ (CustomerBar' = CustomerBar \/ Atomic!Next)
<1>1. TxTypeOK /\ UNCHANGED vars /\ customer' = customer
  BY StepsEffect DEF TxInv, vars
<1>2. CASE \E op \in Operation : Submit(r, op)
  <2>1. At(r, "idle") /\ tx'[r].at = "waiting" /\ \A q \in Request : q # r => tx'[q] = tx[q]
    BY <1>1, <1>2, SubmitEffect DEF Submit
  <2>2. \A c \in Customer : Bars(r, c)' <=> Bars(r, c)
    BY <2>1 DEF Bars, At
  <2> QED
    BY <1>1, <2>1, <2>2, BarKept
<1>3. CASE Lock(r)
  <2>1. At(r, "begun") /\ tx'[r].at = "locked" /\ \A q \in Request : q # r => tx'[q] = tx[q]
    BY <1>1, <1>3, LockEffect DEF Lock
  <2>2. \A c \in Customer : Bars(r, c)' <=> Bars(r, c)
    BY <2>1 DEF Bars, At
  <2> QED
    BY <1>1, <2>1, <2>2, BarKept
<1>4. CASE Begin(r) \/ Count(r) \/ Write(r)
  <2>1. \E p \in Position :
          /\ GoTo(r, p)
          /\ Op(r).kind = "create" =>
               (p \in {"looked", "counted", "written", "audit"} <=>
                tx[r].at \in {"looked", "counted", "written", "audit"})
    BY <1>4 DEF Begin, Count, Write, At, Position, Holding4Update
  <2> QED
    BY <1>1, <2>1, BarMoves
<1>5. CASE LookUp(r)
  <2>1. GoTo(r, "looked") /\ At(r, "locked") /\ Found(r)
    BY <1>5 DEF LookUp
  <2>2. CASE Op(r).kind # "create"
    BY <1>1, <2>1, <2>2, BarMoves DEF Position, Holding4Update
  <2>3. CASE Op(r).kind = "create"
    <3>1. CustomerLive(Op(r).c)
      BY <2>1, <2>3 DEF Found
    <3>2. /\ tx'[r].at = "looked" /\ tx'[r].op = tx[r].op
          /\ \A q \in Request : q # r => tx'[q] = tx[q]
      BY <1>1, <2>1, GoToEffect DEF Position, Holding4Update
    <3>3. \A q \in Request, c \in Customer :
            c # Op(r).c \/ q # r => (Bars(q, c)' <=> Bars(q, c))
      BY <3>2 DEF Bars, Op
    <3>4. CustomerBar' = [c \in Customer |-> IF \E q \in Request : Bars(q, c)' THEN NULL
                                              ELSE customer[c]]
      BY <1>1, BarOf
    <3>5. ASSUME NEW c \in Customer
          PROVE  (IF \E q \in Request : Bars(q, c)' THEN NULL ELSE customer[c])
                   = (IF \E q \in Request : Bars(q, c) THEN NULL ELSE customer[c])
      BY <3>1, <3>3 DEF CustomerLive
    <3> QED
      BY <1>1, <3>4, <3>5, BarOf
  <2> QED
    BY <2>2, <2>3
<1>6. CASE Refuse(r) \/ Audit(r) \/ Abort(r)
  <2>1. tx' = [tx EXCEPT ![r] = NoTx]
    BY <1>6 DEF Refuse, Audit, Abort
  <2> QED
    BY <1>1, <2>1, BarLost DEF Atomic!Next
<1> QED
  BY <1>2, <1>3, <1>4, <1>5, <1>6 DEF Steps, Advance, Commits

(* A customer's own row: nobody sees the change while a creation bars it.    *)
LEMMA LiftCustomer ==
    ASSUME TxInv, NEW c \in Customer, DeleteCustomer(c) \/ RestoreCustomer(c), tx' = tx
    PROVE  \/ CustomerBar' = CustomerBar /\ UNCHANGED <<now, tier, ful, reservation, address,
                                                       timeline, view>>
           \/ Atomic!DeleteCustomer(c) \/ Atomic!RestoreCustomer(c)
<1> DEFINE barred(d) == \E q \in Request : Bars(q, d)
<1>1. \A d : barred(d)' <=> barred(d)
  BY DEF Bars, Op
<1>2. /\ CustomerBar = [d \in Customer |-> IF barred(d) THEN NULL ELSE customer[d]]
      /\ CustomerBar' = [d \in Customer |-> IF barred(d)' THEN NULL ELSE customer'[d]]
  BY BarOf
<1>3. UNCHANGED <<now, tier, ful, reservation, address, timeline, view>>
  BY DEF DeleteCustomer, RestoreCustomer
<1>4. /\ customer \in [Customer -> Time]
      /\ \/ CustomerLive(c) /\ customer' = [customer EXCEPT ![c] = now]
         \/ Restorable(customer[c]) /\ customer' = [customer EXCEPT ![c] = NULL]
  BY DEF DeleteCustomer, RestoreCustomer, TxInv, TxTypeOK, TypeOK
<1> HIDE DEF barred
<1>5. CASE barred(c)
  <2>1. \A d \in Customer : d # c => customer'[d] = customer[d]
    BY <1>4
  <2> QED
    BY <1>1, <1>2, <1>3, <1>5, <2>1
<1>6. CASE ~barred(c)
  <2>1. CustomerBar[c] = customer[c]
    BY <1>2, <1>6
  <2>2. ASSUME NEW at, customer' = [customer EXCEPT ![c] = at]
        PROVE  CustomerBar' = [CustomerBar EXCEPT ![c] = at]
    BY <1>1, <1>2, <1>4, <1>6, <2>2
  <2> QED
    BY <1>3, <1>4, <2>1, <2>2 DEF Atomic!DeleteCustomer, Atomic!RestoreCustomer, CustomerLive,
       Atomic!CustomerLive, Restorable, Atomic!Restorable
<1> QED
  BY <1>5, <1>6

LEMMA InitImplements == TransactionsInit => Atomic!Init
<1> SUFFICES ASSUME TransactionsInit PROVE Atomic!Init
  OBVIOUS
<1>1. Init /\ tx = [r \in Request |-> NoTx]
  BY DEF TransactionsInit
<1>2. \A q \in Request, c \in Customer : ~Bars(q, c)
  BY <1>1 DEF Bars, NoTx
<1>3. CustomerBar = [c \in Customer |-> NULL]
  BY <1>1, <1>2, BarOf DEF Init
<1> QED
  BY <1>1, <1>3 DEF Init, Atomic!Init

LEMMA StepImplements ==
    ASSUME TxInv, [TransactionsNext]_txVars
    PROVE  [Atomic!Next]_(Atomic!vars)
<1>1. ASSUME CustomerBar' = CustomerBar,
             UNCHANGED <<now, tier, ful, reservation, address, timeline, view>>
      PROVE  UNCHANGED Atomic!vars
  BY <1>1 DEF Atomic!vars
<1>2. ASSUME NEW r \in Request, Steps(r)
      PROVE  [Atomic!Next]_(Atomic!vars)
  BY <1>1, <1>2, LiftCommit, LiftOther DEF vars
<1>3. ASSUME Browse \/ SoftDeletes
      PROVE  [Atomic!Next]_(Atomic!vars)
  <2>1. tx' = tx
    BY <1>3 DEF Browse, SoftDeletes
  <2>2. CASE \E c \in Customer : DeleteCustomer(c) \/ RestoreCustomer(c)
    BY <1>1, <2>1, <2>2, LiftCustomer DEF Atomic!Next
  <2>3. CASE \/ \E f \in FulfillmentId : DeleteFulfillment(f) \/ RestoreFulfillment(f)
             \/ \E t \in Tier : DeleteTier(t) \/ RestoreTier(t)
             \/ \E k \in Client : ReadAddress(k) \/ \E f \in FulfillmentId : Open(k, f)
    <3>1. customer' = customer
      BY <2>3 DEF DeleteFulfillment, RestoreFulfillment, DeleteTier, RestoreTier, ReadAddress, Open
    <3>2. CustomerBar' = CustomerBar
      BY <2>1, <3>1, BarSame DEF Bars, Op
    <3> QED
      BY <2>3, <3>2, LiftStatement
  <2> QED
    BY <1>3, <2>2, <2>3 DEF Browse, SoftDeletes
<1>4. ASSUME UNCHANGED txVars
      PROVE  [Atomic!Next]_(Atomic!vars)
  <2>1. tx' = tx /\ UNCHANGED vars
    BY <1>4 DEF txVars
  <2>2. UNCHANGED <<now, tier, customer, ful, reservation, address, timeline, view>>
    BY <2>1 DEF vars
  <2>3. CustomerBar' = CustomerBar
    BY <2>1, <2>2, BarSame DEF Bars, Op
  <2> QED
    BY <1>1, <2>2, <2>3
<1> QED
  BY <1>2, <1>3, <1>4, TxKinds

(* However the statements of concurrent requests interleave, and wherever    *)
(* they roll back, what they do to the tables is what Fulfillment's whole    *)
(* transactions do: WithTx with the row locks of Create, Transition and      *)
(* UpdateShippingAddress is atomic although it runs at READ COMMITTED and    *)
(* checks the customer on another connection without a lock.                 *)
THEOREM AtomicCorrect == TransactionsSpec => AtomicSpec
<1>1. TransactionsSpec => TransactionsInit /\ [][TransactionsNext]_txVars
  BY PTL DEF TransactionsSpec
<1>2. TransactionsInit => TxInv /\ Atomic!Init
  BY TxInvInit, InitImplements
<1>3. TxInv /\ [TransactionsNext]_txVars => TxInv' /\ [Atomic!Next]_(Atomic!vars)
  BY TxInvNext, StepImplements
<1> QED
  BY <1>1, <1>2, <1>3, PTL DEF AtomicSpec, Atomic!Spec

-----------------------------------------------------------------------------
(* What is proved of Fulfillment holds of every interleaving.                *)

Proved == INSTANCE FulfillmentProofs WITH customer <- CustomerBar

Promised ==
    /\ Proved!StockConserved
    /\ Proved!ReservationFollowsStatus
    /\ Proved!RollingLimit
    /\ Proved!VersionIdentifiesRow
    /\ Proved!CompletionEvidence
    /\ Proved!TimelineTellsStatus

LEMMA InstanceAssumptions ==
    /\ NULL \notin Nat \cup Address \cup Proved!Statuses \cup Proved!Row \cup Proved!Page
    /\ Proved!IsFiniteSet(FulfillmentId)
    /\ Stock \in [Tier -> Nat]
    /\ Limit \in [Tier -> Nat \ {0}]
    /\ PurchaseWindow \in Nat
    /\ RestoreWindow \in Nat
    /\ MaxTime \in Nat
    /\ MaxVersion \in Nat
BY NullAssumption, FulfillmentAssumption
   DEF Proved!Statuses, Statuses, Proved!Row, Row, Page, Proved!Page, Proved!IsFiniteSet,
   IsFiniteSet, Proved!Types, Types, Proved!Columns, Columns, Time, Proved!Time

LEMMA SameStep ==
    ASSUME [Atomic!Next]_(Atomic!vars)
    PROVE  [Proved!Next]_(Proved!vars)
<1>1. Atomic!Next => Proved!Next
  BY DEF Atomic!Next, Proved!Next, Atomic!FulfillmentStep, Proved!FulfillmentStep,
     Atomic!Create, Proved!Create, Atomic!ReadyToShip, Proved!ReadyToShip,
     Atomic!Ship, Proved!Ship, Atomic!IssueVoucher, Proved!IssueVoucher,
     Atomic!Deliver, Proved!Deliver, Atomic!Complete, Proved!Complete,
     Atomic!Hold, Proved!Hold, Atomic!Cancel, Proved!Cancel,
     Atomic!UpdateShippingAddress, Proved!UpdateShippingAddress,
     Atomic!DeleteFulfillment, Proved!DeleteFulfillment,
     Atomic!RestoreFulfillment, Proved!RestoreFulfillment, Atomic!Open,
     Proved!Open, Atomic!DeleteTier, Proved!DeleteTier, Atomic!RestoreTier,
     Proved!RestoreTier, Atomic!DeleteCustomer, Proved!DeleteCustomer,
     Atomic!RestoreCustomer, Proved!RestoreCustomer, Atomic!ReadAddress,
     Proved!ReadAddress, Atomic!Tick, Proved!Tick, Atomic!Transition,
     Proved!Transition, Atomic!Sent, Proved!Sent, Atomic!Live, Proved!Live,
     Atomic!Exists, Proved!Exists, Atomic!TierLive, Proved!TierLive,
     Atomic!CustomerLive, Proved!CustomerLive, Atomic!CountByCustomerAndTier,
     Proved!CountByCustomerAndTier, Atomic!Purchases, Proved!Purchases,
     Atomic!Cardinality, Proved!Cardinality, Atomic!Reserve, Proved!Reserve,
     Atomic!Release, Proved!Release, Atomic!AddInventory, Proved!AddInventory,
     Atomic!IsTransitionAllowed, Proved!IsTransitionAllowed,
     Atomic!AllowedTransitions, Proved!AllowedTransitions, Atomic!TypeAllows,
     Proved!TypeAllows, Atomic!TimelineEvent, Proved!TimelineEvent,
     Atomic!BumpVersion, Proved!BumpVersion, Atomic!Restorable, Proved!Restorable,
     Atomic!Types, Proved!Types
<1>2. UNCHANGED Atomic!vars => UNCHANGED Proved!vars
  BY DEF Atomic!vars, Proved!vars
<1> QED
  BY <1>1, <1>2

LEMMA PromisedOfTables ==
    Promised => /\ StockConserved /\ ReservationFollowsStatus /\ RollingLimit
                /\ VersionIdentifiesRow /\ CompletionEvidence /\ TimelineTellsStatus
BY DEF Promised,
   StockConserved, Proved!StockConserved, Holding, Proved!Holding,
   ReservationFollowsStatus, Proved!ReservationFollowsStatus, RollingLimit,
   Proved!RollingLimit, WindowOf, Proved!WindowOf, VersionIdentifiesRow,
   Proved!VersionIdentifiesRow, PageIsCurrent, Proved!PageIsCurrent,
   CompletionEvidence, Proved!CompletionEvidence, TimelineTellsStatus,
   Proved!TimelineTellsStatus, Exists, Proved!Exists, Cardinality,
   Proved!Cardinality, IsTransitionAllowed, Proved!IsTransitionAllowed,
   AllowedTransitions, Proved!AllowedTransitions

(* However requests interleave and roll back, no unit of stock is lost, a    *)
(* reservation follows its fulfillment's status, no customer gets past the   *)
(* purchase limit, a version identifies what a page shows, a completed       *)
(* fulfillment went its whole path and the timeline tells the status:        *)
(* InventoryService and FulfillmentService keep their promises although the  *)
(* limit is counted, the stock compared and the version read by statements   *)
(* of their own.                                                             *)
THEOREM InterleavingsCorrect ==
    TransactionsSpec => [](/\ StockConserved /\ ReservationFollowsStatus /\ RollingLimit
                           /\ VersionIdentifiesRow /\ CompletionEvidence /\ TimelineTellsStatus)
<1>1. AtomicSpec => Proved!Spec
  <2>1. Atomic!Init => Proved!Init
    BY DEF Atomic!Init, Proved!Init
  <2>2. [Atomic!Next]_(Atomic!vars) => [Proved!Next]_(Proved!vars)
    BY SameStep
  <2> QED
    BY <2>1, <2>2, PTL DEF AtomicSpec, Atomic!Spec, Proved!Spec
<1>2. Proved!Spec => []Proved!StockConserved
  BY InstanceAssumptions, Proved!StockCorrect
<1>3. Proved!Spec => []Proved!ReservationFollowsStatus
  BY InstanceAssumptions, Proved!ReservationCorrect
<1>4. Proved!Spec => []Proved!RollingLimit
  BY InstanceAssumptions, Proved!LimitCorrect
<1>5. Proved!Spec => []Proved!VersionIdentifiesRow
  BY InstanceAssumptions, Proved!VersionCorrect
<1>6. Proved!Spec => []Proved!CompletionEvidence
  BY InstanceAssumptions, Proved!CompletionCorrect
<1>7. Proved!Spec => []Proved!TimelineTellsStatus
  BY InstanceAssumptions, Proved!TimelineCorrect
<1> QED
  BY <1>1, <1>2, <1>3, <1>4, <1>5, <1>6, <1>7, AtomicCorrect, PromisedOfTables, PTL DEF Promised
=============================================================================
