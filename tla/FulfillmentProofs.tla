------------------------- MODULE FulfillmentProofs -------------------------
(***************************************************************************)
(* Theorems about Fulfillment, for any number of fulfillments, tiers,      *)
(* customers and clients, any stock and any limits.                        *)
(***************************************************************************)
EXTENDS Fulfillment, FiniteSetTheorems, TLAPS

-----------------------------------------------------------------------------
(* What one action does to the tables, stated once for all the invariants. *)

LEMMA RowAfterTransition ==
    ASSUME NEW x \in Row, NEW to \in Statuses, NEW cs \in SUBSET Columns
    PROVE  [x EXCEPT !.status = to, !.version = @ + 1, !.filled = @ \cup cs] \in Row
<1> DEFINE v == x.version + 1
<1>1. v \in Nat \ {0}
  BY DEF Row
<1>2. [x EXCEPT !.status = to, !.version = @ + 1, !.filled = @ \cup cs]
        = [x EXCEPT !.status = to, !.version = v, !.filled = @ \cup cs]
  OBVIOUS
<1> HIDE DEF v
<1> QED
  BY <1>1, <1>2 DEF Row

(* Nothing but the row of f changes in the table of fulfillments, and the   *)
(* row keeps its immutable columns.                                         *)
SameOrder(f) ==
    /\ Exists(f) /\ Exists(f)'
    /\ ful[f] \in Row /\ ful'[f] \in Row
    /\ \A g \in FulfillmentId : g # f => ful'[g] = ful[g]
    /\ ful'[f].tier = ful[f].tier
    /\ ful'[f].customer = ful[f].customer
    /\ ful'[f].type = ful[f].type
    /\ ful'[f].createdAt = ful[f].createdAt

LEMMA TransitionEffect ==
    ASSUME TypeOK,
           NEW f \in FulfillmentId, NEW e, NEW to \in Statuses, NEW cs \in SUBSET Columns,
           Transition(f, e, to, cs)
    PROVE  /\ SameOrder(f)
           /\ ful' \in [FulfillmentId -> Row \cup {NULL}]
           /\ timeline' \in [FulfillmentId -> Seq(Event)]
           /\ ful'[f].status = to
           /\ ful'[f].deletedAt = ful[f].deletedAt
           /\ ful'[f].version = ful[f].version + 1
           /\ ful'[f].filled = ful[f].filled \cup cs
<1> DEFINE r == [ful[f] EXCEPT !.status = to, !.version = @ + 1, !.filled = @ \cup cs]
<1>1. Exists(f) /\ ful[f] \in Row
  BY DEF Transition, Live, Exists, TypeOK
<1>2. r \in Row
  BY <1>1, RowAfterTransition
<1>3. ful' = [ful EXCEPT ![f] = r]
  BY DEF Transition
<1>4. /\ r.status = to
      /\ r.tier = ful[f].tier
      /\ r.customer = ful[f].customer
      /\ r.type = ful[f].type
      /\ r.createdAt = ful[f].createdAt
      /\ r.deletedAt = ful[f].deletedAt
      /\ r.version = ful[f].version + 1
      /\ r.filled = ful[f].filled \cup cs
  BY <1>1 DEF Row
<1> HIDE DEF r
<1>5. TimelineEvent(f, to) \in Event
  BY <1>1 DEF TimelineEvent, Event, Row
<1>6. timeline' \in [FulfillmentId -> Seq(Event)]
  BY <1>5 DEF Transition, TypeOK
<1>7. ful'[f] = r /\ ful' \in [FulfillmentId -> Row \cup {NULL}]
  BY <1>2, <1>3 DEF TypeOK
<1>8. \A g \in FulfillmentId : g # f => ful'[g] = ful[g]
  BY <1>3 DEF TypeOK
<1>9. Exists(f)'
  BY <1>2, <1>7, NullAssumption DEF Exists
<1> QED
  BY <1>1, <1>2, <1>4, <1>6, <1>7, <1>8, <1>9 DEF SameOrder

LEMMA BumpEffect ==
    ASSUME TypeOK, NEW f \in FulfillmentId, Live(f), BumpVersion(f)
    PROVE  /\ SameOrder(f)
           /\ ful' \in [FulfillmentId -> Row \cup {NULL}]
           /\ ful'[f].status = ful[f].status
           /\ ful'[f].filled = ful[f].filled
           /\ ful'[f].version = ful[f].version + 1
           /\ ful'[f].deletedAt = ful[f].deletedAt
<1> DEFINE v == ful[f].version + 1
           r == [ful[f] EXCEPT !.version = v]
<1>1. Exists(f) /\ ful[f] \in Row
  BY DEF Live, Exists, TypeOK
<1>2. v \in Nat \ {0}
  BY <1>1 DEF Row
<1>3. ful' = [ful EXCEPT ![f] = r]
  BY DEF BumpVersion
<1> HIDE DEF v
<1>4. r \in Row
  BY <1>1, <1>2 DEF Row
<1>5. /\ r.status = ful[f].status
      /\ r.filled = ful[f].filled
      /\ r.version = v
      /\ r.tier = ful[f].tier
      /\ r.customer = ful[f].customer
      /\ r.type = ful[f].type
      /\ r.createdAt = ful[f].createdAt
      /\ r.deletedAt = ful[f].deletedAt
  BY <1>1 DEF Row
<1> HIDE DEF r
<1>6. ful'[f] = r /\ ful' \in [FulfillmentId -> Row \cup {NULL}]
  BY <1>3, <1>4 DEF TypeOK
<1>7. \A g \in FulfillmentId : g # f => ful'[g] = ful[g]
  BY <1>3 DEF TypeOK
<1>8. Exists(f)'
  BY <1>4, <1>6, NullAssumption DEF Exists
<1> QED
  BY <1>1, <1>4, <1>5, <1>6, <1>7, <1>8 DEF SameOrder, v

LEMMA DeletedAtEffect ==
    ASSUME TypeOK, NEW f \in FulfillmentId, Exists(f), NEW at \in Time,
           ful' = [ful EXCEPT ![f].deletedAt = at]
    PROVE  /\ SameOrder(f)
           /\ ful' \in [FulfillmentId -> Row \cup {NULL}]
           /\ ful'[f].status = ful[f].status
           /\ ful'[f].filled = ful[f].filled
           /\ ful'[f].version = ful[f].version
           /\ ful'[f].deletedAt = at
<1> DEFINE r == [ful[f] EXCEPT !.deletedAt = at]
<1>1. ful[f] \in Row
  BY DEF Exists, TypeOK
<1>2. r \in Row
  BY <1>1 DEF Row
<1>3. ful' = [ful EXCEPT ![f] = r]
  OBVIOUS
<1>4. /\ r.status = ful[f].status
      /\ r.filled = ful[f].filled
      /\ r.version = ful[f].version
      /\ r.tier = ful[f].tier
      /\ r.customer = ful[f].customer
      /\ r.type = ful[f].type
      /\ r.createdAt = ful[f].createdAt
      /\ r.deletedAt = at
  BY <1>1 DEF Row
<1> HIDE DEF r
<1>5. ful'[f] = r /\ ful' \in [FulfillmentId -> Row \cup {NULL}]
  BY <1>2, <1>3 DEF TypeOK
<1>6. \A g \in FulfillmentId : g # f => ful'[g] = ful[g]
  BY <1>3 DEF TypeOK
<1>7. Exists(f)'
  BY <1>2, <1>5, NullAssumption DEF Exists
<1> QED
  BY <1>1, <1>2, <1>4, <1>5, <1>6, <1>7 DEF SameOrder

-----------------------------------------------------------------------------
(* Type correctness *)

LEMMA TypeInit == Init => TypeOK
BY FulfillmentAssumption DEF Init, TypeOK, TierRow, Time

LEMMA InventoryEffect ==
    ASSUME TypeOK, NEW t \in Tier, NEW n \in Int, tier[t].inventory + n \in Nat,
           AddInventory(t, n)
    PROVE  /\ tier' \in [Tier -> TierRow]
           /\ tier'[t].inventory = tier[t].inventory + n
           /\ \A u \in Tier : /\ tier'[u].limit = tier[u].limit
                              /\ u # t => tier'[u] = tier[u]
<1> DEFINE v == tier[t].inventory + n
           r == [tier[t] EXCEPT !.inventory = v]
<1>1. tier[t] \in TierRow
  BY DEF TypeOK
<1>2. v \in Nat
  OBVIOUS
<1>3. tier' = [tier EXCEPT ![t] = r]
  BY DEF AddInventory
<1> HIDE DEF v
<1>4. r \in TierRow /\ r.inventory = v /\ r.limit = tier[t].limit
  BY <1>1, <1>2 DEF TierRow
<1> HIDE DEF r
<1> QED
  BY <1>3, <1>4 DEF TypeOK, v

LEMMA TierDeletedAtEffect ==
    ASSUME TypeOK, NEW t \in Tier, NEW at \in Time,
           tier' = [tier EXCEPT ![t].deletedAt = at]
    PROVE  /\ tier' \in [Tier -> TierRow]
           /\ \A u \in Tier : /\ tier'[u].limit = tier[u].limit
                              /\ tier'[u].inventory = tier[u].inventory
<1> DEFINE r == [tier[t] EXCEPT !.deletedAt = at]
<1>1. tier[t] \in TierRow
  BY DEF TypeOK
<1>2. tier' = [tier EXCEPT ![t] = r]
  OBVIOUS
<1>3. /\ r \in TierRow /\ r.limit = tier[t].limit
      /\ r.inventory = tier[t].inventory
  BY <1>1 DEF TierRow
<1> HIDE DEF r
<1> QED
  BY <1>2, <1>3 DEF TypeOK

LEMMA CreateEffect ==
    ASSUME TypeOK, NEW f \in FulfillmentId, NEW c \in Customer, NEW t \in Tier,
           NEW type \in Types, Create(f, c, t, type)
    PROVE  /\ ~Exists(f) /\ Exists(f)'
           /\ ful' \in [FulfillmentId -> Row \cup {NULL}]
           /\ \A g \in FulfillmentId : g # f => ful'[g] = ful[g]
           /\ ful'[f].tier = t
           /\ ful'[f].customer = c
           /\ ful'[f].type = type
           /\ ful'[f].status = "DRAFT"
           /\ ful'[f].version = 1
           /\ ful'[f].createdAt = now
           /\ ful'[f].filled = {}
           /\ timeline' \in [FulfillmentId -> Seq(Event)]
           /\ tier[t].inventory - 1 \in Nat
           /\ tier' \in [Tier -> TierRow]
           /\ tier'[t].inventory = tier[t].inventory - 1
           /\ \A u \in Tier : /\ tier'[u].limit = tier[u].limit
                              /\ u # t => tier'[u] = tier[u]
<1> DEFINE r == [tier |-> t, customer |-> c, type |-> type, status |-> "DRAFT",
                 version |-> 1, createdAt |-> now, deletedAt |-> NULL, filled |-> {}]
<1>1. r \in Row
  BY DEF TypeOK, Row, Time, Statuses
<1>2. ful' = [ful EXCEPT ![f] = r] /\ ~Exists(f)
  BY DEF Create
<1>3. /\ r.tier = t /\ r.customer = c /\ r.type = type /\ r.status = "DRAFT"
      /\ r.version = 1 /\ r.createdAt = now /\ r.filled = {}
  OBVIOUS
<1> HIDE DEF r
<1>4. ful'[f] = r /\ ful' \in [FulfillmentId -> Row \cup {NULL}]
  BY <1>1, <1>2 DEF TypeOK
<1>5. \A g \in FulfillmentId : g # f => ful'[g] = ful[g]
  BY <1>2 DEF TypeOK
<1>6. Exists(f)'
  BY <1>1, <1>4, NullAssumption DEF Exists
<1>7. timeline' \in [FulfillmentId -> Seq(Event)]
  <2> DEFINE e == [from |-> NULL, to |-> "DRAFT"]
  <2>1. e \in Event
    BY DEF Event, Statuses
  <2>2. timeline' = [timeline EXCEPT ![f] = <<e>>]
    BY DEF Create
  <2> HIDE DEF e
  <2> QED
    BY <2>1, <2>2 DEF TypeOK
<1>8. tier[t].inventory - 1 \in Nat
  <2>1. tier[t].inventory \in Nat
    BY DEF TypeOK, TierRow
  <2> QED
    BY <2>1 DEF Create, Reserve
<1>11. AddInventory(t, -1)
  BY DEF Create, Reserve
<1>9. tier[t].inventory \in Int
  BY DEF TypeOK, TierRow
<1>10. tier[t].inventory + (-1) \in Nat /\ -1 \in Int
  BY <1>8, <1>9
<1>12. /\ tier' \in [Tier -> TierRow]
       /\ tier'[t].inventory = tier[t].inventory + (-1)
       /\ \A u \in Tier : /\ tier'[u].limit = tier[u].limit
                          /\ u # t => tier'[u] = tier[u]
  BY <1>10, <1>11, InventoryEffect
<1> QED
  BY <1>2, <1>3, <1>4, <1>5, <1>6, <1>7, <1>8, <1>9, <1>12

(* Only Cancel touches the stock: one unit back to the tier of f.           *)
LEMMA CancelEffect ==
    ASSUME TypeOK, NEW f \in FulfillmentId, NEW e, Cancel(f, e)
    PROVE  /\ ful[f].tier \in Tier
           /\ tier' \in [Tier -> TierRow]
           /\ tier'[ful[f].tier].inventory = tier[ful[f].tier].inventory + 1
           /\ \A u \in Tier : /\ tier'[u].limit = tier[u].limit
                              /\ u # ful[f].tier => tier'[u] = tier[u]
<1>1. ful[f].tier \in Tier
  BY DEF Cancel, Transition, Live, Exists, TypeOK, Row
<1>2. AddInventory(ful[f].tier, 1)
  BY DEF Cancel, Release
<1>3. tier[ful[f].tier].inventory + 1 \in Nat
  BY <1>1 DEF TypeOK, TierRow
<1> QED
  BY <1>1, <1>2, <1>3, InventoryEffect

LEMMA TypeNext == TypeOK /\ [Next]_vars => TypeOK'
<1> SUFFICES ASSUME TypeOK, [Next]_vars PROVE TypeOK'
  OBVIOUS
<1>1. ASSUME NEW f \in FulfillmentId, NEW c \in Customer, NEW t \in Tier,
             NEW type \in Types, Create(f, c, t, type)
      PROVE  TypeOK'
  <2>1. reservation' \in [FulfillmentId -> {"NONE", "ACTIVE", "VOIDED"}]
    BY <1>1 DEF Create, Reserve, TypeOK
  <2>2. UNCHANGED <<now, customer, address, view>>
    BY <1>1 DEF Create
  <2> QED
    BY <1>1, <2>1, <2>2, CreateEffect DEF TypeOK
<1>2. ASSUME NEW f \in FulfillmentId, NEW e, NEW a \in Address \cup {NULL},
             ReadyToShip(f, e, a)
      PROVE  TypeOK'
  <2>1. Transition(f, e, "READY_TO_SHIP", {"ready_at"})
    BY <1>2 DEF ReadyToShip
  <2>2. /\ ful' \in [FulfillmentId -> Row \cup {NULL}]
        /\ timeline' \in [FulfillmentId -> Seq(Event)]
    BY <2>1, TransitionEffect DEF Statuses, Columns
  <2>3. address' \in [FulfillmentId -> Address \cup {NULL}]
    BY <1>2 DEF ReadyToShip, TypeOK
  <2>4. UNCHANGED <<now, customer, view, tier, reservation>>
    BY <1>2, <2>1 DEF ReadyToShip, Transition
  <2> QED
    BY <2>2, <2>3, <2>4 DEF TypeOK
<1>3. ASSUME NEW f \in FulfillmentId, NEW e, NEW to \in Statuses,
             NEW cs \in SUBSET Columns, Transition(f, e, to, cs),
             UNCHANGED <<tier, reservation, address>>
      PROVE  TypeOK'
  <2>1. /\ ful' \in [FulfillmentId -> Row \cup {NULL}]
        /\ timeline' \in [FulfillmentId -> Seq(Event)]
    BY <1>3, TransitionEffect
  <2>2. UNCHANGED <<now, customer, view, tier, reservation, address>>
    BY <1>3 DEF Transition
  <2> QED
    BY <2>1, <2>2 DEF TypeOK
<1>4. ASSUME NEW f \in FulfillmentId, NEW e,
             Ship(f, e) \/ IssueVoucher(f, e) \/ Deliver(f, e) \/ Complete(f, e) \/ Hold(f, e)
      PROVE  TypeOK'
  <2>1. CASE Ship(f, e)
    BY <1>3, <2>1 DEF Ship, Statuses, Columns
  <2>2. CASE IssueVoucher(f, e)
    BY <1>3, <2>2 DEF IssueVoucher, Statuses, Columns
  <2>3. CASE Deliver(f, e)
    BY <1>3, <2>3 DEF Deliver, Statuses, Columns
  <2>4. CASE Complete(f, e)
    BY <1>3, <2>4 DEF Complete, Statuses, Columns
  <2>5. CASE Hold(f, e)
    BY <1>3, <2>5 DEF Hold, Statuses, Columns
  <2> QED
    BY <1>4, <2>1, <2>2, <2>3, <2>4, <2>5
<1>5. ASSUME NEW f \in FulfillmentId, NEW e, Cancel(f, e)
      PROVE  TypeOK'
  <2>1. Transition(f, e, "CANCELED", {"cancel_reason"})
    BY <1>5 DEF Cancel
  <2>2. /\ ful' \in [FulfillmentId -> Row \cup {NULL}]
        /\ timeline' \in [FulfillmentId -> Seq(Event)]
    BY <2>1, TransitionEffect DEF Statuses, Columns
  <2>3. tier' \in [Tier -> TierRow]
    BY <1>5, CancelEffect
  <2>4. reservation' \in [FulfillmentId -> {"NONE", "ACTIVE", "VOIDED"}]
    BY <1>5 DEF Cancel, Release, TypeOK
  <2>5. UNCHANGED <<now, customer, view, address>>
    BY <1>5, <2>1 DEF Cancel, Transition
  <2> QED
    BY <2>2, <2>3, <2>4, <2>5 DEF TypeOK
<1>6. ASSUME NEW f \in FulfillmentId, NEW e, NEW a \in Address,
             UpdateShippingAddress(f, e, a)
      PROVE  TypeOK'
  <2>1. ful' \in [FulfillmentId -> Row \cup {NULL}]
    BY <1>6, BumpEffect DEF UpdateShippingAddress
  <2>2. address' \in [FulfillmentId -> Address \cup {NULL}]
    BY <1>6 DEF UpdateShippingAddress, TypeOK
  <2>3. UNCHANGED <<now, tier, customer, reservation, timeline, view>>
    BY <1>6 DEF UpdateShippingAddress
  <2> QED
    BY <2>1, <2>2, <2>3 DEF TypeOK
<1>7. ASSUME NEW f \in FulfillmentId, DeleteFulfillment(f) \/ RestoreFulfillment(f)
      PROVE  TypeOK'
  <2>1. PICK at \in Time : ful' = [ful EXCEPT ![f].deletedAt = at]
    BY <1>7 DEF DeleteFulfillment, RestoreFulfillment, Time, TypeOK
  <2>2. Exists(f)
    BY <1>7 DEF DeleteFulfillment, RestoreFulfillment, Live
  <2>3. ful' \in [FulfillmentId -> Row \cup {NULL}]
    BY <2>1, <2>2, DeletedAtEffect
  <2>4. UNCHANGED <<now, tier, customer, reservation, address, timeline, view>>
    BY <1>7 DEF DeleteFulfillment, RestoreFulfillment
  <2> QED
    BY <2>3, <2>4 DEF TypeOK
<1>8. ASSUME NEW t \in Tier, DeleteTier(t) \/ RestoreTier(t)
      PROVE  TypeOK'
  <2>1. PICK at \in Time : tier' = [tier EXCEPT ![t].deletedAt = at]
    BY <1>8 DEF DeleteTier, RestoreTier, Time, TypeOK
  <2>2. tier' \in [Tier -> TierRow]
    BY <2>1, TierDeletedAtEffect
  <2>3. UNCHANGED <<now, customer, ful, reservation, address, timeline, view>>
    BY <1>8 DEF DeleteTier, RestoreTier
  <2> QED
    BY <2>2, <2>3 DEF TypeOK
<1>9. ASSUME NEW c \in Customer, DeleteCustomer(c) \/ RestoreCustomer(c)
      PROVE  TypeOK'
  BY <1>9 DEF DeleteCustomer, RestoreCustomer, Time, TypeOK
<1>10. ASSUME NEW k \in Client, NEW f \in FulfillmentId, Open(k, f)
       PROVE  TypeOK'
  <2> DEFINE p == [id |-> f, version |-> ful[f].version, status |-> ful[f].status,
                   filled |-> ful[f].filled, address |-> NULL, loaded |-> FALSE]
  <2>1. ful[f] \in Row
    BY <1>10 DEF Open, Live, Exists, TypeOK
  <2>2. p \in Page
    BY <2>1 DEF Page, Row
  <2>3. view' = [view EXCEPT ![k] = p]
    BY <1>10 DEF Open
  <2>4. UNCHANGED <<now, tier, customer, ful, reservation, address, timeline>>
    BY <1>10 DEF Open
  <2> HIDE DEF p
  <2> QED
    BY <2>2, <2>3, <2>4 DEF TypeOK
<1>11. ASSUME NEW k \in Client, ReadAddress(k)
       PROVE  TypeOK'
  <2> DEFINE p == [view[k] EXCEPT !.address = address[view[k].id], !.loaded = TRUE]
  <2>1. view[k] \in Page
    BY <1>11 DEF ReadAddress, TypeOK
  <2>2. address[view[k].id] \in Address \cup {NULL}
    BY <2>1 DEF TypeOK, Page
  <2>3. p \in Page
    BY <2>1, <2>2 DEF Page
  <2>4. view' = [view EXCEPT ![k] = p]
    BY <1>11 DEF ReadAddress
  <2>5. UNCHANGED <<now, tier, customer, ful, reservation, address, timeline>>
    BY <1>11 DEF ReadAddress
  <2> HIDE DEF p
  <2> QED
    BY <2>3, <2>4, <2>5 DEF TypeOK
<1>12. CASE Tick
  BY <1>12 DEF Tick, TypeOK
<1>13. CASE UNCHANGED vars
  BY <1>13 DEF vars, TypeOK
<1> QED
  BY <1>1, <1>2, <1>4, <1>5, <1>6, <1>7, <1>8, <1>9, <1>10, <1>11, <1>12, <1>13
     DEF Next, FulfillmentStep

(* Every table keeps the shape its columns and constraints give it: in       *)
(* particular inventory_count never falls below zero, whatever creations,    *)
(* cancellations, deletions and restores meet.                               *)
THEOREM TypeCorrect == Spec => []TypeOK
BY TypeInit, TypeNext, PTL DEF Spec

-----------------------------------------------------------------------------
(* Creation and cancellation are the only steps that move stock.             *)

(* Nothing changes in what the stock and the purchase limit depend on.       *)
Quiet ==
    /\ reservation' = reservation
    /\ \A t \in Tier : /\ tier'[t].inventory = tier[t].inventory
                       /\ tier'[t].limit = tier[t].limit
    /\ \A f \in FulfillmentId :
         /\ Exists(f)' <=> Exists(f)
         /\ Exists(f) =>
              /\ ful'[f].tier = ful[f].tier
              /\ ful'[f].customer = ful[f].customer
              /\ ful'[f].createdAt = ful[f].createdAt
              /\ ful'[f].status = "CANCELED" <=> ful[f].status = "CANCELED"

LEMMA QuietTransition ==
    ASSUME TypeOK, NEW f \in FulfillmentId, NEW e, NEW to \in Statuses \ {"CANCELED"},
           NEW cs \in SUBSET Columns, Transition(f, e, to, cs),
           UNCHANGED <<tier, reservation>>
    PROVE  Quiet
<1>1. SameOrder(f) /\ ful'[f].status = to
  BY TransitionEffect
<1>2. ful[f].status # "CANCELED"
  BY DEF Transition, IsTransitionAllowed, AllowedTransitions
<1>3. Exists(f) /\ Exists(f)'
  BY <1>1 DEF SameOrder
<1>4. \A g \in FulfillmentId : g # f => ful'[g] = ful[g]
  BY <1>1 DEF SameOrder
<1>5. \A g \in FulfillmentId : Exists(g)' <=> Exists(g)
  BY <1>3, <1>4 DEF Exists
<1>6. ASSUME NEW g \in FulfillmentId
      PROVE  /\ ful'[g].tier = ful[g].tier
             /\ ful'[g].customer = ful[g].customer
             /\ ful'[g].createdAt = ful[g].createdAt
             /\ ful'[g].status = "CANCELED" <=> ful[g].status = "CANCELED"
  BY <1>1, <1>2, <1>4 DEF SameOrder
<1> QED
  BY <1>5, <1>6 DEF Quiet

LEMMA QuietUpdate ==
    ASSUME NEW f \in FulfillmentId, SameOrder(f), ful'[f].status = ful[f].status,
           UNCHANGED <<tier, reservation>>
    PROVE  Quiet
<1>1. \A g \in FulfillmentId : g # f => ful'[g] = ful[g]
  BY DEF SameOrder
<1>2. \A g \in FulfillmentId : Exists(g)' <=> Exists(g)
  BY <1>1 DEF SameOrder, Exists
<1>3. ASSUME NEW g \in FulfillmentId
      PROVE  /\ ful'[g].tier = ful[g].tier
             /\ ful'[g].customer = ful[g].customer
             /\ ful'[g].createdAt = ful[g].createdAt
             /\ ful'[g].status = "CANCELED" <=> ful[g].status = "CANCELED"
  BY <1>1 DEF SameOrder
<1> QED
  BY <1>2, <1>3 DEF Quiet

LEMMA StepKinds ==
    ASSUME TypeOK, [Next]_vars
    PROVE  \/ \E f \in FulfillmentId, c \in Customer, t \in Tier, type \in Types :
                Create(f, c, t, type)
           \/ \E f \in FulfillmentId : \E e \in 0 .. MaxVersion : Cancel(f, e)
           \/ Quiet
<1>1. ASSUME NEW f \in FulfillmentId, NEW e, NEW a, ReadyToShip(f, e, a)
      PROVE  Quiet
  BY <1>1, QuietTransition DEF ReadyToShip, Statuses, Columns
<1>2. ASSUME NEW f \in FulfillmentId, NEW e, Ship(f, e)
      PROVE  Quiet
  BY <1>2, QuietTransition DEF Ship, Statuses, Columns
<1>3. ASSUME NEW f \in FulfillmentId, NEW e, IssueVoucher(f, e)
      PROVE  Quiet
  BY <1>3, QuietTransition DEF IssueVoucher, Statuses, Columns
<1>4. ASSUME NEW f \in FulfillmentId, NEW e, Deliver(f, e)
      PROVE  Quiet
  BY <1>4, QuietTransition DEF Deliver, Statuses, Columns
<1>5. ASSUME NEW f \in FulfillmentId, NEW e, Complete(f, e)
      PROVE  Quiet
  BY <1>5, QuietTransition DEF Complete, Statuses, Columns
<1>6. ASSUME NEW f \in FulfillmentId, NEW e, Hold(f, e)
      PROVE  Quiet
  BY <1>6, QuietTransition DEF Hold, Statuses, Columns
<1>7. ASSUME NEW f \in FulfillmentId, NEW e, NEW a, UpdateShippingAddress(f, e, a)
      PROVE  Quiet
  BY <1>7, BumpEffect, QuietUpdate DEF UpdateShippingAddress
<1>8. ASSUME NEW f \in FulfillmentId, DeleteFulfillment(f) \/ RestoreFulfillment(f)
      PROVE  Quiet
  <2>1. PICK at \in Time : ful' = [ful EXCEPT ![f].deletedAt = at]
    BY <1>8 DEF DeleteFulfillment, RestoreFulfillment, Time, TypeOK
  <2>2. Exists(f) /\ UNCHANGED <<tier, reservation>>
    BY <1>8 DEF DeleteFulfillment, RestoreFulfillment, Live
  <2> QED
    BY <2>1, <2>2, DeletedAtEffect, QuietUpdate
<1>9. ASSUME NEW t \in Tier, DeleteTier(t) \/ RestoreTier(t)
      PROVE  Quiet
  <2>1. PICK at \in Time : tier' = [tier EXCEPT ![t].deletedAt = at]
    BY <1>9 DEF DeleteTier, RestoreTier, Time, TypeOK
  <2>2. \A u \in Tier : /\ tier'[u].limit = tier[u].limit
                        /\ tier'[u].inventory = tier[u].inventory
    BY <2>1, TierDeletedAtEffect
  <2>3. UNCHANGED <<ful, reservation>>
    BY <1>9 DEF DeleteTier, RestoreTier
  <2> QED
    BY <2>2, <2>3 DEF Quiet, Exists
<1>10. ASSUME UNCHANGED <<tier, ful, reservation>>
       PROVE  Quiet
  BY <1>10 DEF Quiet, Exists
<1>11. ASSUME NEW c \in Customer, DeleteCustomer(c) \/ RestoreCustomer(c)
       PROVE  Quiet
  BY <1>11, <1>10 DEF DeleteCustomer, RestoreCustomer
<1>12. ASSUME NEW k \in Client, NEW f \in FulfillmentId, Open(k, f)
       PROVE  Quiet
  BY <1>12, <1>10 DEF Open
<1>13. ASSUME NEW k \in Client, ReadAddress(k)
       PROVE  Quiet
  BY <1>13, <1>10 DEF ReadAddress
<1>14. CASE Tick
  BY <1>14, <1>10 DEF Tick
<1>15. CASE UNCHANGED vars
  BY <1>15, <1>10 DEF vars
<1> QED
  BY <1>1, <1>2, <1>3, <1>4, <1>5, <1>6, <1>7, <1>8, <1>9, <1>11, <1>12, <1>13,
     <1>14, <1>15 DEF Next, FulfillmentStep

-----------------------------------------------------------------------------
(* Reservations *)

LEMMA ReservationNext ==
    ASSUME TypeOK, ReservationFollowsStatus, [Next]_vars
    PROVE  ReservationFollowsStatus'
<1>1. ASSUME NEW f \in FulfillmentId, NEW c \in Customer, NEW t \in Tier,
             NEW type \in Types, Create(f, c, t, type)
      PROVE  ReservationFollowsStatus'
  <2>1. /\ Exists(f)'
        /\ ful'[f].status = "DRAFT"
        /\ \A g \in FulfillmentId : g # f => ful'[g] = ful[g]
    BY <1>1, CreateEffect
  <2>2. reservation' = [reservation EXCEPT ![f] = "ACTIVE"]
    BY <1>1 DEF Create, Reserve
  <2> QED
    BY <2>1, <2>2 DEF ReservationFollowsStatus, Exists, TypeOK
<1>2. ASSUME NEW f \in FulfillmentId, NEW e, Cancel(f, e)
      PROVE  ReservationFollowsStatus'
  <2>1. Transition(f, e, "CANCELED", {"cancel_reason"})
    BY <1>2 DEF Cancel
  <2>2. SameOrder(f) /\ ful'[f].status = "CANCELED"
    BY <2>1, TransitionEffect DEF Statuses, Columns
  <2>3. ful[f].status # "CANCELED"
    BY <2>1 DEF Transition, IsTransitionAllowed, AllowedTransitions
  <2>4. reservation[f] = "ACTIVE"
    BY <2>2, <2>3 DEF ReservationFollowsStatus, SameOrder
  <2>5. reservation' = [reservation EXCEPT ![f] = "VOIDED"]
    BY <1>2, <2>4 DEF Cancel, Release
  <2> QED
    BY <2>2, <2>5 DEF ReservationFollowsStatus, SameOrder, Exists, TypeOK
<1>3. CASE Quiet
  BY <1>3 DEF Quiet, ReservationFollowsStatus
<1> QED
  BY <1>1, <1>2, <1>3, StepKinds

(* A fulfillment holds one unit from its creation to its cancellation, and   *)
(* none afterwards (InventoryService.Reserve and Release).                   *)
THEOREM ReservationCorrect == Spec => []ReservationFollowsStatus
<1>1. Init => ReservationFollowsStatus
  BY DEF Init, ReservationFollowsStatus, Exists
<1>2. TypeOK /\ ReservationFollowsStatus /\ [Next]_vars => ReservationFollowsStatus'
  BY ReservationNext
<1> QED
  BY <1>1, <1>2, TypeCorrect, PTL DEF Spec

-----------------------------------------------------------------------------
(* Stock *)

LEMMA HoldingFinite ==
    \A t \in Tier : IsFiniteSet(Holding(t)) /\ Cardinality(Holding(t)) \in Nat
<1> TAKE t \in Tier
<1>1. Holding(t) \subseteq FulfillmentId
  BY DEF Holding
<1> QED
  BY <1>1, FulfillmentAssumption, FS_Subset, FS_CardinalityType

(* No step changes the sum of what is on the shelf of a tier and what is held. *)
LEMMA StockStep ==
    ASSUME TypeOK, ReservationFollowsStatus, [Next]_vars, NEW u \in Tier
    PROVE  tier'[u].inventory + Cardinality(Holding(u)') =
             tier[u].inventory + Cardinality(Holding(u))
<1>1. tier[u].inventory \in Int /\ Cardinality(Holding(u)) \in Int
  BY HoldingFinite DEF TypeOK, TierRow
<1>2. ASSUME NEW f \in FulfillmentId, NEW c \in Customer, NEW t \in Tier,
             NEW type \in Types, Create(f, c, t, type)
      PROVE  tier'[u].inventory + Cardinality(Holding(u)') =
               tier[u].inventory + Cardinality(Holding(u))
  <2>1. /\ ~Exists(f) /\ Exists(f)'
        /\ ful'[f].tier = t
        /\ \A g \in FulfillmentId : g # f => ful'[g] = ful[g]
        /\ tier'[t].inventory = tier[t].inventory - 1
        /\ \A v \in Tier : v # t => tier'[v] = tier[v]
    BY <1>2, CreateEffect
  <2>2. reservation' = [reservation EXCEPT ![f] = "ACTIVE"]
    BY <1>2 DEF Create, Reserve
  <2>3. CASE u = t
    <3>1. f \notin Holding(u) /\ Holding(u)' = Holding(u) \cup {f}
      BY <2>1, <2>2, <2>3 DEF Holding, Exists, TypeOK
    <3>2. Cardinality(Holding(u)') = Cardinality(Holding(u)) + 1
      BY <3>1, HoldingFinite, FS_AddElement
    <3> QED
      BY <1>1, <2>1, <2>3, <3>2
  <2>4. CASE u # t
    <3>1. Holding(u)' = Holding(u)
      BY <2>1, <2>2, <2>4 DEF Holding, Exists, TypeOK
    <3> QED
      BY <2>1, <2>4, <3>1
  <2> QED
    BY <2>3, <2>4
<1>3. ASSUME NEW f \in FulfillmentId, NEW e, Cancel(f, e)
      PROVE  tier'[u].inventory + Cardinality(Holding(u)') =
               tier[u].inventory + Cardinality(Holding(u))
  <2>0. PICK t \in Tier : t = ful[f].tier
    BY <1>3, CancelEffect
  <2>1. Transition(f, e, "CANCELED", {"cancel_reason"})
    BY <1>3 DEF Cancel
  <2>2. SameOrder(f) /\ ful'[f].status = "CANCELED"
    BY <2>1, TransitionEffect DEF Statuses, Columns
  <2>3. ful[f].status # "CANCELED"
    BY <2>1 DEF Transition, IsTransitionAllowed, AllowedTransitions
  <2>4. reservation[f] = "ACTIVE"
    BY <2>2, <2>3 DEF ReservationFollowsStatus, SameOrder
  <2>5. reservation' = [reservation EXCEPT ![f] = "VOIDED"]
    BY <1>3, <2>4 DEF Cancel, Release
  <2>6. /\ tier'[t].inventory = tier[t].inventory + 1
        /\ \A v \in Tier : v # t => tier'[v] = tier[v]
    BY <1>3, <2>0, CancelEffect
  <2>7. CASE u = t
    <3>1. f \in Holding(u) /\ Holding(u)' = Holding(u) \ {f}
      BY <2>0, <2>2, <2>4, <2>5, <2>7 DEF Holding, SameOrder, Exists, TypeOK
    <3>2. Cardinality(Holding(u)') = Cardinality(Holding(u)) - 1
      BY <3>1, HoldingFinite, FS_RemoveElement
    <3> QED
      BY <1>1, <2>6, <2>7, <3>2
  <2>8. CASE u # t
    <3>1. Holding(u)' = Holding(u)
      BY <2>0, <2>2, <2>4, <2>5, <2>8 DEF Holding, SameOrder, Exists, TypeOK
    <3> QED
      BY <2>6, <2>8, <3>1
  <2> QED
    BY <2>7, <2>8
<1>4. CASE Quiet
  <2>1. Holding(u)' = Holding(u)
    BY <1>4 DEF Quiet, Holding
  <2> QED
    BY <1>4, <2>1 DEF Quiet
<1> QED
  BY <1>2, <1>3, <1>4, StepKinds

LEMMA StockNext ==
    ASSUME TypeOK, ReservationFollowsStatus, StockConserved, [Next]_vars
    PROVE  StockConserved'
BY StockStep DEF StockConserved

(* No unit of stock is lost or invented, for any number of concurrent        *)
(* fulfillments and any order of their operations.                           *)
THEOREM StockCorrect == Spec => []StockConserved
<1>1. Init => StockConserved
  <2> SUFFICES ASSUME Init, NEW t \in Tier
               PROVE  tier[t].inventory + Cardinality(Holding(t)) = Stock[t]
    BY DEF StockConserved
  <2>1. Holding(t) = {}
    BY DEF Init, Holding, Exists
  <2>2. Cardinality(Holding(t)) = 0
    BY <2>1, FS_EmptySet
  <2>3. tier[t].inventory = Stock[t] /\ Stock[t] \in Nat
    BY FulfillmentAssumption DEF Init
  <2> QED
    BY <2>2, <2>3
<1>2. TypeOK /\ ReservationFollowsStatus /\ StockConserved /\ [Next]_vars => StockConserved'
  BY StockNext
<1> QED
  BY <1>1, <1>2, TypeCorrect, ReservationCorrect, PTL DEF Spec

-----------------------------------------------------------------------------
(* The purchase limit *)

LEMMA ClockNext == ASSUME TypeOK, [Next]_vars PROVE now' >= now
<1>1. ASSUME NEW f \in FulfillmentId, FulfillmentStep(f)
      PROVE  now' = now
  BY <1>1 DEF FulfillmentStep, Create, Transition, ReadyToShip, Ship, IssueVoucher,
     Deliver, Complete, Hold, Cancel, UpdateShippingAddress, DeleteFulfillment,
     RestoreFulfillment, Open
<1>2. CASE Tick
  BY <1>2 DEF Tick, TypeOK
<1>3. ASSUME NEW t \in Tier, DeleteTier(t) \/ RestoreTier(t)
      PROVE  now' = now
  BY <1>3 DEF DeleteTier, RestoreTier
<1>4. ASSUME NEW c \in Customer, DeleteCustomer(c) \/ RestoreCustomer(c)
      PROVE  now' = now
  BY <1>4 DEF DeleteCustomer, RestoreCustomer
<1>5. ASSUME NEW k \in Client, ReadAddress(k)
      PROVE  now' = now
  BY <1>5 DEF ReadAddress
<1>6. CASE UNCHANGED vars
  BY <1>6 DEF vars, TypeOK
<1>7. now' = now => now' >= now
  BY DEF TypeOK
<1> QED
  BY <1>1, <1>2, <1>3, <1>4, <1>5, <1>6, <1>7 DEF Next

(* A window is counted when its last purchase is made, so the invariant      *)
(* needs every purchase to lie in the past.                                  *)
CreatedInPast == \A f \in FulfillmentId : Exists(f) => ful[f].createdAt <= now

LimitInv == CreatedInPast /\ RollingLimit

LEMMA WindowFinite ==
    \A f \in FulfillmentId : IsFiniteSet(WindowOf(f)) /\ Cardinality(WindowOf(f)) \in Nat
<1> TAKE f \in FulfillmentId
<1>1. WindowOf(f) \subseteq FulfillmentId
  BY DEF WindowOf
<1> QED
  BY <1>1, FulfillmentAssumption, FS_Subset, FS_CardinalityType

LEMMA PastNext ==
    ASSUME TypeOK, CreatedInPast, [Next]_vars
    PROVE  CreatedInPast'
<1> SUFFICES ASSUME NEW f \in FulfillmentId, Exists(f)'
             PROVE  ful'[f].createdAt <= now'
  BY DEF CreatedInPast
<1>1. now' >= now /\ now \in Int /\ now' \in Int
  BY ClockNext, TypeNext DEF TypeOK
<1>2. Exists(f) => ful[f].createdAt \in Int /\ ful[f].createdAt <= now
  BY DEF CreatedInPast, TypeOK, Exists, Row
<1>3. ASSUME NEW g \in FulfillmentId, NEW c \in Customer, NEW t \in Tier,
             NEW type \in Types, Create(g, c, t, type)
      PROVE  ful'[f].createdAt <= now'
  <2>1. /\ ful'[g].createdAt = now
        /\ \A h \in FulfillmentId : h # g => ful'[h] = ful[h]
    BY <1>3, CreateEffect
  <2>2. CASE f = g
    BY <1>1, <2>1, <2>2
  <2>3. CASE f # g
    BY <1>1, <1>2, <2>1, <2>3 DEF Exists
  <2> QED
    BY <2>2, <2>3
<1>4. ASSUME NEW g \in FulfillmentId, NEW e, Cancel(g, e)
      PROVE  ful'[f].createdAt <= now'
  <2>1. SameOrder(g)
    BY <1>4, TransitionEffect DEF Cancel, Statuses, Columns
  <2>2. Exists(f) /\ ful'[f].createdAt = ful[f].createdAt
    BY <2>1 DEF SameOrder, Exists
  <2> QED
    BY <1>1, <1>2, <2>2
<1>5. CASE Quiet
  BY <1>1, <1>2, <1>5 DEF Quiet
<1> QED
  BY <1>3, <1>4, <1>5, StepKinds

LEMMA LimitCreate ==
    ASSUME TypeOK, LimitInv, NEW f \in FulfillmentId, NEW c \in Customer,
           NEW t \in Tier, NEW type \in Types, Create(f, c, t, type),
           NEW g \in FulfillmentId, Exists(g)'
    PROVE  Cardinality(WindowOf(g)') <= tier'[ful'[g].tier].limit
<1> DEFINE P == Purchases(c, t, now - PurchaseWindow)
<1>1. /\ ~Exists(f) /\ Exists(f)'
      /\ ful'[f].tier = t
      /\ ful'[f].customer = c
      /\ ful'[f].createdAt = now
      /\ \A h \in FulfillmentId : h # f => ful'[h] = ful[h]
      /\ \A u \in Tier : tier'[u].limit = tier[u].limit
  BY CreateEffect
<1>2. /\ now \in Int /\ PurchaseWindow \in Int
      /\ \A h \in FulfillmentId :
           Exists(h) => ful[h].createdAt \in Int /\ ful[h].createdAt <= now /\ ful[h].tier \in Tier
  BY FulfillmentAssumption DEF TypeOK, Exists, Row, LimitInv, CreatedInPast
<1>3. IsFiniteSet(P) /\ Cardinality(P) \in Nat
  <2>1. P \subseteq FulfillmentId
    BY DEF Purchases
  <2> QED
    BY <2>1, FulfillmentAssumption, FS_Subset, FS_CardinalityType
<1>4. Cardinality(P) < tier[t].limit /\ tier[t].limit \in Nat
  BY DEF Create, CountByCustomerAndTier, TypeOK, TierRow
<1>5. IsFiniteSet(P \cup {f}) /\ Cardinality(P \cup {f}) \in Nat
      /\ Cardinality(P \cup {f}) <= tier[t].limit
  <2>1. f \notin P
    BY <1>1 DEF Purchases
  <2> QED
    BY <1>3, <1>4, <2>1, FS_AddElement
<1>6. CASE f \in WindowOf(g)'
  <2>1. /\ ful'[g].customer = c /\ ful'[g].tier = t
        /\ now <= ful'[g].createdAt
    BY <1>1, <1>6 DEF WindowOf
  <2>2. ful'[g].createdAt = now
    BY <1>1, <1>2, <2>1 DEF Exists
  <2>3. WindowOf(g)' \subseteq P \cup {f}
    BY <1>1, <2>1, <2>2 DEF WindowOf, Purchases, Exists
  <2>4. Cardinality(WindowOf(g)') <= Cardinality(P \cup {f})
    BY <1>5, <2>3, FS_Subset
  <2>5. Cardinality(WindowOf(g)') \in Nat
    BY <1>5, <2>3, FS_Subset, FS_CardinalityType
  <2> QED
    BY <1>1, <1>4, <1>5, <2>1, <2>4, <2>5
<1>7. CASE f \notin WindowOf(g)'
  <2>1. g # f
    <3>1. now >= now - PurchaseWindow /\ now <= now
      BY <1>2, FulfillmentAssumption
    <3>2. ful'[f].status # "CANCELED"
      BY CreateEffect
    <3> QED
      BY <1>1, <1>7, <3>1, <3>2 DEF WindowOf
  <2>2. Exists(g) /\ ful'[g] = ful[g]
    BY <1>1, <2>1 DEF Exists
  <2>3. WindowOf(g)' = WindowOf(g)
    BY <1>1, <1>7, <2>2 DEF WindowOf, Exists
  <2> QED
    BY <1>1, <1>2, <2>2, <2>3 DEF LimitInv, RollingLimit
<1> QED
  BY <1>6, <1>7

LEMMA LimitNext ==
    ASSUME TypeOK, LimitInv, [Next]_vars
    PROVE  RollingLimit'
<1> SUFFICES ASSUME NEW g \in FulfillmentId, Exists(g)'
             PROVE  Cardinality(WindowOf(g)') <= tier'[ful'[g].tier].limit
  BY DEF RollingLimit
<1>1. ASSUME NEW f \in FulfillmentId, NEW c \in Customer, NEW t \in Tier,
             NEW type \in Types, Create(f, c, t, type)
      PROVE  Cardinality(WindowOf(g)') <= tier'[ful'[g].tier].limit
  BY <1>1, LimitCreate
<1>2. ASSUME NEW f \in FulfillmentId, NEW e, Cancel(f, e)
      PROVE  Cardinality(WindowOf(g)') <= tier'[ful'[g].tier].limit
  <2>1. SameOrder(f) /\ ful'[f].status = "CANCELED"
    BY <1>2, TransitionEffect DEF Cancel, Statuses, Columns
  <2>2. Exists(g) /\ ful'[g].tier = ful[g].tier /\ ful[g].tier \in Tier
    BY <2>1 DEF SameOrder, Exists, TypeOK, Row
  <2>3. WindowOf(g)' \subseteq WindowOf(g)
    BY <2>1 DEF WindowOf, SameOrder, Exists
  <2>4. /\ Cardinality(WindowOf(g)') <= Cardinality(WindowOf(g))
        /\ Cardinality(WindowOf(g)') \in Nat
    BY <2>3, WindowFinite, FS_Subset, FS_CardinalityType
  <2>5. tier'[ful'[g].tier].limit = tier[ful[g].tier].limit
    BY <1>2, <2>2, CancelEffect
  <2>6. Cardinality(WindowOf(g)) <= tier[ful[g].tier].limit
    BY <2>2 DEF LimitInv, RollingLimit
  <2>7. Cardinality(WindowOf(g)) \in Nat /\ tier[ful[g].tier].limit \in Nat
    BY <2>2, WindowFinite DEF TypeOK, TierRow
  <2> QED
    BY <2>4, <2>5, <2>6, <2>7
<1>3. CASE Quiet
  <2>1. Exists(g) /\ ful'[g].tier = ful[g].tier /\ ful[g].tier \in Tier
    BY <1>3 DEF Quiet, Exists, TypeOK, Row
  <2>2. WindowOf(g)' = WindowOf(g)
    BY <1>3, <2>1 DEF Quiet, WindowOf
  <2> QED
    BY <1>3, <2>1, <2>2 DEF Quiet, LimitInv, RollingLimit
<1> QED
  BY <1>1, <1>2, <1>3, StepKinds

(* No rolling window of purchaseWindow holds more purchases of a tier by one *)
(* customer than its limit, whatever was deleted, restored or canceled while *)
(* the purchases were made (FulfillmentService.Create).                      *)
THEOREM LimitCorrect == Spec => []RollingLimit
<1>1. Init => LimitInv
  BY DEF Init, LimitInv, CreatedInPast, RollingLimit, Exists
<1>2. TypeOK /\ LimitInv /\ [Next]_vars => LimitInv'
  BY PastNext, LimitNext DEF LimitInv
<1>3. LimitInv => RollingLimit
  BY DEF LimitInv
<1> QED
  BY <1>1, <1>2, <1>3, TypeCorrect, PTL DEF Spec

-----------------------------------------------------------------------------
(* Versions *)

(* No page shows a row that was not there when it was read, so a creation    *)
(* never meets a page of its own id.                                         *)
PageInv ==
    /\ \A k \in Client : view[k] # NULL => Exists(view[k].id)
    /\ VersionIdentifiesRow

(* A step that raises the version of f outdates every page of f, so it may   *)
(* change the rest of f as it likes.                                         *)
LEMMA VersionedUpdate ==
    ASSUME TypeOK, PageInv, NEW f \in FulfillmentId, SameOrder(f),
           ful'[f].version = ful[f].version + 1,
           \A g \in FulfillmentId : g # f => address'[g] = address[g],
           UNCHANGED view
    PROVE  PageInv'
<1> SUFFICES ASSUME NEW k \in Client, view[k] # NULL
             PROVE  Exists(view[k].id)' /\ PageIsCurrent(k)'
  BY DEF PageInv, VersionIdentifiesRow, PageIsCurrent
<1>1. view[k] \in Page /\ view[k].id \in FulfillmentId /\ view[k].version \in Int
  BY DEF TypeOK, Page
<1>2. Exists(view[k].id) /\ PageIsCurrent(k)
  BY DEF PageInv, VersionIdentifiesRow
<1>3. CASE view[k].id = f
  <2>1. ful[f].version \in Int /\ Exists(f)'
    BY DEF SameOrder, Row
  <2>2. view[k].version <= ful[f].version
    BY <1>2, <1>3 DEF PageIsCurrent
  <2>3. view[k].version <= ful'[f].version /\ view[k].version # ful'[f].version
    BY <1>1, <2>1, <2>2
  <2> QED
    BY <1>3, <2>1, <2>3 DEF PageIsCurrent
<1>4. CASE view[k].id # f
  <2>1. ful'[view[k].id] = ful[view[k].id] /\ address'[view[k].id] = address[view[k].id]
    BY <1>1, <1>4 DEF SameOrder
  <2> QED
    BY <1>2, <2>1 DEF PageIsCurrent, Exists
<1> QED
  BY <1>3, <1>4

(* A step that leaves version, status, columns and address of every existing *)
(* row alone keeps the pages as good as they were.                           *)
LEMMA InvisibleUpdate ==
    ASSUME TypeOK, PageInv, UNCHANGED view,
           \A g \in FulfillmentId : Exists(g) =>
              /\ Exists(g)'
              /\ ful'[g].version = ful[g].version
              /\ ful'[g].status = ful[g].status
              /\ ful'[g].filled = ful[g].filled
              /\ address'[g] = address[g]
    PROVE  PageInv'
<1> SUFFICES ASSUME NEW k \in Client, view[k] # NULL
             PROVE  Exists(view[k].id)' /\ PageIsCurrent(k)'
  BY DEF PageInv, VersionIdentifiesRow, PageIsCurrent
<1>1. view[k].id \in FulfillmentId
  BY DEF TypeOK, Page
<1>2. Exists(view[k].id) /\ PageIsCurrent(k)
  BY DEF PageInv, VersionIdentifiesRow
<1> QED
  BY <1>1, <1>2 DEF PageIsCurrent

LEMMA PageNext ==
    ASSUME TypeOK, PageInv, [Next]_vars
    PROVE  PageInv'
<1>1. ASSUME NEW f \in FulfillmentId, NEW c \in Customer, NEW t \in Tier,
             NEW type \in Types, Create(f, c, t, type)
      PROVE  PageInv'
  <2>1. /\ ~Exists(f)
        /\ \A g \in FulfillmentId : g # f => ful'[g] = ful[g]
    BY <1>1, CreateEffect
  <2>2. UNCHANGED <<view, address>>
    BY <1>1 DEF Create
  <2> QED
    BY <2>1, <2>2, InvisibleUpdate DEF Exists
<1>2. ASSUME NEW f \in FulfillmentId, NEW e, NEW to \in Statuses,
             NEW cs \in SUBSET Columns, Transition(f, e, to, cs),
             \A g \in FulfillmentId : g # f => address'[g] = address[g]
      PROVE  PageInv'
  <2>1. SameOrder(f) /\ ful'[f].version = ful[f].version + 1
    BY <1>2, TransitionEffect
  <2>2. UNCHANGED view
    BY <1>2 DEF Transition
  <2> QED
    BY <1>2, <2>1, <2>2, VersionedUpdate
<1>3. ASSUME NEW f \in FulfillmentId, NEW e, NEW a, ReadyToShip(f, e, a)
      PROVE  PageInv'
  BY <1>2, <1>3 DEF ReadyToShip, Statuses, Columns, TypeOK
<1>4. ASSUME NEW f \in FulfillmentId, NEW e, Ship(f, e)
      PROVE  PageInv'
  BY <1>2, <1>4 DEF Ship, Statuses, Columns
<1>5. ASSUME NEW f \in FulfillmentId, NEW e, IssueVoucher(f, e)
      PROVE  PageInv'
  BY <1>2, <1>5 DEF IssueVoucher, Statuses, Columns
<1>6. ASSUME NEW f \in FulfillmentId, NEW e, Deliver(f, e)
      PROVE  PageInv'
  BY <1>2, <1>6 DEF Deliver, Statuses, Columns
<1>7. ASSUME NEW f \in FulfillmentId, NEW e, Complete(f, e)
      PROVE  PageInv'
  BY <1>2, <1>7 DEF Complete, Statuses, Columns
<1>8. ASSUME NEW f \in FulfillmentId, NEW e, Hold(f, e)
      PROVE  PageInv'
  BY <1>2, <1>8 DEF Hold, Statuses, Columns
<1>9. ASSUME NEW f \in FulfillmentId, NEW e, Cancel(f, e)
      PROVE  PageInv'
  BY <1>2, <1>9 DEF Cancel, Statuses, Columns
<1>10. ASSUME NEW f \in FulfillmentId, NEW e, NEW a, UpdateShippingAddress(f, e, a)
       PROVE  PageInv'
  <2>1. SameOrder(f) /\ ful'[f].version = ful[f].version + 1
    BY <1>10, BumpEffect DEF UpdateShippingAddress
  <2>2. /\ UNCHANGED view
        /\ \A g \in FulfillmentId : g # f => address'[g] = address[g]
    BY <1>10 DEF UpdateShippingAddress, TypeOK
  <2> QED
    BY <2>1, <2>2, VersionedUpdate
<1>11. ASSUME NEW f \in FulfillmentId, DeleteFulfillment(f) \/ RestoreFulfillment(f)
       PROVE  PageInv'
  <2>1. PICK at \in Time : ful' = [ful EXCEPT ![f].deletedAt = at]
    BY <1>11 DEF DeleteFulfillment, RestoreFulfillment, Time, TypeOK
  <2>2. Exists(f) /\ UNCHANGED <<view, address>>
    BY <1>11 DEF DeleteFulfillment, RestoreFulfillment, Live
  <2>3. /\ SameOrder(f)
        /\ ful'[f].status = ful[f].status
        /\ ful'[f].filled = ful[f].filled
        /\ ful'[f].version = ful[f].version
    BY <2>1, <2>2, DeletedAtEffect
  <2> QED
    BY <2>2, <2>3, InvisibleUpdate DEF SameOrder, Exists
<1>12. ASSUME UNCHANGED <<ful, address, view>>
       PROVE  PageInv'
  BY <1>12, InvisibleUpdate DEF Exists
<1>13. ASSUME NEW t \in Tier, DeleteTier(t) \/ RestoreTier(t)
       PROVE  PageInv'
  BY <1>12, <1>13 DEF DeleteTier, RestoreTier
<1>14. ASSUME NEW c \in Customer, DeleteCustomer(c) \/ RestoreCustomer(c)
       PROVE  PageInv'
  BY <1>12, <1>14 DEF DeleteCustomer, RestoreCustomer
<1>15. ASSUME NEW k \in Client, NEW p, UNCHANGED <<ful, address>>,
              view' = [view EXCEPT ![k] = p],
              Exists(p.id),
              p.version <= ful[p.id].version,
              p.version = ful[p.id].version =>
                /\ p.status = ful[p.id].status
                /\ p.filled = ful[p.id].filled
                /\ p.loaded => p.address = address[p.id]
       PROVE  PageInv'
  <2>1. view'[k] = p /\ \A j \in Client : j # k => view'[j] = view[j]
    BY <1>15 DEF TypeOK
  <2>2. ASSUME NEW j \in Client, view'[j] # NULL
        PROVE  Exists(view[j].id)' /\ PageIsCurrent(j)'
    <3>1. CASE j = k
      BY <1>15, <2>1, <3>1 DEF PageIsCurrent, Exists
    <3>2. CASE j # k
      <4>1. Exists(view[j].id) /\ PageIsCurrent(j)
        BY <2>1, <2>2, <3>2 DEF PageInv, VersionIdentifiesRow
      <4> QED
        BY <1>15, <2>1, <3>2, <4>1 DEF PageIsCurrent, Exists
    <3> QED
      BY <3>1, <3>2
  <2> QED
    BY <2>2 DEF PageInv, VersionIdentifiesRow, PageIsCurrent
<1>16. ASSUME NEW k \in Client, NEW f \in FulfillmentId, Open(k, f)
       PROVE  PageInv'
  <2>1. PICK p : p = [id |-> f, version |-> ful[f].version, status |-> ful[f].status,
                      filled |-> ful[f].filled, address |-> NULL, loaded |-> FALSE]
    OBVIOUS
  <2>2. view' = [view EXCEPT ![k] = p] /\ Exists(f) /\ UNCHANGED <<ful, address>>
    BY <1>16, <2>1 DEF Open, Live
  <2>3. /\ p.id = f /\ p.version = ful[f].version /\ p.status = ful[f].status
        /\ p.filled = ful[f].filled /\ p.loaded = FALSE
    BY <2>1
  <2>4. ful[f].version <= ful[f].version
    BY <2>2 DEF TypeOK, Exists, Row
  <2> QED
    BY <1>15, <2>2, <2>3, <2>4
<1>17. ASSUME NEW k \in Client, ReadAddress(k)
       PROVE  PageInv'
  <2>1. PICK p : p = [view[k] EXCEPT !.address = address[view[k].id], !.loaded = TRUE]
    OBVIOUS
  <2>2. /\ view' = [view EXCEPT ![k] = p] /\ view[k] \in Page
        /\ view[k] # NULL /\ UNCHANGED <<ful, address>>
    BY <1>17, <2>1 DEF ReadAddress, TypeOK
  <2>3. /\ p.id = view[k].id /\ p.version = view[k].version /\ p.status = view[k].status
        /\ p.filled = view[k].filled /\ p.address = address[view[k].id]
    BY <2>1, <2>2 DEF Page
  <2>4. Exists(view[k].id) /\ PageIsCurrent(k)
    BY <2>2 DEF PageInv, VersionIdentifiesRow
  <2> QED
    BY <1>15, <2>2, <2>3, <2>4 DEF PageIsCurrent
<1>18. CASE Tick
  BY <1>12, <1>18 DEF Tick
<1>19. CASE UNCHANGED vars
  BY <1>12, <1>19 DEF vars
<1> QED
  BY <1>1, <1>3, <1>4, <1>5, <1>6, <1>7, <1>8, <1>9, <1>10, <1>11, <1>13, <1>14,
     <1>16, <1>17, <1>18, <1>19 DEF Next, FulfillmentStep

(* A page whose version is still the row's shows the row as it is, so that a *)
(* request accepted with that version was decided on what is stored (every   *)
(* statement that changes status, columns or address raises the version).    *)
THEOREM VersionCorrect == Spec => []VersionIdentifiesRow
<1>1. Init => PageInv
  BY DEF Init, PageInv, VersionIdentifiesRow, PageIsCurrent
<1>2. TypeOK /\ PageInv /\ [Next]_vars => PageInv'
  BY PageNext
<1>3. PageInv => VersionIdentifiesRow
  BY DEF PageInv
<1> QED
  BY <1>1, <1>2, <1>3, TypeCorrect, PTL DEF Spec

-----------------------------------------------------------------------------
(* The life of one fulfillment *)

(* Every target of Transition with the columns it fills.                     *)
Fills ==
    { <<"READY_TO_SHIP", {"ready_at"}>>, <<"SHIPPED", {"shipped_at"}>>,
      <<"VOUCHER_ISSUED", {"voucher_code"}>>, <<"DELIVERED", {"delivered_at"}>>,
      <<"COMPLETED", {"completed_at"}>>, <<"ON_HOLD", {"hold_reason"}>>,
      <<"CANCELED", {"cancel_reason"}>> }

(* An address is replaced, never taken away.                                 *)
AddressesStay == \A f \in FulfillmentId : address[f] # NULL => address'[f] # NULL

(* One fulfillment moves on; made ready, a physical one has its address.     *)
Progress(f, to, cs) ==
    /\ <<to, cs>> \in Fills
    /\ \E e : Transition(f, e, to, cs)
    /\ to = "READY_TO_SHIP" /\ ful[f].type = "PHYSICAL" => address'[f] # NULL
    /\ AddressesStay

Moves == \E f \in FulfillmentId, to \in Statuses, cs \in SUBSET Columns : Progress(f, to, cs)

(* None does.                                                                *)
Rest ==
    /\ timeline' = timeline
    /\ AddressesStay
    /\ \A f \in FulfillmentId :
         /\ Exists(f)' <=> Exists(f)
         /\ Exists(f) =>
              /\ ful'[f].type = ful[f].type
              /\ ful'[f].status = ful[f].status
              /\ ful'[f].filled = ful[f].filled
              /\ ful'[f].createdAt = ful[f].createdAt
              /\ ful'[f].deletedAt \in {ful[f].deletedAt, NULL, now}

LEMMA RestUpdate ==
    ASSUME NEW f \in FulfillmentId, SameOrder(f), timeline' = timeline, AddressesStay,
           ful'[f].status = ful[f].status, ful'[f].filled = ful[f].filled,
           ful'[f].deletedAt \in {ful[f].deletedAt, NULL, now}
    PROVE  Rest
<1>1. \A g \in FulfillmentId : g # f => ful'[g] = ful[g]
  BY DEF SameOrder
<1>2. \A g \in FulfillmentId : Exists(g)' <=> Exists(g)
  BY <1>1 DEF SameOrder, Exists
<1>3. ASSUME NEW g \in FulfillmentId
      PROVE  /\ ful'[g].type = ful[g].type
             /\ ful'[g].status = ful[g].status
             /\ ful'[g].filled = ful[g].filled
             /\ ful'[g].createdAt = ful[g].createdAt
             /\ ful'[g].deletedAt \in {ful[g].deletedAt, NULL, now}
  BY <1>1 DEF SameOrder
<1> QED
  BY <1>2, <1>3 DEF Rest

LEMMA LifeKinds ==
    ASSUME TypeOK, [Next]_vars
    PROVE  \/ \E f \in FulfillmentId, c \in Customer, t \in Tier, type \in Types :
                Create(f, c, t, type)
           \/ Moves
           \/ Rest
<1>1. address' = address => AddressesStay
  BY DEF AddressesStay
<1>2. ASSUME NEW f \in FulfillmentId, NEW e, NEW a \in Address \cup {NULL},
             ReadyToShip(f, e, a)
      PROVE  Moves
  <2>1. Transition(f, e, "READY_TO_SHIP", {"ready_at"})
    BY <1>2 DEF ReadyToShip
  <2>2. AddressesStay /\ (ful[f].type = "PHYSICAL" => address'[f] # NULL)
    BY <1>2 DEF ReadyToShip, AddressesStay, TypeOK
  <2>3. Progress(f, "READY_TO_SHIP", {"ready_at"})
    BY <2>1, <2>2 DEF Progress, Fills
  <2> QED
    BY <2>3 DEF Moves, Statuses, Columns
<1>3. ASSUME NEW f \in FulfillmentId, NEW e,
             NEW to \in Statuses \ {"READY_TO_SHIP"}, NEW cs \in SUBSET Columns,
             <<to, cs>> \in Fills, Transition(f, e, to, cs), UNCHANGED address
      PROVE  Moves
  <2>1. Progress(f, to, cs)
    BY <1>1, <1>3 DEF Progress
  <2> QED
    BY <2>1 DEF Moves
<1>4. ASSUME NEW f \in FulfillmentId, NEW e, Ship(f, e)
      PROVE  Moves
  BY <1>3, <1>4 DEF Ship, Statuses, Columns, Fills
<1>5. ASSUME NEW f \in FulfillmentId, NEW e, IssueVoucher(f, e)
      PROVE  Moves
  BY <1>3, <1>5 DEF IssueVoucher, Statuses, Columns, Fills
<1>6. ASSUME NEW f \in FulfillmentId, NEW e, Deliver(f, e)
      PROVE  Moves
  BY <1>3, <1>6 DEF Deliver, Statuses, Columns, Fills
<1>7. ASSUME NEW f \in FulfillmentId, NEW e, Complete(f, e)
      PROVE  Moves
  BY <1>3, <1>7 DEF Complete, Statuses, Columns, Fills
<1>8. ASSUME NEW f \in FulfillmentId, NEW e, Hold(f, e)
      PROVE  Moves
  BY <1>3, <1>8 DEF Hold, Statuses, Columns, Fills
<1>9. ASSUME NEW f \in FulfillmentId, NEW e, Cancel(f, e)
      PROVE  Moves
  BY <1>3, <1>9 DEF Cancel, Statuses, Columns, Fills
<1>10. ASSUME NEW f \in FulfillmentId, NEW e, NEW a \in Address, UpdateShippingAddress(f, e, a)
       PROVE  Rest
  <2>1. AddressesStay /\ timeline' = timeline
    BY <1>10, NullAssumption DEF UpdateShippingAddress, AddressesStay, TypeOK
  <2> QED
    BY <1>10, <2>1, BumpEffect, RestUpdate DEF UpdateShippingAddress
<1>11. ASSUME NEW f \in FulfillmentId, DeleteFulfillment(f) \/ RestoreFulfillment(f)
       PROVE  Rest
  <2>1. PICK at \in Time : at \in {NULL, now} /\ ful' = [ful EXCEPT ![f].deletedAt = at]
    BY <1>11 DEF DeleteFulfillment, RestoreFulfillment, Time, TypeOK
  <2>2. Exists(f) /\ AddressesStay /\ timeline' = timeline
    BY <1>1, <1>11 DEF DeleteFulfillment, RestoreFulfillment, Live
  <2>3. /\ SameOrder(f)
        /\ ful'[f].status = ful[f].status
        /\ ful'[f].filled = ful[f].filled
        /\ ful'[f].deletedAt = at
    BY <2>1, <2>2, DeletedAtEffect
  <2> QED
    BY <2>1, <2>2, <2>3, RestUpdate
<1>12. ASSUME UNCHANGED <<ful, address, timeline>>
       PROVE  Rest
  BY <1>1, <1>12 DEF Rest, Exists
<1>13. ASSUME NEW t \in Tier, DeleteTier(t) \/ RestoreTier(t)
       PROVE  Rest
  BY <1>12, <1>13 DEF DeleteTier, RestoreTier
<1>14. ASSUME NEW c \in Customer, DeleteCustomer(c) \/ RestoreCustomer(c)
       PROVE  Rest
  BY <1>12, <1>14 DEF DeleteCustomer, RestoreCustomer
<1>15. ASSUME NEW k \in Client, (\E f \in FulfillmentId : Open(k, f)) \/ ReadAddress(k)
       PROVE  Rest
  BY <1>12, <1>15 DEF Open, ReadAddress
<1>16. CASE Tick
  BY <1>12, <1>16 DEF Tick
<1>17. CASE UNCHANGED vars
  BY <1>12, <1>17 DEF vars
<1>18. ASSUME NEW f \in FulfillmentId, FulfillmentStep(f)
       PROVE  \/ \E c \in Customer, t \in Tier, type \in Types : Create(f, c, t, type)
              \/ Moves
              \/ Rest
  BY <1>2, <1>4, <1>5, <1>6, <1>7, <1>8, <1>9, <1>10, <1>11, <1>15, <1>18
     DEF FulfillmentStep
<1>19. \/ \E f \in FulfillmentId, c \in Customer, t \in Tier, type \in Types : Create(f, c, t, type)
       \/ Moves
       \/ Rest
  BY <1>13, <1>14, <1>15, <1>16, <1>17, <1>18 DEF Next
<1> QED
  BY <1>19 DEF Moves

LEMMA ProgressEffect ==
    ASSUME TypeOK, NEW f \in FulfillmentId, NEW to \in Statuses, NEW cs \in SUBSET Columns,
           Progress(f, to, cs)
    PROVE  /\ SameOrder(f)
           /\ ful'[f].status = to
           /\ ful'[f].filled = ful[f].filled \cup cs
           /\ ful'[f].deletedAt = ful[f].deletedAt
           /\ IsTransitionAllowed(ful[f].status, to) /\ TypeAllows(f, to)
           /\ timeline' = [timeline EXCEPT ![f] = Append(@, TimelineEvent(f, to))]
<1>1. ASSUME NEW e, Transition(f, e, to, cs)
      PROVE  /\ SameOrder(f)
             /\ ful'[f].status = to
             /\ ful'[f].filled = ful[f].filled \cup cs
             /\ ful'[f].deletedAt = ful[f].deletedAt
  BY <1>1, TransitionEffect
<1>2. ASSUME NEW e, Transition(f, e, to, cs)
      PROVE  /\ IsTransitionAllowed(ful[f].status, to) /\ TypeAllows(f, to)
             /\ timeline' = [timeline EXCEPT ![f] = Append(@, TimelineEvent(f, to))]
  BY <1>2 DEF Transition
<1> QED
  BY <1>1, <1>2 DEF Progress

-----------------------------------------------------------------------------
(* Completion *)

(* What each status says of the way a fulfillment has come: COMPLETED checks *)
(* nothing itself, so the evidence has to be there when it is reached.       *)
Evidence(f) ==
    LET r == ful[f] IN
    /\ r.status # "DRAFT" =>
         "ready_at" \in r.filled /\ (r.type = "PHYSICAL" => address[f] # NULL)
    /\ r.status \in {"SHIPPED", "DELIVERED"} =>
         r.type = "PHYSICAL" /\ "shipped_at" \in r.filled
    /\ r.status = "DELIVERED" => "delivered_at" \in r.filled
    /\ r.status = "VOUCHER_ISSUED" => r.type = "VOUCHER" /\ "voucher_code" \in r.filled
    /\ r.status = "COMPLETED" =>
         /\ "completed_at" \in r.filled
         /\ IF r.type = "PHYSICAL" THEN {"shipped_at", "delivered_at"} \subseteq r.filled
            ELSE "voucher_code" \in r.filled

EvidenceInv == \A f \in FulfillmentId : Exists(f) => Evidence(f)

LEMMA EvidenceNext ==
    ASSUME TypeOK, EvidenceInv, [Next]_vars
    PROVE  EvidenceInv'
<1> SUFFICES ASSUME NEW g \in FulfillmentId, Exists(g)'
             PROVE  Evidence(g)'
  BY DEF EvidenceInv
<1>1. ASSUME NEW f \in FulfillmentId, NEW c \in Customer, NEW t \in Tier,
             NEW type \in Types, Create(f, c, t, type)
      PROVE  Evidence(g)'
  <2>1. /\ ful'[f].status = "DRAFT"
        /\ \A h \in FulfillmentId : h # f => ful'[h] = ful[h]
    BY <1>1, CreateEffect
  <2>2. address' = address
    BY <1>1 DEF Create
  <2> QED
    BY <2>1, <2>2 DEF EvidenceInv, Evidence, Exists
<1>2. ASSUME NEW f \in FulfillmentId, NEW to \in Statuses, NEW cs \in SUBSET Columns,
             Progress(f, to, cs)
      PROVE  Evidence(g)'
  <2>2. /\ SameOrder(f)
        /\ ful'[f].status = to
        /\ ful'[f].filled = ful[f].filled \cup cs
        /\ IsTransitionAllowed(ful[f].status, to) /\ TypeAllows(f, to)
    BY <1>2, ProgressEffect
  <2>3. CASE g # f
    BY <1>2, <2>2, <2>3 DEF EvidenceInv, Evidence, Exists, SameOrder, Progress, AddressesStay
  <2>4. CASE g = f
    <3>1. Evidence(f) /\ ful'[f].type = ful[f].type /\ ful[f].type \in Types
      BY <2>2 DEF EvidenceInv, SameOrder, Row
    <3>2. address[f] # NULL => address'[f] # NULL
      BY <1>2 DEF Progress, AddressesStay
    <3>3. IsTransitionAllowed(ful[f].status, to) /\ TypeAllows(f, to)
      BY <2>2
    <3> DEFINE from == ful[f].status
               type == ful[f].type
               old  == ful[f].filled
    <3>4. CASE to = "READY_TO_SHIP"
      BY <1>2, <2>2, <2>4, <3>1, <3>4 DEF Evidence, Progress, Fills
    <3>5. CASE to \in {"ON_HOLD", "CANCELED"}
      BY <2>2, <2>4, <3>1, <3>2, <3>3, <3>5
         DEF Evidence, IsTransitionAllowed, AllowedTransitions
    <3>6. CASE to = "SHIPPED"
      BY <1>2, <2>2, <2>4, <3>1, <3>2, <3>3, <3>6
         DEF Evidence, Progress, Fills, IsTransitionAllowed, AllowedTransitions, TypeAllows
    <3>7. CASE to = "VOUCHER_ISSUED"
      BY <1>2, <2>2, <2>4, <3>1, <3>2, <3>3, <3>7
         DEF Evidence, Progress, Fills, IsTransitionAllowed, AllowedTransitions, TypeAllows
    <3>8. CASE to = "DELIVERED"
      BY <1>2, <2>2, <2>4, <3>1, <3>2, <3>3, <3>8
         DEF Evidence, Progress, Fills, IsTransitionAllowed, AllowedTransitions, TypeAllows
    <3>9. CASE to = "COMPLETED"
      BY <1>2, <2>2, <2>4, <3>1, <3>2, <3>3, <3>9
         DEF Evidence, Progress, Fills, IsTransitionAllowed, AllowedTransitions
    <3>10. to # "DRAFT"
      BY <3>3 DEF IsTransitionAllowed, AllowedTransitions
    <3> QED
      BY <3>4, <3>5, <3>6, <3>7, <3>8, <3>9, <3>10 DEF Statuses
  <2> QED
    BY <2>3, <2>4
<1>3. CASE Rest
  BY <1>3 DEF Rest, AddressesStay, EvidenceInv, Evidence
<1> QED
  BY <1>1, <1>2, <1>3, LifeKinds DEF Moves

(* A completed fulfillment has gone through the whole of its own path, for   *)
(* any number of holds, resumptions, deletions and address edits on the way  *)
(* (Transition's state graph and type guard).                                *)
THEOREM CompletionCorrect == Spec => []CompletionEvidence
<1>1. Init => EvidenceInv
  BY DEF Init, EvidenceInv, Exists
<1>2. TypeOK /\ EvidenceInv /\ [Next]_vars => EvidenceInv'
  BY EvidenceNext
<1>3. EvidenceInv => CompletionEvidence
  BY DEF EvidenceInv, Evidence, CompletionEvidence
<1> QED
  BY <1>1, <1>2, <1>3, TypeCorrect, PTL DEF Spec

-----------------------------------------------------------------------------
(* The timeline *)

(* One event after a walk that ends where it starts makes a longer walk.     *)
Walks(ev, status) ==
    /\ ev # <<>>
    /\ ev[1] = [from |-> NULL, to |-> "DRAFT"]
    /\ ev[Len(ev)].to = status
    /\ \A i \in 2 .. Len(ev) :
         /\ ev[i].from = ev[i - 1].to
         /\ IsTransitionAllowed(ev[i].from, ev[i].to)

LEMMA WalkOn ==
    ASSUME NEW ev \in Seq(Event), NEW from \in Statuses, NEW to \in Statuses,
           Walks(ev, from), IsTransitionAllowed(from, to)
    PROVE  Walks(Append(ev, [from |-> from, to |-> to]), to)
<1> DEFINE e == [from |-> from, to |-> to]
           long == Append(ev, e)
<1>1. e \in Event /\ e.from = from /\ e.to = to
  BY DEF Event
<1> HIDE DEF e
<1>2. Len(ev) \in Nat /\ Len(ev) >= 1
  BY DEF Walks
<1>3. /\ long \in Seq(Event) /\ long # <<>>
      /\ Len(long) = Len(ev) + 1
      /\ long[Len(ev) + 1] = e
      /\ \A i \in 1 .. Len(ev) : long[i] = ev[i]
  BY <1>1
<1> HIDE DEF long
<1>4. long[1] = ev[1]
  BY <1>2, <1>3
<1>5. ASSUME NEW i \in 2 .. Len(long)
      PROVE  long[i].from = long[i - 1].to /\ IsTransitionAllowed(long[i].from, long[i].to)
  <2>1. CASE i = Len(ev) + 1
    <3>1. long[i - 1] = ev[Len(ev)]
      BY <1>2, <1>3, <2>1
    <3> QED
      BY <1>1, <1>3, <2>1, <3>1 DEF Walks
  <2>2. CASE i # Len(ev) + 1
    <3>1. i \in 2 .. Len(ev) /\ i \in 1 .. Len(ev) /\ i - 1 \in 1 .. Len(ev)
      BY <1>2, <1>3, <2>2
    <3> QED
      BY <1>3, <3>1 DEF Walks
  <2> QED
    BY <2>1, <2>2
<1>6. long[Len(long)].to = to
  BY <1>1, <1>2, <1>3
<1>7. Walks(long, to)
  BY <1>3, <1>4, <1>5, <1>6 DEF Walks
<1> QED
  BY <1>7 DEF long, e

TimelineInv ==
    \A f \in FulfillmentId :
        IF Exists(f) THEN Walks(timeline[f], ful[f].status) ELSE timeline[f] = <<>>

LEMMA TimelineNext ==
    ASSUME TypeOK, TimelineInv, [Next]_vars
    PROVE  TimelineInv'
<1> SUFFICES ASSUME NEW g \in FulfillmentId
             PROVE  IF Exists(g)' THEN Walks(timeline'[g], ful'[g].status) ELSE timeline'[g] = <<>>
  BY DEF TimelineInv, Walks
<1>1. ASSUME NEW f \in FulfillmentId, NEW c \in Customer, NEW t \in Tier,
             NEW type \in Types, Create(f, c, t, type)
      PROVE  IF Exists(g)' THEN Walks(timeline'[g], ful'[g].status) ELSE timeline'[g] = <<>>
  <2>1. /\ Exists(f)'
        /\ ful'[f].status = "DRAFT"
        /\ \A h \in FulfillmentId : h # f => ful'[h] = ful[h]
    BY <1>1, CreateEffect
  <2>2. timeline' = [timeline EXCEPT ![f] = <<[from |-> NULL, to |-> "DRAFT"]>>]
    BY <1>1 DEF Create
  <2>3. CASE g = f
    <3>1. timeline'[f] = <<[from |-> NULL, to |-> "DRAFT"]>>
      BY <2>2 DEF TypeOK
    <3>2. Walks(timeline'[f], "DRAFT")
      BY <3>1 DEF Walks
    <3> QED
      BY <2>1, <2>3, <3>2
  <2>4. CASE g # f
    BY <2>1, <2>2, <2>4 DEF TimelineInv, Exists, TypeOK
  <2> QED
    BY <2>3, <2>4
<1>2. ASSUME NEW f \in FulfillmentId, NEW to \in Statuses, NEW cs \in SUBSET Columns,
             Progress(f, to, cs)
      PROVE  IF Exists(g)' THEN Walks(timeline'[g], ful'[g].status) ELSE timeline'[g] = <<>>
  <2>2. /\ SameOrder(f)
        /\ ful'[f].status = to
        /\ IsTransitionAllowed(ful[f].status, to)
    BY <1>2, ProgressEffect
  <2>3. timeline' = [timeline EXCEPT ![f] = Append(@, [from |-> ful[f].status, to |-> to])]
    BY <1>2, ProgressEffect DEF TimelineEvent
  <2>4. CASE g = f
    <3>1. Walks(timeline[f], ful[f].status) /\ ful[f].status \in Statuses
      BY <2>2 DEF TimelineInv, SameOrder, Row
    <3>2. timeline[f] \in Seq(Event) /\ IsTransitionAllowed(ful[f].status, to)
      BY <2>2 DEF TypeOK
    <3>3. timeline'[f] = Append(timeline[f], [from |-> ful[f].status, to |-> to])
      BY <2>3 DEF TypeOK
    <3>4. Walks(timeline'[f], to)
      BY <3>1, <3>2, <3>3, WalkOn
    <3> QED
      BY <2>2, <2>4, <3>4 DEF SameOrder
  <2>5. CASE g # f
    BY <2>2, <2>3, <2>5 DEF TimelineInv, Exists, SameOrder, TypeOK
  <2> QED
    BY <2>4, <2>5
<1>3. CASE Rest
  BY <1>3 DEF Rest, TimelineInv
<1> QED
  BY <1>1, <1>2, <1>3, LifeKinds DEF Moves

(* The timeline is a gapless walk through the state graph that ends at the   *)
(* current status, however long it gets (Transition writes event and row in  *)
(* one transaction).                                                         *)
THEOREM TimelineCorrect == Spec => []TimelineTellsStatus
<1>1. Init => TimelineInv
  BY DEF Init, TimelineInv, Exists
<1>2. TypeOK /\ TimelineInv /\ [Next]_vars => TimelineInv'
  BY TimelineNext
<1>3. TimelineInv => TimelineTellsStatus
  BY DEF TimelineInv, Walks, TimelineTellsStatus
<1> QED
  BY <1>1, <1>2, <1>3, TypeCorrect, PTL DEF Spec
=============================================================================
