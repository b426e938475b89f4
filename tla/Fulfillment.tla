---------------------------- MODULE Fulfillment ----------------------------
(***************************************************************************)
(* The fulfillment tables of FulfillOps and the services that write them:  *)
(* reward tiers with their stock and purchase limit, customers,            *)
(* fulfillments with their status, version, timeline, shipping address and *)
(* stock reservation.  Every operation of FulfillmentService runs in one   *)
(* database transaction that holds the row it decides on with SELECT ...   *)
(* FOR UPDATE, so one action stands for one committed transaction; a       *)
(* rejected request rolls back and changes nothing.  Soft deletes and      *)
(* restores are single UPDATE statements.                                  *)
(*                                                                         *)
(* Clients hold pages they read earlier (view) and send the version they   *)
(* saw with their next request.                                            *)
(***************************************************************************)
EXTENDS Integers, Sequences, FiniteSets

CONSTANTS
    FulfillmentId,   \* uuids of the fulfillments that may be created
    Tier, Customer,  \* the rows of reward_tiers and customers
    Client,          \* browsers and API clients that keep a page they read
    Address,         \* the contents a shipping address may have
    NULL,            \* SQL NULL, and "no row"
    Stock,           \* inventory_count each tier is created with
    Limit,           \* purchase_limit each tier is created with
    PurchaseWindow,  \* purchaseWindow (30 days), in clock ticks
    RestoreWindow,   \* the INTERVAL '30 days' of Restore, in clock ticks
    MaxTime,         \* bound of a run: the clock stops here
    MaxVersion       \* bound of a run: versions stop here

ASSUME FulfillmentAssumption ==
    /\ IsFiniteSet(FulfillmentId)
    /\ Stock \in [Tier -> Nat]
    /\ Limit \in [Tier -> Nat \ {0}]
    /\ PurchaseWindow \in Nat
    /\ RestoreWindow \in Nat
    /\ MaxTime \in Nat
    /\ MaxVersion \in Nat

VARIABLES
    now,          \* the wall clock
    tier,         \* reward_tiers: the columns other code reads
    customer,     \* customers: deleted_at
    ful,          \* fulfillments: a row, or NULL where no row exists
    reservation,  \* reservations: the one reservation of a fulfillment
    address,      \* shipping_addresses: the one address of a fulfillment
    timeline,     \* fulfillment_timeline: the events of a fulfillment
    view          \* the fulfillment page a client has open, or NULL

vars == <<now, tier, customer, ful, reservation, address, timeline, view>>

-----------------------------------------------------------------------------
(* domain/enums.go *)

Types == {"PHYSICAL", "VOUCHER"}

Statuses == {"DRAFT", "READY_TO_SHIP", "SHIPPED", "DELIVERED",
             "VOUCHER_ISSUED", "COMPLETED", "ON_HOLD", "CANCELED"}

AllowedTransitions ==
    { <<"DRAFT", "READY_TO_SHIP">>,
      <<"READY_TO_SHIP", "SHIPPED">>, <<"READY_TO_SHIP", "VOUCHER_ISSUED">>,
      <<"READY_TO_SHIP", "ON_HOLD">>, <<"READY_TO_SHIP", "CANCELED">>,
      <<"SHIPPED", "DELIVERED">>, <<"SHIPPED", "ON_HOLD">>, <<"SHIPPED", "CANCELED">>,
      <<"VOUCHER_ISSUED", "COMPLETED">>, <<"VOUCHER_ISSUED", "ON_HOLD">>,
      <<"VOUCHER_ISSUED", "CANCELED">>,
      <<"DELIVERED", "COMPLETED">>,
      <<"ON_HOLD", "READY_TO_SHIP">> }

IsTransitionAllowed(from, to) == <<from, to>> \in AllowedTransitions

(* The nullable columns a transition fills; none is ever cleared. *)
Columns == {"ready_at", "shipped_at", "voucher_code", "delivered_at",
            "completed_at", "hold_reason", "cancel_reason"}

Time == Nat \cup {NULL}

TierRow == [inventory : Nat, limit : Nat \ {0}, version : Nat \ {0}, deletedAt : Time]

Row == [tier : Tier, customer : Customer, type : Types, status : Statuses,
        version : Nat \ {0}, createdAt : Nat, deletedAt : Time,
        filled : SUBSET Columns]

Event == [from : Statuses \cup {NULL}, to : Statuses]

Page == [id : FulfillmentId, version : Nat \ {0}, status : Statuses,
         filled : SUBSET Columns, address : Address \cup {NULL}, loaded : BOOLEAN]

ASSUME NullAssumption ==
    NULL \notin Nat \cup Address \cup Statuses \cup Row \cup Page

TypeOK ==
    /\ now \in Nat
    /\ tier \in [Tier -> TierRow]
    /\ customer \in [Customer -> Time]
    /\ ful \in [FulfillmentId -> Row \cup {NULL}]
    /\ reservation \in [FulfillmentId -> {"NONE", "ACTIVE", "VOIDED"}]
    /\ address \in [FulfillmentId -> Address \cup {NULL}]
    /\ timeline \in [FulfillmentId -> Seq(Event)]
    /\ view \in [Client -> Page \cup {NULL}]

-----------------------------------------------------------------------------
Exists(f) == ful[f] # NULL

(* WHERE id = f AND deleted_at IS NULL *)
Live(f) == Exists(f) /\ ful[f].deletedAt = NULL

TierLive(t) == tier[t].deletedAt = NULL

CustomerLive(c) == customer[c] = NULL

PurchasesNotDeleted(c, t, since) ==                                \* mutant
    { f \in FulfillmentId :
        /\ Live(f) /\ ful[f].customer = c /\ ful[f].tier = t
        /\ ful[f].status # "CANCELED" /\ ful[f].createdAt >= since }

(* What CountByCustomerAndTier counts: soft-deleted rows included. *)
Purchases(c, t, since) ==
    { f \in FulfillmentId :
        /\ Exists(f)
        /\ ful[f].customer = c
        /\ ful[f].tier = t
        /\ ful[f].status # "CANCELED"
        /\ ful[f].createdAt >= since }

CountByCustomerAndTier(c, t, since) == Cardinality(Purchases(c, t, since))

(* DecrementInventory and IncrementInventory leave the version alone. *)
AddInventory(t, n) == tier' = [tier EXCEPT ![t].inventory = @ + n]

Init ==
    /\ now = 0
    /\ tier = [t \in Tier |-> [inventory |-> Stock[t], limit |-> Limit[t],
                               version |-> 1, deletedAt |-> NULL]]
    /\ customer = [c \in Customer |-> NULL]
    /\ ful = [f \in FulfillmentId |-> NULL]
    /\ reservation = [f \in FulfillmentId |-> "NONE"]
    /\ address = [f \in FulfillmentId |-> NULL]
    /\ timeline = [f \in FulfillmentId |-> <<>>]
    /\ view = [c \in Client |-> NULL]

-----------------------------------------------------------------------------
(* InventoryService *)

ReserveUnchecked(t, f) ==                                          \* mutant
    /\ AddInventory(t, -1)
    /\ reservation' = [reservation EXCEPT ![f] = "ACTIVE"]

Reserve(t, f) ==
    /\ tier[t].inventory >= 1
    /\ AddInventory(t, -1)
    /\ reservation' = [reservation EXCEPT ![f] = "ACTIVE"]

ReleaseWithoutVoid(t, f) == AddInventory(t, 1) /\ UNCHANGED reservation   \* mutant

ReleaseWithoutRestock(t, f) ==                                     \* mutant
    /\ reservation' = [reservation EXCEPT ![f] = "VOIDED"]
    /\ UNCHANGED tier

ReleaseTakesAgain(t, f) ==                                         \* mutant
    /\ reservation' = [reservation EXCEPT ![f] = "VOIDED"]
    /\ AddInventory(t, -1)

(* Voids whatever is ACTIVE; the increment does not depend on it. *)
Release(t, f) ==
    /\ reservation' = [reservation EXCEPT ![f] = IF @ = "ACTIVE" THEN "VOIDED" ELSE @]
    /\ AddInventory(t, 1)

-----------------------------------------------------------------------------
(* FulfillmentService.Create *)

Create(f, c, t, type) ==
    /\ ~Exists(f)
    /\ TierLive(t)
    /\ CustomerLive(c)
    /\ CountByCustomerAndTier(c, t, now - PurchaseWindow) < tier[t].limit
    /\ ful' = [ful EXCEPT ![f] =
                 [tier |-> t, customer |-> c, type |-> type, status |-> "DRAFT",
                  version |-> 1, createdAt |-> now, deletedAt |-> NULL, filled |-> {}]]
    /\ Reserve(t, f)
    /\ timeline' = [timeline EXCEPT ![f] = <<[from |-> NULL, to |-> "DRAFT"]>>]
    /\ UNCHANGED <<now, customer, address, view>>

TypeAllowsVoucherForAll(f, to) ==                                  \* mutant
    to \in {"SHIPPED", "DELIVERED"} => ful[f].type = "PHYSICAL"

(* The type-specific guard of Transition. *)
TypeAllows(f, to) ==
    /\ to \in {"SHIPPED", "DELIVERED"} => ful[f].type = "PHYSICAL"
    /\ to = "VOUCHER_ISSUED" => ful[f].type = "VOUCHER"

EventReadLate(f, to) == [from |-> to, to |-> to]                   \* mutant

(* fromStatus is taken before the row's status is overwritten. *)
TimelineEvent(f, to) == [from |-> ful[f].status, to |-> to]

(* The version a request about f carries: the one a client's page shows, or  *)
(* 0 from a page or API client that expects none.                            *)
Sent(f, expected) ==
    \/ expected = 0
    \/ \E k \in Client : /\ view[k] # NULL
                         /\ view[k].loaded
                         /\ view[k].id = f
                         /\ view[k].version = expected

(* What every target of FulfillmentService.Transition shares: the row lock, *)
(* the version the caller expects (0: it does not care), the state graph,   *)
(* the type guard, the UPDATE and the timeline event.                       *)
Transition(f, expected, to, columns) ==
    /\ Sent(f, expected)
    /\ Live(f)
    /\ expected \in {0, ful[f].version}
    /\ IsTransitionAllowed(ful[f].status, to)
    /\ TypeAllows(f, to)
    /\ ful[f].version < MaxVersion
    /\ ful' = [ful EXCEPT ![f].status = to,
                          ![f].version = @ + 1,
                          ![f].filled = @ \cup columns]
    /\ timeline' = [timeline EXCEPT ![f] = Append(@, TimelineEvent(f, to))]
    /\ UNCHANGED <<now, customer, view>>

(* a = NULL: the request carries no address.  A physical fulfillment then   *)
(* needs the one it already has; a voucher one takes none.                  *)
ReadyToShip(f, expected, a) ==
    /\ Transition(f, expected, "READY_TO_SHIP", {"ready_at"})
    /\ IF ful[f].type = "PHYSICAL" /\ a # NULL
       THEN address' = [address EXCEPT ![f] = a]
       ELSE /\ ful[f].type = "PHYSICAL" => address[f] # NULL
            /\ UNCHANGED address
    /\ UNCHANGED <<tier, reservation>>

(* shipped_at stands for carrier_name, tracking_number and shipped_at. *)
Ship(f, expected) ==
    /\ Transition(f, expected, "SHIPPED", {"shipped_at"})
    /\ UNCHANGED <<tier, reservation, address>>

IssueVoucher(f, expected) ==
    /\ Transition(f, expected, "VOUCHER_ISSUED", {"voucher_code"})
    /\ UNCHANGED <<tier, reservation, address>>

Deliver(f, expected) ==
    /\ Transition(f, expected, "DELIVERED", {"delivered_at"})
    /\ UNCHANGED <<tier, reservation, address>>

Complete(f, expected) ==
    /\ Transition(f, expected, "COMPLETED", {"completed_at"})
    /\ UNCHANGED <<tier, reservation, address>>

Hold(f, expected) ==
    /\ Transition(f, expected, "ON_HOLD", {"hold_reason"})
    /\ UNCHANGED <<tier, reservation, address>>

Cancel(f, expected) ==
    /\ Transition(f, expected, "CANCELED", {"cancel_reason"})
    /\ Release(ful[f].tier, f)
    /\ UNCHANGED address

BumpForgotten(f) == UNCHANGED ful                                  \* mutant

BumpVersion(f) == ful' = [ful EXCEPT ![f].version = @ + 1]

UpdateShippingAddress(f, expected, a) ==
    /\ Sent(f, expected)
    /\ Live(f)
    /\ expected # 0 /\ expected = ful[f].version
    /\ ful[f].type = "PHYSICAL"
    /\ ful[f].status \notin {"DELIVERED", "COMPLETED"}
    /\ ful[f].version < MaxVersion
    /\ address' = [address EXCEPT ![f] = a]
    /\ BumpVersion(f)
    /\ UNCHANGED <<now, tier, customer, reservation, timeline, view>>

-----------------------------------------------------------------------------
(* Soft delete and restore: the repositories' single statements.  None of   *)
(* them touches a version, and none of them touches the stock.              *)

Restorable(at) == at # NULL /\ at > now - RestoreWindow

DeleteFulfillment(f) ==
    /\ Live(f)
    /\ ful' = [ful EXCEPT ![f].deletedAt = now]
    /\ UNCHANGED <<now, tier, customer, reservation, address, timeline, view>>

RestoreFulfillment(f) ==
    /\ Exists(f)
    /\ Restorable(ful[f].deletedAt)
    /\ ful' = [ful EXCEPT ![f].deletedAt = NULL]
    /\ UNCHANGED <<now, tier, customer, reservation, address, timeline, view>>

DeleteTier(t) ==
    /\ TierLive(t)
    /\ tier' = [tier EXCEPT ![t].deletedAt = now]
    /\ UNCHANGED <<now, customer, ful, reservation, address, timeline, view>>

RestoreTier(t) ==
    /\ Restorable(tier[t].deletedAt)
    /\ tier' = [tier EXCEPT ![t].deletedAt = NULL]
    /\ UNCHANGED <<now, customer, ful, reservation, address, timeline, view>>

DeleteCustomer(c) ==
    /\ CustomerLive(c)
    /\ customer' = [customer EXCEPT ![c] = now]
    /\ UNCHANGED <<now, tier, ful, reservation, address, timeline, view>>

RestoreCustomer(c) ==
    /\ Restorable(customer[c])
    /\ customer' = [customer EXCEPT ![c] = NULL]
    /\ UNCHANGED <<now, tier, ful, reservation, address, timeline, view>>

-----------------------------------------------------------------------------
(* A client opens the page of a fulfillment: its row is read first, its      *)
(* address by a later statement outside any transaction, and the page stays  *)
(* on the client's screen until it opens another.                            *)
Open(k, f) ==
    /\ Live(f)
    /\ view' = [view EXCEPT ![k] = [id |-> f, version |-> ful[f].version,
                                    status |-> ful[f].status, filled |-> ful[f].filled,
                                    address |-> NULL, loaded |-> FALSE]]
    /\ UNCHANGED <<now, tier, customer, ful, reservation, address, timeline>>

ReadAddress(k) ==
    /\ view[k] # NULL
    /\ ~view[k].loaded
    /\ view' = [view EXCEPT ![k].address = address[view[k].id], ![k].loaded = TRUE]
    /\ UNCHANGED <<now, tier, customer, ful, reservation, address, timeline>>

Tick ==
    /\ now < MaxTime
    /\ now' = now + 1
    /\ UNCHANGED <<tier, customer, ful, reservation, address, timeline, view>>

FulfillmentStep(f) ==
    \/ \E c \in Customer, t \in Tier, type \in Types : Create(f, c, t, type)
    \/ \E e \in 0 .. MaxVersion :
         \/ \E a \in Address \cup {NULL} : ReadyToShip(f, e, a)
         \/ Ship(f, e)
         \/ IssueVoucher(f, e)
         \/ Deliver(f, e)
         \/ Complete(f, e)
         \/ Hold(f, e)
         \/ Cancel(f, e)
         \/ \E a \in Address : UpdateShippingAddress(f, e, a)
    \/ DeleteFulfillment(f)
    \/ RestoreFulfillment(f)
    \/ \E k \in Client : Open(k, f)

Next ==
    \/ \E f \in FulfillmentId : FulfillmentStep(f)
    \/ \E t \in Tier : DeleteTier(t) \/ RestoreTier(t)
    \/ \E c \in Customer : DeleteCustomer(c) \/ RestoreCustomer(c)
    \/ \E k \in Client : ReadAddress(k)
    \/ Tick

Spec == Init /\ [][Next]_vars

-----------------------------------------------------------------------------
(* Properties *)

(* The fulfillments that hold a unit of tier t. *)
Holding(t) == { f \in FulfillmentId :
                  Exists(f) /\ ful[f].tier = t /\ reservation[f] = "ACTIVE" }

(* No unit of stock is lost or invented: what is on the shelf and what is   *)
(* reserved add up to what the tier was created with, through creations,    *)
(* cancellations, holds, soft deletes and restores of all three tables      *)
(* (InventoryService.Reserve and Release).                                  *)
StockConserved ==
    \A t \in Tier : tier[t].inventory + Cardinality(Holding(t)) = Stock[t]

(* A fulfillment holds its unit until it is canceled and gives it back       *)
(* exactly then: Release runs on the one edge into CANCELED, whatever was    *)
(* deleted, held or resumed before.                                          *)
ReservationFollowsStatus ==
    \A f \in FulfillmentId :
        reservation[f] = IF ~Exists(f) THEN "NONE"
                         ELSE IF ful[f].status = "CANCELED" THEN "VOIDED" ELSE "ACTIVE"

(* The purchases of the customer and tier of f in the window that ends with  *)
(* f's creation.                                                             *)
WindowOf(f) ==
    { g \in FulfillmentId :
        /\ Exists(g)
        /\ ful[g].customer = ful[f].customer
        /\ ful[g].tier = ful[f].tier
        /\ ful[g].status # "CANCELED"
        /\ ful[g].createdAt >= ful[f].createdAt - PurchaseWindow
        /\ ful[g].createdAt <= ful[f].createdAt }

(* Whatever is deleted, restored or canceled in between, no window of        *)
(* PurchaseWindow holds more purchases of a tier by a customer than the      *)
(* tier's limit (FulfillmentService.Create, CountByCustomerAndTier).         *)
RollingLimit ==
    \A f \in FulfillmentId :
        Exists(f) => Cardinality(WindowOf(f)) <= tier[ful[f].tier].limit

(* A page that shows the current version of a fulfillment shows its current  *)
(* status, filled columns and address, so a request accepted with that       *)
(* version was decided on what the row really holds (Update, BumpVersion).   *)
PageIsCurrent(k) ==
    LET p == view[k] IN
    p # NULL /\ Exists(p.id) =>
        /\ p.version <= ful[p.id].version
        /\ p.version = ful[p.id].version =>
             /\ p.status = ful[p.id].status
             /\ p.filled = ful[p.id].filled
             /\ p.loaded => p.address = address[p.id]

VersionIdentifiesRow == \A k \in Client : PageIsCurrent(k)

(* A completed fulfillment went through the whole of its own path: a         *)
(* physical one has an address, was shipped and delivered, a voucher one     *)
(* carries a code, although COMPLETED itself checks neither the type nor     *)
(* any of these columns.                                                     *)
CompletionEvidence ==
    \A f \in FulfillmentId :
        Exists(f) /\ ful[f].status = "COMPLETED" =>
            IF ful[f].type = "PHYSICAL"
            THEN /\ address[f] # NULL
                 /\ {"ready_at", "shipped_at", "delivered_at", "completed_at"} \subseteq ful[f].filled
            ELSE {"ready_at", "voucher_code", "completed_at"} \subseteq ful[f].filled

(* The timeline of a fulfillment is a gapless walk through the state graph   *)
(* from its creation to its current status: no committed transition is       *)
(* missing from it and none that was rolled back is in it.                   *)
TimelineTellsStatus ==
    \A f \in FulfillmentId :
        LET ev == timeline[f] IN
        IF ~Exists(f) THEN ev = <<>>
        ELSE /\ ev # <<>>
             /\ ev[1] = [from |-> NULL, to |-> "DRAFT"]
             /\ ev[Len(ev)].to = ful[f].status
             /\ \A i \in 2 .. Len(ev) :
                  /\ ev[i].from = ev[i - 1].to
                  /\ IsTransitionAllowed(ev[i].from, ev[i].to)
=============================================================================
