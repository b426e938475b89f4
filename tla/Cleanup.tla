------------------------------ MODULE Cleanup ------------------------------
(***************************************************************************)
(* The nightly cleanup job over the fulfillment tables.  Run is one        *)
(* database transaction: it deletes the fulfillments that have been        *)
(* soft-deleted for longer than the retention, with their child rows, then *)
(* the customers, then the tiers.  A customer or tier that a remaining     *)
(* fulfillment references makes its DELETE fail on the foreign key, and    *)
(* the whole run rolls back.                                               *)
(*                                                                         *)
(* Rows that are soft-deleted long enough to be purged are out of reach of *)
(* every other statement, so the transaction is one action.                *)
(***************************************************************************)
EXTENDS Fulfillment

CONSTANT Retention   \* retentionDays, in clock ticks

\* Restore looks back as far as the purge leaves rows, and the purchase
\* limit as well: all three are 30 days.
ASSUME CleanupAssumption ==
    Retention \in Nat /\ RestoreWindow <= Retention /\ PurchaseWindow <= Retention

VARIABLES
    purged,         \* history: the row a purged fulfillment had, or NULL
    goneTier,       \* the tiers that were purged
    goneCustomer    \* the customers that were purged

cleanupVars == <<now, tier, customer, ful, reservation, address, timeline, view,
                 purged, goneTier, goneCustomer>>

CleanupTypeOK ==
    /\ TypeOK
    /\ purged \in [FulfillmentId -> Row \cup {NULL}]
    /\ goneTier \in SUBSET Tier
    /\ goneCustomer \in SUBSET Customer

CleanupInit ==
    /\ Init
    /\ purged = [f \in FulfillmentId |-> NULL]
    /\ goneTier = {}
    /\ goneCustomer = {}

ExpiredAtOnce(at) == at # NULL                                     \* mutant

(* deleted_at IS NOT NULL AND deleted_at < cutoff *)
Expired(at) == at # NULL /\ at < now - Retention

ExpiredCanceled ==                                                 \* mutant
    { f \in FulfillmentId : Exists(f) /\ ful[f].status = "CANCELED" /\ Expired(ful[f].deletedAt) }

ExpiredFulfillments == { f \in FulfillmentId : Exists(f) /\ Expired(ful[f].deletedAt) }
ExpiredCustomers == { c \in Customer \ goneCustomer : Expired(customer[c]) }
ExpiredTiers == { t \in Tier \ goneTier : Expired(tier[t].deletedAt) }

NeverBlocked == FALSE                                              \* mutant

(* A fulfillment the run leaves behind references a row the run would delete. *)
Blocked ==
    \E f \in FulfillmentId \ ExpiredFulfillments :
        Exists(f) /\ (ful[f].customer \in ExpiredCustomers \/ ful[f].tier \in ExpiredTiers)

(* Step 1: the row and its timeline, address and reservation.  An ACTIVE     *)
(* reservation is deleted, not voided: its unit goes back to no shelf.       *)
PurgeRows(ids) ==
    /\ purged' = [f \in FulfillmentId |-> IF f \in ids THEN ful[f] ELSE purged[f]]
    /\ ful' = [f \in FulfillmentId |-> IF f \in ids THEN NULL ELSE ful[f]]
    /\ address' = [f \in FulfillmentId |-> IF f \in ids THEN NULL ELSE address[f]]
    /\ timeline' = [f \in FulfillmentId |-> IF f \in ids THEN <<>> ELSE timeline[f]]
    /\ reservation' = [f \in FulfillmentId |-> IF f \in ids THEN "NONE" ELSE reservation[f]]

(* CleanupJob.Run, committed.  A run that is Blocked rolls back and leaves   *)
(* everything as it was.                                                     *)
Run ==
    /\ ExpiredFulfillments # {} \/ ExpiredCustomers # {} \/ ExpiredTiers # {}
    /\ ~Blocked
    /\ PurgeRows(ExpiredFulfillments)
    /\ goneCustomer' = goneCustomer \cup ExpiredCustomers
    /\ goneTier' = goneTier \cup ExpiredTiers
    /\ UNCHANGED <<now, tier, customer, view>>

(* The other services find no row where one was purged, and a uuid is never  *)
(* drawn twice.                                                              *)
FulfillmentNext ==
    /\ Next
    /\ \A f \in FulfillmentId : purged[f] # NULL => ful'[f] = NULL
    /\ \A t \in goneTier : tier'[t] = tier[t]
    /\ \A c \in goneCustomer : customer'[c] = customer[c]
    /\ UNCHANGED <<purged, goneTier, goneCustomer>>

CleanupNext == Run \/ FulfillmentNext

CleanupSpec == CleanupInit /\ [][CleanupNext]_cleanupVars

(* The scheduler runs the job every day, and the clock does not stop. *)
FairSpec == CleanupSpec /\ WF_cleanupVars(Run) /\ WF_cleanupVars(Tick /\ FulfillmentNext)

-----------------------------------------------------------------------------
(* Properties *)

(* Every fulfillment belongs to a customer and a tier that still exist, live *)
(* or soft-deleted: no order of deletes, restores, creations and purges      *)
(* leaves an orphan (the steps of Run and the foreign keys).                 *)
NoOrphans ==
    \A f \in FulfillmentId :
        Exists(f) => ful[f].customer \notin goneCustomer /\ ful[f].tier \notin goneTier

(* The row a fulfillment has or had. *)
RowOf(f) == IF Exists(f) THEN ful[f] ELSE purged[f]

(* Purging a purchase never lets its customer buy above the limit: whatever  *)
(* a window of PurchaseWindow contained is within the limit even when the    *)
(* purged purchases are counted (Run's cutoff against purchaseWindow).       *)
RollingLimitWithPurged ==
    \A f \in FulfillmentId :
        RowOf(f) # NULL =>
            LET r == RowOf(f)
                Same(g) == /\ RowOf(g) # NULL
                           /\ RowOf(g).customer = r.customer
                           /\ RowOf(g).tier = r.tier
                           /\ RowOf(g).status # "CANCELED"
                           /\ RowOf(g).createdAt \in (r.createdAt - PurchaseWindow) .. r.createdAt
            IN Cardinality({g \in FulfillmentId : Same(g)}) <= tier[r.tier].limit

(* Units that were held by a fulfillment when it was purged. *)
Lost(t) == { f \in FulfillmentId :
               purged[f] # NULL /\ purged[f].tier = t /\ purged[f].status # "CANCELED" }

(* The shelf, the reservations and the units purged with their reservation   *)
(* account for the whole stock: a purge loses exactly the units of the       *)
(* fulfillments that were deleted without being canceled (Run, step 1).      *)
StockAccounted ==
    \A t \in Tier :
        tier[t].inventory + Cardinality(Holding(t)) + Cardinality(Lost(t)) = Stock[t]

(* Soft-deleted for longer than the retention. *)
Overdue(f) ==
    Exists(f) /\ ful[f].deletedAt # NULL /\ now - ful[f].deletedAt > Retention

(* Once no live fulfillment stands in the way for good, every expired        *)
(* soft-deleted fulfillment is purged.                                       *)
PurgedUnlessBlocked ==
    <>[]~Blocked =>
        \A f \in FulfillmentId : Overdue(f) ~> purged[f] # NULL
=============================================================================
