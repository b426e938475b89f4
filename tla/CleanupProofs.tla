----------------------------- MODULE CleanupProofs -----------------------------
(***************************************************************************)
(* Theorems about Cleanup, for any number of rows and any retention that   *)
(* is no shorter than the purchase window and the restore window.  What a  *)
(* service's step does to the tables is taken from FulfillmentProofs.      *)
(***************************************************************************)
EXTENDS Cleanup, FulfillmentProofs

(* A row is soft-deleted no earlier than it was made. *)
DeletedLater ==
    \A f \in FulfillmentId :
        Exists(f) /\ ful[f].deletedAt # NULL => ful[f].createdAt <= ful[f].deletedAt

(* A purged row is not there, and its purchase no longer counts. *)
PurgedLongAgo ==
    \A f \in FulfillmentId :
        purged[f] # NULL => ~Exists(f) /\ purged[f].createdAt < now - PurchaseWindow

GoneDeleted ==
    /\ \A t \in goneTier : ~TierLive(t)
    /\ \A c \in goneCustomer : ~CustomerLive(c)

CleanupInv ==
    /\ CleanupTypeOK
    /\ CreatedInPast
    /\ DeletedLater
    /\ PurgedLongAgo
    /\ GoneDeleted
    /\ ReservationFollowsStatus
    /\ NoOrphans
    /\ StockAccounted
    /\ RollingLimitWithPurged

-----------------------------------------------------------------------------
(* The two kinds of steps *)

(* A step of the services, which purged rows take no part in. *)
Service ==
    /\ [Next]_vars
    /\ \A f \in FulfillmentId : purged[f] # NULL => ful'[f] = NULL
    /\ \A t \in goneTier : tier'[t] = tier[t]
    /\ \A c \in goneCustomer : customer'[c] = customer[c]
    /\ UNCHANGED <<purged, goneTier, goneCustomer>>

LEMMA CleanupKinds ==
    ASSUME PurgedLongAgo, [CleanupNext]_cleanupVars
    PROVE  Run \/ Service
<1>1. CASE FulfillmentNext
  BY <1>1 DEF FulfillmentNext, Service
<1>2. CASE UNCHANGED cleanupVars
  <2>1. /\ UNCHANGED vars
        /\ UNCHANGED <<purged, goneTier, goneCustomer, ful, tier, customer>>
    BY <1>2 DEF cleanupVars, vars
  <2> QED
    BY <2>1 DEF Service, PurgedLongAgo, Exists
<1> QED
  BY <1>1, <1>2 DEF CleanupNext

LEMMA RunEffect ==
    ASSUME CleanupTypeOK, Run
    PROVE  /\ UNCHANGED <<now, tier, customer, view>>
           /\ \A f \in FulfillmentId :
                IF f \in ExpiredFulfillments
                THEN /\ Exists(f) /\ ~Exists(f)' /\ purged'[f] = ful[f]
                     /\ reservation'[f] = "NONE"
                ELSE /\ ful'[f] = ful[f] /\ purged'[f] = purged[f]
                     /\ reservation'[f] = reservation[f]
BY DEF Run, PurgeRows, ExpiredFulfillments, Exists

LEMMA CleanupTypeNext ==
    ASSUME CleanupTypeOK, Run \/ Service
    PROVE  CleanupTypeOK'
<1>1. CASE Service
  BY <1>1, TypeNext DEF Service, CleanupTypeOK
<1>2. CASE Run
  <2>1. /\ ful' \in [FulfillmentId -> Row \cup {NULL}]
        /\ address' \in [FulfillmentId -> Address \cup {NULL}]
        /\ purged' \in [FulfillmentId -> Row \cup {NULL}]
    BY <1>2 DEF Run, PurgeRows, CleanupTypeOK, TypeOK
  <2>2. timeline' \in [FulfillmentId -> Seq(Event)]
    <3>1. timeline' = [f \in FulfillmentId |->
                         IF f \in ExpiredFulfillments THEN <<>> ELSE timeline[f]]
      BY <1>2 DEF Run, PurgeRows
    <3>2. <<>> \in Seq(Event) /\ timeline \in [FulfillmentId -> Seq(Event)]
      BY DEF CleanupTypeOK, TypeOK
    <3> QED
      BY <3>1, <3>2
  <2>3. reservation' \in [FulfillmentId -> {"NONE", "ACTIVE", "VOIDED"}]
    BY <1>2 DEF Run, PurgeRows, CleanupTypeOK, TypeOK
  <2>4. goneTier' \in SUBSET Tier /\ goneCustomer' \in SUBSET Customer
    BY <1>2 DEF Run, ExpiredTiers, ExpiredCustomers, CleanupTypeOK
  <2>5. UNCHANGED <<now, tier, customer, view>>
    BY <1>2 DEF Run
  <2> QED
    BY <2>1, <2>2, <2>3, <2>4, <2>5 DEF CleanupTypeOK, TypeOK
<1> QED
  BY <1>1, <1>2

-----------------------------------------------------------------------------
(* Times *)

LEMMA DeletedLaterService ==
    ASSUME TypeOK, CreatedInPast, DeletedLater, [Next]_vars
    PROVE  DeletedLater'
<1> SUFFICES ASSUME NEW g \in FulfillmentId, Exists(g)', ful'[g].deletedAt # NULL
             PROVE  ful'[g].createdAt <= ful'[g].deletedAt
  BY DEF DeletedLater
<1>1. Exists(g) => ful[g].createdAt \in Nat /\ ful[g].createdAt <= now /\ now \in Nat
  BY DEF TypeOK, Exists, Row, CreatedInPast
<1>2. ASSUME NEW f \in FulfillmentId, NEW c \in Customer, NEW t \in Tier,
             NEW type \in Types, Create(f, c, t, type)
      PROVE  ful'[g].createdAt <= ful'[g].deletedAt
  <2>1. \A h \in FulfillmentId : h # f => ful'[h] = ful[h]
    BY <1>2, CreateEffect
  <2>2. ful'[f].deletedAt = NULL
    BY <1>2 DEF Create, TypeOK
  <2> QED
    BY <2>1, <2>2 DEF DeletedLater, Exists
<1>3. ASSUME NEW f \in FulfillmentId, NEW to \in Statuses, NEW cs \in SUBSET Columns,
             Progress(f, to, cs)
      PROVE  ful'[g].createdAt <= ful'[g].deletedAt
  <2>1. SameOrder(f) /\ ful'[f].deletedAt = ful[f].deletedAt
    BY <1>3, ProgressEffect
  <2> QED
    BY <2>1 DEF SameOrder, DeletedLater, Exists
<1>4. CASE Rest
  BY <1>1, <1>4 DEF Rest, DeletedLater
<1> QED
  BY <1>2, <1>3, <1>4, LifeKinds DEF Moves

LEMMA TimesNext ==
    ASSUME CleanupInv, Run \/ Service
    PROVE  CreatedInPast' /\ DeletedLater' /\ PurgedLongAgo'
<1>1. /\ TypeOK /\ now \in Nat
      /\ \A f \in FulfillmentId : Exists(f) => ful[f] \in Row
  BY DEF CleanupInv, CleanupTypeOK, TypeOK, Exists
<1>2. CASE Service
  <2>1. now' >= now /\ now' \in Nat
    BY <1>1, <1>2, ClockNext, TypeNext DEF Service, TypeOK
  <2>2. CreatedInPast' /\ DeletedLater'
    BY <1>1, <1>2, PastNext, DeletedLaterService DEF Service, CleanupInv
  <2>3. ASSUME NEW f \in FulfillmentId, purged'[f] # NULL
        PROVE  ~Exists(f)' /\ purged'[f].createdAt < now' - PurchaseWindow
    <3>1. purged'[f] = purged[f] /\ ~Exists(f)'
      BY <1>2, <2>3 DEF Service, Exists
    <3>2. purged[f].createdAt < now - PurchaseWindow /\ purged[f].createdAt \in Nat
      BY <2>3, <3>1 DEF CleanupInv, PurgedLongAgo, CleanupTypeOK, Row
    <3> QED
      BY <1>1, <2>1, <3>1, <3>2, FulfillmentAssumption
  <2> QED
    BY <2>2, <2>3 DEF PurgedLongAgo
<1>3. CASE Run
  <2>1. /\ now' = now
        /\ \A f \in FulfillmentId :
             IF f \in ExpiredFulfillments
             THEN Exists(f) /\ ~Exists(f)' /\ purged'[f] = ful[f]
             ELSE ful'[f] = ful[f] /\ purged'[f] = purged[f]
    BY <1>3, RunEffect DEF CleanupInv
  <2>2. CreatedInPast' /\ DeletedLater'
    BY <2>1 DEF CleanupInv, CreatedInPast, DeletedLater, Exists
  <2>3. ASSUME NEW f \in ExpiredFulfillments
        PROVE  ful[f].createdAt < now - PurchaseWindow
    <3>1. /\ Exists(f) /\ f \in FulfillmentId /\ ful[f].deletedAt # NULL
          /\ ful[f].deletedAt < now - Retention
      BY DEF ExpiredFulfillments, Expired
    <3>2. /\ ful[f].createdAt \in Nat /\ ful[f].deletedAt \in Nat
          /\ ful[f].createdAt <= ful[f].deletedAt
      BY <1>1, <3>1 DEF Row, Time, CleanupInv, DeletedLater
    <3> QED
      BY <1>1, <3>1, <3>2, FulfillmentAssumption, CleanupAssumption
  <2>4. PurgedLongAgo'
    BY <2>1, <2>3 DEF PurgedLongAgo, CleanupInv, Exists
  <2> QED
    BY <2>2, <2>4
<1> QED
  BY <1>2, <1>3

-----------------------------------------------------------------------------
(* Orphans *)

LEMMA OrphansNext ==
    ASSUME CleanupInv, Run \/ Service
    PROVE  GoneDeleted' /\ NoOrphans'
<1>1. TypeOK
  BY DEF CleanupInv, CleanupTypeOK
<1>2. CASE Service
  <2>1. GoneDeleted'
    BY <1>2 DEF Service, CleanupInv, GoneDeleted, TierLive, CustomerLive
  <2>2. ASSUME NEW g \in FulfillmentId, Exists(g)'
        PROVE  ful'[g].customer \notin goneCustomer /\ ful'[g].tier \notin goneTier
    <3>1. ASSUME NEW f \in FulfillmentId, NEW c \in Customer, NEW t \in Tier,
                 NEW type \in Types, Create(f, c, t, type)
          PROVE  ful'[g].customer \notin goneCustomer /\ ful'[g].tier \notin goneTier
      <4>1. /\ ful'[f].tier = t /\ ful'[f].customer = c
            /\ \A h \in FulfillmentId : h # f => ful'[h] = ful[h]
        BY <1>1, <3>1, CreateEffect
      <4>2. t \notin goneTier /\ c \notin goneCustomer
        BY <3>1 DEF Create, CleanupInv, GoneDeleted
      <4> QED
        BY <2>2, <4>1, <4>2 DEF CleanupInv, NoOrphans, Exists
    <3>2. ASSUME NEW f \in FulfillmentId, NEW e, Cancel(f, e)
          PROVE  ful'[g].customer \notin goneCustomer /\ ful'[g].tier \notin goneTier
      <4>1. SameOrder(f)
        BY <1>1, <3>2, TransitionEffect DEF Cancel, Statuses, Columns
      <4> QED
        BY <2>2, <4>1 DEF SameOrder, CleanupInv, NoOrphans, Exists
    <3>3. CASE Quiet
      BY <2>2, <3>3 DEF Quiet, CleanupInv, NoOrphans
    <3> QED
      BY <1>1, <1>2, <3>1, <3>2, <3>3, StepKinds DEF Service
  <2> QED
    BY <1>2, <2>1, <2>2 DEF NoOrphans, Service
<1>3. CASE Run
  <2>1. /\ UNCHANGED <<tier, customer>>
        /\ goneCustomer' = goneCustomer \cup ExpiredCustomers
        /\ goneTier' = goneTier \cup ExpiredTiers
        /\ ~Blocked
    BY <1>3 DEF Run
  <2>2. GoneDeleted'
    BY <2>1 DEF CleanupInv, GoneDeleted, TierLive, CustomerLive, ExpiredTiers,
       ExpiredCustomers, Expired
  <2>3. \A f \in FulfillmentId :
          Exists(f)' => f \notin ExpiredFulfillments /\ ful'[f] = ful[f] /\ Exists(f)
    BY <1>3, RunEffect DEF CleanupInv, Exists
  <2>4. NoOrphans'
    BY <2>1, <2>3 DEF CleanupInv, NoOrphans, Blocked
  <2> QED
    BY <2>2, <2>4
<1> QED
  BY <1>2, <1>3

-----------------------------------------------------------------------------
(* Stock *)

LEMMA CleanupReservationNext ==
    ASSUME CleanupInv, Run \/ Service
    PROVE  ReservationFollowsStatus'
<1>1. CASE Service
  BY <1>1, ReservationNext DEF Service, CleanupInv, CleanupTypeOK
<1>2. CASE Run
  BY <1>2, RunEffect DEF CleanupInv, ReservationFollowsStatus, Exists
<1> QED
  BY <1>1, <1>2

(* What is held and what is lost of a tier are apart, so that a purge moves  *)
(* units from one set to the other and the union stays.                      *)
LEMMA HeldOrLost ==
    ASSUME PurgedLongAgo, NEW t \in Tier
    PROVE  /\ IsFiniteSet(Holding(t)) /\ Cardinality(Holding(t)) \in Nat
           /\ IsFiniteSet(Lost(t)) /\ Cardinality(Lost(t)) \in Nat
           /\ Cardinality(Holding(t) \cup Lost(t)) =
                Cardinality(Holding(t)) + Cardinality(Lost(t))
<1>1. IsFiniteSet(Holding(t)) /\ Cardinality(Holding(t)) \in Nat
  BY HoldingFinite
<1>2. Lost(t) \subseteq FulfillmentId
  BY DEF Lost
<1>3. IsFiniteSet(Lost(t)) /\ Cardinality(Lost(t)) \in Nat
  BY <1>2, FulfillmentAssumption, FS_Subset, FS_CardinalityType
<1>4. Holding(t) \cap Lost(t) = {}
  BY DEF Holding, Lost, PurgedLongAgo
<1>5. Cardinality(Holding(t) \cap Lost(t)) = 0
  BY <1>4, FS_EmptySet
<1>6. Cardinality(Holding(t) \cup Lost(t)) =
        Cardinality(Holding(t)) + Cardinality(Lost(t)) - Cardinality(Holding(t) \cap Lost(t))
  BY <1>1, <1>3, FS_Union
<1> QED
  BY <1>1, <1>3, <1>5, <1>6

LEMMA HeldOrLostLater ==
    ASSUME PurgedLongAgo', NEW t \in Tier
    PROVE  /\ Cardinality(Holding(t)') \in Nat /\ Cardinality(Lost(t)') \in Nat
           /\ Cardinality(Holding(t)' \cup Lost(t)') =
                Cardinality(Holding(t)') + Cardinality(Lost(t)')
<1>1. /\ Holding(t)' \subseteq FulfillmentId /\ Lost(t)' \subseteq FulfillmentId
      /\ Holding(t)' \cap Lost(t)' = {}
  BY DEF Holding, Lost, PurgedLongAgo
<1> DEFINE H == Holding(t)'
           L == Lost(t)'
<1> HIDE DEF H, L
<1>2. H \subseteq FulfillmentId /\ L \subseteq FulfillmentId /\ H \cap L = {}
  BY <1>1 DEF H, L
<1>3. /\ IsFiniteSet(H) /\ Cardinality(H) \in Nat
      /\ IsFiniteSet(L) /\ Cardinality(L) \in Nat
  BY <1>2, FulfillmentAssumption, FS_Subset, FS_CardinalityType
<1>4. Cardinality(H \cap L) = 0
  BY <1>2, FS_EmptySet
<1>5. Cardinality(H \cup L) = Cardinality(H) + Cardinality(L) - Cardinality(H \cap L)
  BY <1>3, FS_Union
<1>6. /\ Cardinality(H) \in Nat /\ Cardinality(L) \in Nat
      /\ Cardinality(H \cup L) = Cardinality(H) + Cardinality(L)
  BY <1>3, <1>4, <1>5
<1> QED
  BY <1>6 DEF H, L

LEMMA CleanupStockNext ==
    ASSUME CleanupInv, Run \/ Service
    PROVE  StockAccounted'
<1> SUFFICES ASSUME NEW t \in Tier
             PROVE  tier'[t].inventory + Cardinality(Holding(t)') + Cardinality(Lost(t)') = Stock[t]
  BY DEF StockAccounted
<1>1. /\ Cardinality(Holding(t)) \in Nat /\ Cardinality(Lost(t)) \in Nat
      /\ Cardinality(Holding(t) \cup Lost(t)) =
           Cardinality(Holding(t)) + Cardinality(Lost(t))
  BY HeldOrLost DEF CleanupInv
<1>2. /\ Cardinality(Holding(t)') \in Nat /\ Cardinality(Lost(t)') \in Nat
      /\ Cardinality(Holding(t)' \cup Lost(t)') =
           Cardinality(Holding(t)') + Cardinality(Lost(t)')
  BY TimesNext, HeldOrLostLater
<1>3. tier[t].inventory + Cardinality(Holding(t)) + Cardinality(Lost(t)) = Stock[t]
  BY DEF CleanupInv, StockAccounted
<1>4. tier[t].inventory \in Nat /\ tier'[t].inventory \in Nat
  BY CleanupTypeNext DEF CleanupInv, CleanupTypeOK, TypeOK, TierRow
<1>5. CASE Service
  <2>1. tier'[t].inventory + Cardinality(Holding(t)') =
          tier[t].inventory + Cardinality(Holding(t))
    BY <1>5, StockStep DEF Service, CleanupInv, CleanupTypeOK
  <2>2. Lost(t)' = Lost(t)
    BY <1>5 DEF Service, Lost
  <2> QED
    BY <1>1, <1>2, <1>3, <1>4, <2>1, <2>2
<1>6. CASE Run
  <2>1. /\ tier' = tier
        /\ \A f \in FulfillmentId :
             IF f \in ExpiredFulfillments
             THEN /\ Exists(f) /\ ~Exists(f)' /\ purged'[f] = ful[f]
                  /\ reservation'[f] = "NONE"
             ELSE /\ ful'[f] = ful[f] /\ purged'[f] = purged[f]
                  /\ reservation'[f] = reservation[f]
    BY <1>6, RunEffect DEF CleanupInv
  <2>2. ASSUME NEW f \in FulfillmentId
        PROVE  f \in Holding(t)' \cup Lost(t)' <=> f \in Holding(t) \cup Lost(t)
    <3>1. CASE f \in ExpiredFulfillments
      <4>1. Exists(f) /\ ~Exists(f)' /\ purged'[f] = ful[f] /\ purged[f] = NULL
        BY <2>1, <3>1 DEF CleanupInv, PurgedLongAgo
      <4>2. reservation[f] = "ACTIVE" <=> ful[f].status # "CANCELED"
        BY <4>1 DEF CleanupInv, ReservationFollowsStatus
      <4> QED
        BY <4>1, <4>2 DEF Holding, Lost, Exists
    <3>2. CASE f \notin ExpiredFulfillments
      BY <2>1, <3>2 DEF Holding, Lost, Exists
    <3> QED
      BY <3>1, <3>2
  <2>3. Holding(t)' \cup Lost(t)' = Holding(t) \cup Lost(t)
    BY <2>2 DEF Holding, Lost
  <2>4. Cardinality(Holding(t)' \cup Lost(t)') = Cardinality(Holding(t) \cup Lost(t))
    BY <2>3
  <2>5. Cardinality(Holding(t)') + Cardinality(Lost(t)') =
          Cardinality(Holding(t)) + Cardinality(Lost(t))
    BY <1>1, <1>2, <2>4
  <2>6. tier'[t].inventory = tier[t].inventory
    BY <2>1
  <2> QED
    BY <1>1, <1>2, <1>3, <1>4, <2>5, <2>6
<1> QED
  BY <1>5, <1>6

-----------------------------------------------------------------------------
(* The purchase limit *)

(* The purchases in the window that ends with f's, purged ones included.     *)
WindowWithPurged(f) ==
    { g \in FulfillmentId :
        /\ RowOf(g) # NULL
        /\ RowOf(g).customer = RowOf(f).customer
        /\ RowOf(g).tier = RowOf(f).tier
        /\ RowOf(g).status # "CANCELED"
        /\ RowOf(g).createdAt \in (RowOf(f).createdAt - PurchaseWindow) .. RowOf(f).createdAt }

LEMMA LimitByWindow ==
    RollingLimitWithPurged <=>
        \A f \in FulfillmentId :
            RowOf(f) # NULL =>
                Cardinality(WindowWithPurged(f)) <= tier[RowOf(f).tier].limit
BY DEF RollingLimitWithPurged, WindowWithPurged

LEMMA RowOfType ==
    ASSUME CleanupTypeOK, NEW f \in FulfillmentId, RowOf(f) # NULL
    PROVE  /\ RowOf(f) \in Row
           /\ RowOf(f).tier \in Tier /\ RowOf(f).createdAt \in Nat
<1>1. RowOf(f) \in Row
  BY DEF RowOf, Exists, CleanupTypeOK, TypeOK
<1> QED
  BY <1>1 DEF Row

LEMMA WindowWithPurgedFinite ==
    \A f \in FulfillmentId : /\ IsFiniteSet(WindowWithPurged(f))
                             /\ Cardinality(WindowWithPurged(f)) \in Nat
<1> TAKE f \in FulfillmentId
<1>1. WindowWithPurged(f) \subseteq FulfillmentId
  BY DEF WindowWithPurged
<1> QED
  BY <1>1, FulfillmentAssumption, FS_Subset, FS_CardinalityType

(* A step that neither makes a purchase nor takes a cancellation back only   *)
(* shrinks the windows.                                                      *)
LEMMA WindowShrinks ==
    ASSUME CleanupTypeOK, RollingLimitWithPurged, NEW f \in FulfillmentId, RowOf(f)' # NULL,
           \A u \in Tier : tier'[u].limit = tier[u].limit,
           \A g \in FulfillmentId :
              RowOf(g)' # NULL =>
                 /\ RowOf(g) # NULL
                 /\ RowOf(g)'.customer = RowOf(g).customer
                 /\ RowOf(g)'.tier = RowOf(g).tier
                 /\ RowOf(g)'.createdAt = RowOf(g).createdAt
                 /\ RowOf(g)'.status # "CANCELED" => RowOf(g).status # "CANCELED"
    PROVE  Cardinality(WindowWithPurged(f)') <= tier'[RowOf(f)'.tier].limit
<1>1. /\ RowOf(f) # NULL /\ RowOf(f).tier \in Tier
      /\ tier'[RowOf(f)'.tier].limit = tier[RowOf(f).tier].limit
  BY RowOfType
<1>2. WindowWithPurged(f)' \subseteq WindowWithPurged(f)
  BY <1>1 DEF WindowWithPurged
<1>3. /\ Cardinality(WindowWithPurged(f)') <= Cardinality(WindowWithPurged(f))
      /\ Cardinality(WindowWithPurged(f)') \in Nat
      /\ Cardinality(WindowWithPurged(f)) \in Nat
  BY <1>2, WindowWithPurgedFinite, FS_Subset, FS_CardinalityType
<1>4. Cardinality(WindowWithPurged(f)) <= tier[RowOf(f).tier].limit
  BY <1>1, LimitByWindow
<1>5. tier[RowOf(f).tier].limit \in Nat
  BY <1>1 DEF CleanupTypeOK, TypeOK, TierRow
<1> QED
  BY <1>1, <1>3, <1>4, <1>5

(* No purge shortens what Create counts: a row that is gone is older than    *)
(* the window it would have to be in.                                        *)
LEMMA CleanupLimitCreate ==
    ASSUME CleanupInv, Service, NEW f \in FulfillmentId, NEW c \in Customer,
           NEW t \in Tier, NEW type \in Types, Create(f, c, t, type),
           NEW g \in FulfillmentId, RowOf(g)' # NULL
    PROVE  Cardinality(WindowWithPurged(g)') <= tier'[RowOf(g)'.tier].limit
<1> DEFINE P == Purchases(c, t, now - PurchaseWindow)
<1>1. /\ TypeOK /\ CleanupTypeOK /\ RollingLimitWithPurged
      /\ now \in Nat /\ PurchaseWindow \in Nat
  BY FulfillmentAssumption DEF CleanupInv, CleanupTypeOK, TypeOK
<1>2. /\ ~Exists(f) /\ Exists(f)'
      /\ ful'[f].tier = t /\ ful'[f].customer = c /\ ful'[f].createdAt = now
      /\ ful'[f].status # "CANCELED"
      /\ \A h \in FulfillmentId : h # f => ful'[h] = ful[h]
      /\ \A u \in Tier : tier'[u].limit = tier[u].limit
  BY <1>1, CreateEffect
<1>3. /\ RowOf(f)' = ful'[f] /\ RowOf(f)' # NULL
      /\ \A h \in FulfillmentId : h # f => RowOf(h)' = RowOf(h)
  BY <1>2 DEF RowOf, Exists, Service
<1>4. \A h \in FulfillmentId :
        RowOf(h) # NULL => /\ RowOf(h).createdAt \in Nat
                           /\ RowOf(h).createdAt <= now
                           /\ RowOf(h).createdAt >= now - PurchaseWindow =>
                                Exists(h) /\ RowOf(h) = ful[h]
  <2> SUFFICES ASSUME NEW h \in FulfillmentId, RowOf(h) # NULL
               PROVE  /\ RowOf(h).createdAt \in Nat
                      /\ RowOf(h).createdAt <= now
                      /\ RowOf(h).createdAt >= now - PurchaseWindow =>
                           Exists(h) /\ RowOf(h) = ful[h]
    OBVIOUS
  <2>1. RowOf(h).createdAt \in Nat
    BY <1>1, RowOfType
  <2>2. CASE Exists(h)
    BY <2>1, <2>2 DEF RowOf, CleanupInv, CreatedInPast
  <2>3. CASE ~Exists(h)
    <3>1. RowOf(h) = purged[h] /\ RowOf(h).createdAt < now - PurchaseWindow
      BY <2>3 DEF RowOf, CleanupInv, PurgedLongAgo
    <3> QED
      BY <1>1, <2>1, <3>1
  <2> QED
    BY <2>2, <2>3
<1>5. IsFiniteSet(P) /\ Cardinality(P) \in Nat
  <2>1. P \subseteq FulfillmentId
    BY DEF Purchases
  <2> QED
    BY <2>1, FulfillmentAssumption, FS_Subset, FS_CardinalityType
<1>6. Cardinality(P) < tier[t].limit /\ tier[t].limit \in Nat
  BY <1>1 DEF Create, CountByCustomerAndTier, TypeOK, TierRow
<1>7. /\ IsFiniteSet(P \cup {f}) /\ Cardinality(P \cup {f}) \in Nat
      /\ Cardinality(P \cup {f}) <= tier[t].limit
  <2>1. f \notin P
    BY <1>2 DEF Purchases
  <2> QED
    BY <1>5, <1>6, <2>1, FS_AddElement
<1>8. CASE f \in WindowWithPurged(g)'
  <2>1. /\ RowOf(g)'.customer = c /\ RowOf(g)'.tier = t
        /\ now <= RowOf(g)'.createdAt
    BY <1>2, <1>3, <1>8 DEF WindowWithPurged
  <2>2. RowOf(g)'.createdAt = now
    BY <1>1, <1>2, <1>3, <1>4, <2>1
  <2>3. ASSUME NEW h \in WindowWithPurged(g)', h # f
        PROVE  h \in P
    <3>1. /\ h \in FulfillmentId /\ RowOf(h)' = RowOf(h) /\ RowOf(h) # NULL
          /\ RowOf(h).customer = c /\ RowOf(h).tier = t
          /\ RowOf(h).status # "CANCELED"
          /\ RowOf(h).createdAt >= now - PurchaseWindow
      BY <1>3, <2>1, <2>2, <2>3 DEF WindowWithPurged
    <3>2. Exists(h) /\ RowOf(h) = ful[h]
      BY <1>4, <3>1
    <3> QED
      BY <3>1, <3>2 DEF Purchases
  <2>4. WindowWithPurged(g)' \subseteq P \cup {f}
    BY <2>3
  <2>5. /\ Cardinality(WindowWithPurged(g)') <= Cardinality(P \cup {f})
        /\ Cardinality(WindowWithPurged(g)') \in Nat
    BY <1>7, <2>4, FS_Subset, FS_CardinalityType
  <2> QED
    BY <1>2, <1>6, <1>7, <2>1, <2>5
<1>9. CASE f \notin WindowWithPurged(g)'
  <2>1. g # f
    <3>1. now >= now - PurchaseWindow /\ now <= now /\ now - PurchaseWindow \in Int
      BY <1>1
    <3> QED
      BY <1>1, <1>2, <1>3, <1>9, <3>1 DEF WindowWithPurged
  <2>2. RowOf(g)' = RowOf(g) /\ RowOf(g) # NULL /\ RowOf(g).tier \in Tier
    BY <1>1, <1>3, <2>1, RowOfType
  <2>3. ASSUME NEW h \in FulfillmentId, h \in WindowWithPurged(g)'
        PROVE  h \in WindowWithPurged(g)
    BY <1>3, <1>9, <2>2, <2>3 DEF WindowWithPurged
  <2>4. WindowWithPurged(g)' \subseteq WindowWithPurged(g)
    BY <2>3 DEF WindowWithPurged
  <2>5. /\ Cardinality(WindowWithPurged(g)') <= Cardinality(WindowWithPurged(g))
        /\ Cardinality(WindowWithPurged(g)') \in Nat
        /\ Cardinality(WindowWithPurged(g)) \in Nat
    BY <2>4, WindowWithPurgedFinite, FS_Subset, FS_CardinalityType
  <2>6. Cardinality(WindowWithPurged(g)) <= tier[RowOf(g).tier].limit
    BY <1>1, <2>2, LimitByWindow
  <2>7. tier'[RowOf(g)'.tier].limit = tier[RowOf(g).tier].limit
        /\ tier[RowOf(g).tier].limit \in Nat
    BY <1>1, <1>2, <2>2 DEF TypeOK, TierRow
  <2> QED
    BY <2>5, <2>6, <2>7
<1> QED
  BY <1>8, <1>9

LEMMA CleanupLimitNext ==
    ASSUME CleanupInv, Run \/ Service
    PROVE  RollingLimitWithPurged'
<1> SUFFICES ASSUME NEW g \in FulfillmentId, RowOf(g)' # NULL
             PROVE  Cardinality(WindowWithPurged(g)') <= tier'[RowOf(g)'.tier].limit
  BY DEF RollingLimitWithPurged, WindowWithPurged
<1>1. TypeOK /\ CleanupTypeOK /\ RollingLimitWithPurged
  BY DEF CleanupInv, CleanupTypeOK
<1>2. CASE Service
  <2>1. \A h \in FulfillmentId : purged'[h] = purged[h] /\ (purged[h] # NULL => ~Exists(h)')
    BY <1>2 DEF Service, Exists
  <2>2. ASSUME NEW f \in FulfillmentId, NEW c \in Customer, NEW t \in Tier,
               NEW type \in Types, Create(f, c, t, type)
        PROVE  Cardinality(WindowWithPurged(g)') <= tier'[RowOf(g)'.tier].limit
    BY <1>2, <2>2, CleanupLimitCreate
  <2>3. ASSUME NEW f \in FulfillmentId, NEW e, Cancel(f, e)
        PROVE  Cardinality(WindowWithPurged(g)') <= tier'[RowOf(g)'.tier].limit
    <3>1. SameOrder(f) /\ ful'[f].status = "CANCELED"
      BY <1>1, <2>3, TransitionEffect DEF Cancel, Statuses, Columns
    <3>2. \A u \in Tier : tier'[u].limit = tier[u].limit
      BY <1>1, <2>3, CancelEffect
    <3>3. ASSUME NEW h \in FulfillmentId, RowOf(h)' # NULL
          PROVE  /\ RowOf(h) # NULL
                 /\ RowOf(h)'.customer = RowOf(h).customer
                 /\ RowOf(h)'.tier = RowOf(h).tier
                 /\ RowOf(h)'.createdAt = RowOf(h).createdAt
                 /\ RowOf(h)'.status # "CANCELED" => RowOf(h).status # "CANCELED"
      BY <2>1, <3>1, <3>3 DEF SameOrder, RowOf, Exists
    <3> QED
      BY <1>1, <3>2, <3>3, WindowShrinks
  <2>4. CASE Quiet
    <3>1. \A u \in Tier : tier'[u].limit = tier[u].limit
      BY <2>4 DEF Quiet
    <3>2. ASSUME NEW h \in FulfillmentId, RowOf(h)' # NULL
          PROVE  /\ RowOf(h) # NULL
                 /\ RowOf(h)'.customer = RowOf(h).customer
                 /\ RowOf(h)'.tier = RowOf(h).tier
                 /\ RowOf(h)'.createdAt = RowOf(h).createdAt
                 /\ RowOf(h)'.status # "CANCELED" => RowOf(h).status # "CANCELED"
      BY <2>1, <2>4, <3>2 DEF Quiet, RowOf, Exists
    <3> QED
      BY <1>1, <3>1, <3>2, WindowShrinks
  <2> QED
    BY <1>1, <1>2, <2>2, <2>3, <2>4, StepKinds DEF Service
<1>3. CASE Run
  <2>1. /\ tier' = tier
        /\ \A h \in FulfillmentId :
             IF h \in ExpiredFulfillments
             THEN Exists(h) /\ ~Exists(h)' /\ purged'[h] = ful[h]
             ELSE ful'[h] = ful[h] /\ purged'[h] = purged[h]
    BY <1>1, <1>3, RunEffect
  <2>2. \A h \in FulfillmentId : RowOf(h)' = RowOf(h)
    BY <2>1 DEF RowOf, Exists
  <2> QED
    BY <1>1, <2>1, <2>2, WindowShrinks
<1> QED
  BY <1>2, <1>3

-----------------------------------------------------------------------------
(* The theorems *)

LEMMA CleanupInvInit == CleanupInit => CleanupInv
<1> SUFFICES ASSUME CleanupInit PROVE CleanupInv
  OBVIOUS
<1>1. \A f \in FulfillmentId : ~Exists(f) /\ purged[f] = NULL /\ RowOf(f) = NULL
  BY DEF CleanupInit, Init, Exists, RowOf
<1>2. CleanupTypeOK
  BY TypeInit DEF CleanupInit, CleanupTypeOK
<1>3. ReservationFollowsStatus
  BY DEF CleanupInit, Init, ReservationFollowsStatus, Exists
<1>4. StockAccounted
  <2> SUFFICES ASSUME NEW t \in Tier
               PROVE  tier[t].inventory + Cardinality(Holding(t)) + Cardinality(Lost(t)) = Stock[t]
    BY DEF StockAccounted
  <2>1. Holding(t) = {} /\ Lost(t) = {}
    BY <1>1 DEF Holding, Lost, CleanupInit, Init
  <2>2. Cardinality(Holding(t)) = 0 /\ Cardinality(Lost(t)) = 0
    BY <2>1, FS_EmptySet
  <2>3. tier[t].inventory = Stock[t] /\ Stock[t] \in Nat
    BY FulfillmentAssumption DEF CleanupInit, Init
  <2> QED
    BY <2>2, <2>3
<1>5. RollingLimitWithPurged
  BY <1>1 DEF RollingLimitWithPurged
<1> QED
  BY <1>1, <1>2, <1>3, <1>4, <1>5
     DEF CleanupInv, CreatedInPast, DeletedLater, PurgedLongAgo, GoneDeleted, NoOrphans, CleanupInit

LEMMA CleanupInvNext == CleanupInv /\ [CleanupNext]_cleanupVars => CleanupInv'
<1> SUFFICES ASSUME CleanupInv, [CleanupNext]_cleanupVars PROVE CleanupInv'
  OBVIOUS
<1>1. Run \/ Service
  BY CleanupKinds DEF CleanupInv
<1>2. CleanupTypeOK'
  BY <1>1, CleanupTypeNext DEF CleanupInv
<1> QED
  BY <1>1, <1>2, TimesNext, OrphansNext, CleanupReservationNext, CleanupStockNext,
     CleanupLimitNext DEF CleanupInv

LEMMA CleanupInvCorrect == CleanupSpec => []CleanupInv
BY CleanupInvInit, CleanupInvNext, PTL DEF CleanupSpec

(* The tables keep their types through purges (CleanupJob.Run).              *)
THEOREM CleanupTypeCorrect == CleanupSpec => []CleanupTypeOK
<1>1. CleanupInv => CleanupTypeOK
  BY DEF CleanupInv
<1> QED
  BY <1>1, CleanupInvCorrect, PTL

(* No order of deletes, restores, creations and purges leaves a fulfillment  *)
(* without its customer or tier (CleanupJob.Run and the foreign keys).       *)
THEOREM OrphansCorrect == CleanupSpec => []NoOrphans
<1>1. CleanupInv => NoOrphans
  BY DEF CleanupInv
<1> QED
  BY <1>1, CleanupInvCorrect, PTL

(* A purge loses exactly the units of the fulfillments that were deleted     *)
(* without being canceled (CleanupJob.Run, step 1).                          *)
THEOREM StockAccountedCorrect == CleanupSpec => []StockAccounted
<1>1. CleanupInv => StockAccounted
  BY DEF CleanupInv
<1> QED
  BY <1>1, CleanupInvCorrect, PTL

(* A purge never lets a customer buy above the limit, as long as the         *)
(* retention is no shorter than the purchase window (CleanupJob.Run's cutoff *)
(* against FulfillmentService.Create's).                                     *)
THEOREM LimitWithPurgedCorrect == CleanupSpec => []RollingLimitWithPurged
<1>1. CleanupInv => RollingLimitWithPurged
  BY DEF CleanupInv
<1> QED
  BY <1>1, CleanupInvCorrect, PTL
=============================================================================
