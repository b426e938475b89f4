---------------------------- MODULE TierEditing ----------------------------
(***************************************************************************)
(* Administrators edit reward tiers while fulfillments move their stock.   *)
(* An edit is a form: the row is read into it (ShowEdit, or GET of the     *)
(* API), and the whole row comes back with the version it was read at      *)
(* (Update).  Update writes inventory_count as an absolute value and       *)
(* raises the version; reservations and releases move inventory_count      *)
(* relative to what it is and do not.                                      *)
(***************************************************************************)
EXTENDS Fulfillment

CONSTANTS
    Admin,      \* the administrators' browsers
    Count,      \* the counts an administrator may type
    DefaultLimit   \* purchase limit that replaces one not above zero

ASSUME TierEditingAssumption ==
    /\ Count \subseteq Nat
    /\ DefaultLimit \in Nat \ {0}

VARIABLES
    form,       \* the tier row in an administrator's open form, or NULL
    granted     \* history: the units administrators ever put on each shelf

editVars == <<now, tier, customer, ful, reservation, address, timeline, view, form, granted>>

Form == [tier : Tier, version : Nat \ {0}, inventory : Nat, limit : Nat \ {0}]

EditTypeOK ==
    /\ TypeOK
    /\ form \in [Admin -> Form \cup {NULL}]
    /\ granted \in [Tier -> Nat]

EditInit ==
    /\ Init
    /\ form = [a \in Admin |-> NULL]
    /\ granted = Stock

NormalizeKeepsZero(n) == n                                         \* mutant

(* An unset limit (or one that does not parse) becomes the default. *)
NormalizePurchaseLimit(n) == IF n <= 0 THEN DefaultLimit ELSE n

OpenForm(a, t) ==
    /\ TierLive(t)
    /\ form' = [form EXCEPT ![a] = [tier |-> t, version |-> tier[t].version,
                                    inventory |-> tier[t].inventory, limit |-> tier[t].limit]]
    /\ UNCHANGED <<now, tier, customer, ful, reservation, address, timeline, view, granted>>

MatchesAnyVersion(t, version) == TierLive(t)                       \* mutant

(* WHERE id = t AND version = $8 AND deleted_at IS NULL *)
Matches(t, version) == TierLive(t) /\ tier[t].version = version

WriteTier(t, inventory, limit) ==
    tier' = [tier EXCEPT ![t].inventory = inventory, ![t].limit = limit,
                         ![t].version = @ + 1]

(* A count above the one the form showed is a delivery of new units; a count *)
(* below it takes units off the shelf, which were put there all the same.    *)
Delivered(shown, entered) == IF entered > shown THEN entered - shown ELSE 0

SaveForm(a, inventory, limit) ==
    /\ form[a] # NULL
    /\ LET t == form[a].tier IN
       /\ Matches(t, form[a].version)
       /\ tier[t].version < MaxVersion
       /\ WriteTier(t, inventory, NormalizePurchaseLimit(limit))
       /\ granted' = [granted EXCEPT ![t] = @ + Delivered(form[a].inventory, inventory)]
    /\ form' = [form EXCEPT ![a] = NULL]
    /\ UNCHANGED <<now, customer, ful, reservation, address, timeline, view>>

EditNext ==
    \/ Next /\ UNCHANGED <<form, granted>>
    \/ \E a \in Admin :
         \/ \E t \in Tier : OpenForm(a, t)
         \/ \E inventory, limit \in Count : SaveForm(a, inventory, limit)

EditSpec == EditInit /\ [][EditNext]_editVars

-----------------------------------------------------------------------------
(* Properties *)

(* Two administrators cannot overwrite each other: a form that would still   *)
(* be accepted shows the limit the row has now (Update's version check).     *)
NoLostTierEdit ==
    \A a \in Admin :
        form[a] # NULL /\ Matches(form[a].tier, form[a].version) =>
            form[a].limit = tier[form[a].tier].limit

(* What the design promises: "Prevent inventory oversell under concurrent    *)
(* fulfillment operations".  No more units are reserved than administrators  *)
(* ever put on the shelf.  It does not hold: a save writes back the count    *)
(* its form was read with and so undoes the reservations made since, because *)
(* DecrementInventory leaves the version the save checks untouched.          *)
NoOversell == \A t \in Tier : Cardinality(Holding(t)) <= granted[t]
=============================================================================
