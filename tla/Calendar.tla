------------------------------ MODULE Calendar ------------------------------
(***************************************************************************)
(* Business hours, blackout dates and the deadlines the SLA service        *)
(* computes from them.  Time is the local time of the business in units;   *)
(* a date is a multiple of DayLength.  The server's own dates, by which    *)
(* blackout dates are looked up, change ServerOffset units before the      *)
(* local ones.                                                             *)
(*                                                                         *)
(* A form saves the settings one statement after another, in the order     *)
(* start, end, days (the time zone is a constant here); the API saves one  *)
(* of them at a time.                                                      *)
(***************************************************************************)
EXTENDS Integers, Sequences, FiniteSets

CONSTANTS
    DayLength,     \* units of a day
    WeekLength,    \* days of a week
    LastDay,       \* bound of a run: the last date that may be blacked out
    ServerOffset,  \* units by which the server's time zone is ahead
    Window,        \* the 30 days of blackout dates that are loaded
    Need,          \* the 4 business hours of a voucher, in units
    PhysicalSLA,   \* the 48 hours of a shipment, in units
    Forms,         \* the business hours an administrator may save
    NULL           \* no deadline, and "no form is being saved"

Key == {"opens", "closes", "days"}

Hours == [opens : 0 .. DayLength, closes : 0 .. DayLength, days : SUBSET (0 .. WeekLength - 1)]

ASSUME CalendarAssumption ==
    /\ {DayLength, WeekLength, Need, PhysicalSLA} \subseteq Nat \ {0}
    /\ {LastDay, ServerOffset, Window} \subseteq Nat
    /\ ServerOffset < DayLength
    /\ Forms \subseteq Hours
    /\ NULL \notin Hours /\ NULL \notin Nat

VARIABLES
    calendar,   \* system_settings: the business hours, key by key
    saving,     \* the form being saved and the keys still to write, or NULL
    blackouts   \* blackout_dates

calendarVars == <<calendar, saving, blackouts>>

SaveOrder == <<"opens", "closes", "days">>

CalendarTypeOK ==
    /\ calendar \in Hours
    /\ saving # NULL => saving.form \in Forms /\ saving.next \in 2 .. 3
    /\ blackouts \subseteq 0 .. LastDay

-----------------------------------------------------------------------------
(* Settings and blackout dates *)

CalendarInit ==
    /\ calendar \in Forms
    /\ saving = NULL
    /\ blackouts = {}

(* PostBusinessHours; the other two writes follow.                           *)
SaveForm(form) ==
    /\ saving = NULL
    /\ calendar' = [calendar EXCEPT !.opens = form.opens]
    /\ saving' = [form |-> form, next |-> 2]
    /\ UNCHANGED blackouts

(* An error of a write is dropped: the next key is written all the same.     *)
SaveNext(fails) ==
    /\ saving # NULL
    /\ LET k == SaveOrder[saving.next] IN
       calendar' = IF fails THEN calendar ELSE [calendar EXCEPT ![k] = saving.form[k]]
    /\ saving' = IF saving.next = 3 THEN NULL ELSE [saving EXCEPT !.next = @ + 1]
    /\ UNCHANGED blackouts

(* PUT /settings/:key: one key, to a value of any form.                      *)
SetSetting(k, form) ==
    /\ calendar' = [calendar EXCEPT ![k] = form[k]]
    /\ UNCHANGED <<saving, blackouts>>

CreateBlackoutDate(d) ==
    /\ d \notin blackouts
    /\ blackouts' = blackouts \cup {d}
    /\ UNCHANGED <<calendar, saving>>

DeleteBlackoutDate(d) ==
    /\ d \in blackouts
    /\ blackouts' = blackouts \ {d}
    /\ UNCHANGED <<calendar, saving>>

CalendarNext ==
    \/ \E form \in Forms : SaveForm(form)
    \/ \E fails \in BOOLEAN : SaveNext(fails)
    \/ \E k \in Key, form \in Forms : SetSetting(k, form)
    \/ \E d \in 0 .. LastDay : CreateBlackoutDate(d) \/ DeleteBlackoutDate(d)

CalendarSpec == CalendarInit /\ [][CalendarNext]_calendarVars

-----------------------------------------------------------------------------
(* SLAService *)

Day(t) == t \div DayLength

ServerDay(t) == (t + ServerOffset) \div DayLength

GetAfter(t) ==                                                     \* mutant
    { d \in blackouts : ServerDay(t) < d /\ d <= ServerDay(t) + Window }

(* The blackout dates between ready_at and 30 days later, both ends included *)
(* and both dates the server's.                                              *)
GetBetween(t) == { d \in blackouts : ServerDay(t) <= d /\ d <= ServerDay(t) + Window }

IsBusinessDay(cfg, black, day) == (day % WeekLength) \in cfg.days /\ day \notin black

(* Beyond the Horizon every week is the same: a search that gets there       *)
(* without success goes on for ever.                                         *)
Horizon == DayLength * (LastDay + 2 + WeekLength * (Need + 1))

(* The loop over days: each business day contributes what is left of its     *)
(* opening hours until nothing remains to be waited for.                     *)
Walk(cfg, black) ==
    LET walk[p \in (0 .. Horizon + DayLength * 2) \X (1 .. Need)] ==
          LET t     == p[1]
              left  == p[2]
              start == Day(t) * DayLength + cfg.opens
              end   == Day(t) * DayLength + cfg.closes
              from  == IF t < start THEN start ELSE t
              next  == (Day(t) + 1) * DayLength + cfg.opens
          IN IF t > Horizon THEN NULL
             ELSE IF ~IsBusinessDay(cfg, black, Day(t)) \/ from >= end THEN walk[<<next, left>>]
             ELSE IF left <= end - from THEN from + left
             ELSE walk[<<next, left - (end - from)>>]
    IN walk

(* NULL: the loop does not end.                                              *)
VoucherDeadline(cfg, black, ready) == Walk(cfg, black)[<<ready, Need>>]

PhysicalDeadline(ready) == ready + PhysicalSLA

-----------------------------------------------------------------------------
(* Properties *)

(* What a business hour is, unit by unit.                                    *)
OpenUnits(cfg, black, from, to) ==
    { u \in from .. to - 1 :
        /\ IsBusinessDay(cfg, black, Day(u))
        /\ cfg.opens <= u % DayLength
        /\ u % DayLength < cfg.closes }

(* The first moment by which Need business units have passed.                *)
ReferenceDeadline(cfg, black, ready) ==
    LET Enough == { d \in ready .. Horizon :
                      Cardinality(OpenUnits(cfg, black, ready, d)) >= Need }
    IN IF Enough = {} THEN NULL ELSE CHOOSE d \in Enough : \A e \in Enough : d <= e

(* The loop computes that moment whatever hours are saved, half saved or     *)
(* blacked out, and runs for ever exactly when there is none, as long as the *)
(* dates it loaded are the ones that count: no blackout on a local date the  *)
(* server has left behind, no deadline beyond the window.                    *)
DeadlineIsExact ==
    \A ready \in 0 .. (LastDay + 1) * DayLength - 1 :
        LET d == VoucherDeadline(calendar, GetBetween(ready), ready) IN
        /\ Day(ready) \in blackouts => Day(ready) = ServerDay(ready)
        /\ d # NULL => Day(d) <= ServerDay(ready) + Window
        => d = ReferenceDeadline(calendar, blackouts, ready)
=============================================================================
