-------------------------- MODULE CustomerEditing --------------------------
(***************************************************************************)
(* Staff edit the contact columns of customers, beside the edits of tiers  *)
(* and the deletions of Fulfillment.  An update merges three readings of   *)
(* one row: what the editor saw, with the version that comes back with the *)
(* request; what the handler reads when the request arrives, to keep the   *)
(* columns that were not sent; and the row the UPDATE finds.               *)
(*                                                                         *)
(* A bound: a browser has a tier or a customer open, not both at a time.   *)
(***************************************************************************)
EXTENDS TierEditing

CONSTANTS
    Column    \* phone, email, address; the name is always sent

\* A row is inserted with version 1.
ASSUME CustomerEditingAssumption == MaxVersion \in Nat \ {0}

VARIABLES
    contact,  \* customers: version and the encrypted columns
    edit      \* what an editor sees of a customer, or has sent, or NULL

customerVars == <<contact, edit>>

allEditVars == <<editVars, customerVars>>

(* The value of a column is named by the version it was written with.        *)
ContactRow == [version : 1 .. MaxVersion, cols : [Column -> 1 .. MaxVersion]]

Edits == [at : {"shown", "sent", "read"}, c : Customer, seen : ContactRow,
          entered : SUBSET Column, sent : SUBSET Column, existing : ContactRow \cup {NULL}]

CustomerEditingTypeOK ==
    /\ EditTypeOK
    /\ contact \in [Customer -> ContactRow]
    /\ edit \in [Admin -> Edits \cup {NULL}]

CustomerEditingInit ==
    /\ EditInit
    /\ contact = [c \in Customer |-> [version |-> 1, cols |-> [k \in Column |-> 1]]]
    /\ edit = [a \in Admin |-> NULL]

-----------------------------------------------------------------------------
(* The page, or GET of the API, instead of what the browser showed.          *)
ShowEdit(a, c) ==
    /\ CustomerLive(c)
    /\ edit' = [edit EXCEPT ![a] = [at |-> "shown", c |-> c, seen |-> contact[c],
                                    entered |-> {}, sent |-> {}, existing |-> NULL]]
    /\ form' = [form EXCEPT ![a] = NULL]
    /\ UNCHANGED <<vars, granted, contact>>

(* The editor enters some columns.  The API sends these, the page also the   *)
(* others, as it shows them; a column the page shows empty counts as not sent.*)
SendUpdate(a, entered, sent) ==
    /\ edit[a] # NULL /\ edit[a].at = "shown"
    /\ entered \subseteq sent
    /\ edit' = [edit EXCEPT ![a].at = "sent", ![a].entered = entered, ![a].sent = sent]
    /\ UNCHANGED <<editVars, contact>>

(* The row is read once more, for the columns that were not sent.            *)
ReadExisting(a) ==
    /\ edit[a] # NULL /\ edit[a].at = "sent"
    /\ LET u == edit[a] IN
       edit' = [edit EXCEPT ![a] = IF CustomerLive(u.c)
                                   THEN [u EXCEPT !.at = "read", !.existing = contact[u.c]]
                                   ELSE NULL]
    /\ UNCHANGED <<editVars, contact>>

CustomerMatchesAny(c, version) == CustomerLive(c)                  \* mutant

(* WHERE id = c AND version = $7 AND deleted_at IS NULL, with the version of *)
(* the page and not the one just read.                                       *)
CustomerMatches(c, version) == CustomerLive(c) /\ contact[c].version = version

(* What the UPDATE writes: entered, sent again, or read just now.            *)
Merged(u, k) ==
    IF k \in u.entered THEN contact[u.c].version + 1
    ELSE IF k \in u.sent THEN u.seen.cols[k]
    ELSE u.existing.cols[k]

WriteCustomer(a) ==
    /\ edit[a] # NULL /\ edit[a].at = "read"
    /\ LET u == edit[a] IN
       IF CustomerMatches(u.c, u.seen.version)
       THEN /\ contact[u.c].version < MaxVersion
            /\ contact' = [contact EXCEPT ![u.c] = [version |-> @.version + 1,
                                                    cols |-> [k \in Column |-> Merged(u, k)]]]
       ELSE UNCHANGED contact
    /\ edit' = [edit EXCEPT ![a] = NULL]
    /\ UNCHANGED editVars

CustomerEditingNext ==
    \/ /\ EditNext
       /\ UNCHANGED customerVars
       /\ \A a \in Admin : edit[a] # NULL => form'[a] = NULL
    \/ \E a \in Admin :
         \/ \E c \in Customer : ShowEdit(a, c)
         \/ \E entered, sent \in SUBSET Column : SendUpdate(a, entered, sent)
         \/ ReadExisting(a) \/ WriteCustomer(a)

CustomerEditingSpec == CustomerEditingInit /\ [][CustomerEditingNext]_allEditVars

-----------------------------------------------------------------------------
(* Properties *)

(* An accepted update overwrites what its editor saw and nothing else, and   *)
(* leaves every column alone that the editor did: neither a page's columns   *)
(* sent again nor the columns read for the merge bring back a value that     *)
(* somebody else has replaced since, through any order of readings, deletions*)
(* and restores (Update and PostUpdate check the version of the page).       *)
NoLostContactEdit ==
    [][\A a \in Admin :
         WriteCustomer(a) /\ contact' # contact =>
            LET u == edit[a] IN
            /\ contact[u.c] = u.seen
            /\ \A k \in Column \ u.entered : contact'[u.c].cols[k] = contact[u.c].cols[k]]_allEditVars
=============================================================================
