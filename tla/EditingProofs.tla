----------------------------- MODULE EditingProofs -----------------------------
(***************************************************************************)
(* Theorems about TierEditing and CustomerEditing, for any number of       *)
(* administrators, rows and columns.  What a service's step does to the    *)
(* tables is taken from FulfillmentProofs.                                 *)
(***************************************************************************)
EXTENDS CustomerEditing, FulfillmentProofs

(* A form shows a version the row had, and under the same version the limit  *)
(* the row has.                                                              *)
FormInv ==
    \A a \in Admin :
        form[a] # NULL =>
            LET t == form[a].tier IN
            /\ form[a].version <= tier[t].version
            /\ form[a].version = tier[t].version => form[a].limit = tier[t].limit

(* What was seen of a customer and what was read for the merge lie in this   *)
(* order in the life of the row, and under the same version are the row.     *)
EditInv ==
    \A a \in Admin :
        edit[a] # NULL =>
            LET u == edit[a] IN
            /\ u.seen.version <= contact[u.c].version
            /\ u.seen.version = contact[u.c].version => u.seen = contact[u.c]
            /\ u.at = "read" =>
                 /\ u.existing \in ContactRow
                 /\ u.seen.version <= u.existing.version
                 /\ u.existing.version <= contact[u.c].version
                 /\ u.existing.version = contact[u.c].version => u.existing = contact[u.c]

EditingInv ==
    /\ CustomerEditingTypeOK
    /\ FormInv
    /\ EditInv

-----------------------------------------------------------------------------
(* Tiers *)

(* The services move a tier's stock and its deletion, never its limit or its *)
(* version.                                                                  *)
LEMMA TierKeepsEdit ==
    ASSUME TypeOK, [Next]_vars, NEW u \in Tier
    PROVE  tier'[u].limit = tier[u].limit /\ tier'[u].version = tier[u].version
<1>1. tier \in [Tier -> TierRow]
  BY DEF TypeOK
<1>2. ASSUME NEW t \in Tier, NEW n, AddInventory(t, n)
      PROVE  tier'[u].limit = tier[u].limit /\ tier'[u].version = tier[u].version
  <2>1. tier' = [tier EXCEPT ![t].inventory = @ + n]
    BY <1>2 DEF AddInventory
  <2> QED
    BY <1>1, <2>1 DEF TierRow
<1>3. ASSUME NEW t \in Tier, NEW at, tier' = [tier EXCEPT ![t].deletedAt = at]
      PROVE  tier'[u].limit = tier[u].limit /\ tier'[u].version = tier[u].version
  BY <1>1, <1>3 DEF TierRow
<1>4. ASSUME NEW f \in FulfillmentId, NEW c \in Customer, NEW t \in Tier,
             NEW type \in Types, Create(f, c, t, type)
      PROVE  tier'[u].limit = tier[u].limit /\ tier'[u].version = tier[u].version
  BY <1>2, <1>4 DEF Create, Reserve
<1>5. ASSUME NEW f \in FulfillmentId, NEW e, Cancel(f, e)
      PROVE  tier'[u].limit = tier[u].limit /\ tier'[u].version = tier[u].version
  <2>1. ful[f].tier \in Tier /\ AddInventory(ful[f].tier, 1)
    BY <1>5, CancelEffect DEF Cancel, Release
  <2> QED
    BY <1>2, <2>1
<1>6. ASSUME NEW t \in Tier, DeleteTier(t) \/ RestoreTier(t)
      PROVE  tier'[u].limit = tier[u].limit /\ tier'[u].version = tier[u].version
  BY <1>3, <1>6 DEF DeleteTier, RestoreTier
<1>7. ASSUME NEW f \in FulfillmentId, FulfillmentStep(f)
      PROVE  tier'[u].limit = tier[u].limit /\ tier'[u].version = tier[u].version
  <2>1. \/ tier' = tier
        \/ \E c \in Customer, t \in Tier, type \in Types : Create(f, c, t, type)
        \/ \E e : Cancel(f, e)
    BY <1>7 DEF FulfillmentStep, ReadyToShip, Ship, IssueVoucher, Deliver, Complete, Hold,
       UpdateShippingAddress, DeleteFulfillment, RestoreFulfillment, Open
  <2> QED
    BY <1>4, <1>5, <2>1
<1>8. \/ tier' = tier
      \/ \E f \in FulfillmentId : FulfillmentStep(f)
      \/ \E t \in Tier : DeleteTier(t) \/ RestoreTier(t)
  BY DEF Next, vars, DeleteCustomer, RestoreCustomer, ReadAddress, Tick
<1> QED
  BY <1>6, <1>7, <1>8

LEMMA NormalizeType == \A n \in Nat : NormalizePurchaseLimit(n) \in Nat \ {0}
BY TierEditingAssumption DEF NormalizePurchaseLimit

LEMMA SaveEffect ==
    ASSUME EditTypeOK, NEW a \in Admin, NEW inventory \in Count, NEW limit \in Count,
           SaveForm(a, inventory, limit)
    PROVE  /\ form[a] \in Form
           /\ tier' \in [Tier -> TierRow]
           /\ tier'[form[a].tier].version = tier[form[a].tier].version + 1
           /\ \A t \in Tier : t # form[a].tier => tier'[t] = tier[t]
           /\ granted' \in [Tier -> Nat]
           /\ form' = [form EXCEPT ![a] = NULL]
<1> DEFINE t == form[a].tier
           n == NormalizePurchaseLimit(limit)
           v == tier[t].version + 1
           r == [tier[t] EXCEPT !.inventory = inventory, !.limit = n, !.version = v]
           g == granted[t] + Delivered(form[a].inventory, inventory)
<1>1. form[a] \in Form /\ t \in Tier
  BY DEF SaveForm, EditTypeOK, Form
<1>2. tier[t] \in TierRow /\ tier \in [Tier -> TierRow]
  BY <1>1 DEF EditTypeOK, TypeOK
<1>3. n \in Nat \ {0} /\ inventory \in Nat
  BY NormalizeType, TierEditingAssumption
<1>4. v \in Nat \ {0}
  BY <1>2 DEF TierRow
<1>5. g \in Nat
  BY <1>1, <1>3 DEF EditTypeOK, Form, Delivered
<1>6. /\ tier' = [tier EXCEPT ![t] = r]
      /\ granted' = [granted EXCEPT ![t] = g]
      /\ form' = [form EXCEPT ![a] = NULL]
  BY DEF SaveForm, WriteTier
<1> HIDE DEF t, n, v, g
<1>7. r \in TierRow /\ r.version = v
  BY <1>2, <1>3, <1>4 DEF TierRow
<1> HIDE DEF r
<1>8. /\ tier' \in [Tier -> TierRow] /\ tier'[t].version = v
      /\ \A u \in Tier : u # t => tier'[u] = tier[u]
  BY <1>1, <1>2, <1>6, <1>7
<1>9. granted' \in [Tier -> Nat]
  BY <1>1, <1>5, <1>6 DEF EditTypeOK
<1> QED
  BY <1>1, <1>6, <1>8, <1>9 DEF t, v

LEMMA EditTypeNext ==
    ASSUME EditTypeOK, [EditNext]_editVars
    PROVE  EditTypeOK'
<1>1. CASE Next /\ UNCHANGED <<form, granted>>
  BY <1>1, TypeNext DEF EditTypeOK
<1>2. ASSUME NEW a \in Admin, NEW t \in Tier, OpenForm(a, t)
      PROVE  EditTypeOK'
  <2> DEFINE r == [tier |-> t, version |-> tier[t].version,
                   inventory |-> tier[t].inventory, limit |-> tier[t].limit]
  <2>1. r \in Form
    BY DEF EditTypeOK, TypeOK, TierRow, Form
  <2>2. form' = [form EXCEPT ![a] = r]
    BY <1>2 DEF OpenForm
  <2> HIDE DEF r
  <2>3. form' \in [Admin -> Form \cup {NULL}]
    BY <2>1, <2>2 DEF EditTypeOK
  <2>4. UNCHANGED <<now, tier, customer, ful, reservation, address, timeline, view, granted>>
    BY <1>2 DEF OpenForm
  <2> QED
    BY <2>3, <2>4 DEF EditTypeOK, TypeOK
<1>3. ASSUME NEW a \in Admin, NEW inventory \in Count, NEW limit \in Count,
             SaveForm(a, inventory, limit)
      PROVE  EditTypeOK'
  <2>1. /\ tier' \in [Tier -> TierRow] /\ granted' \in [Tier -> Nat]
        /\ form' = [form EXCEPT ![a] = NULL]
    BY <1>3, SaveEffect
  <2>2. form' \in [Admin -> Form \cup {NULL}]
    BY <2>1 DEF EditTypeOK
  <2>3. UNCHANGED <<now, customer, ful, reservation, address, timeline, view>>
    BY <1>3 DEF SaveForm
  <2> QED
    BY <2>1, <2>2, <2>3 DEF EditTypeOK, TypeOK
<1>4. CASE UNCHANGED editVars
  BY <1>4 DEF editVars, EditTypeOK, TypeOK
<1> QED
  BY <1>1, <1>2, <1>3, <1>4 DEF EditNext

LEMMA FormNext ==
    ASSUME EditTypeOK, FormInv, [EditNext]_editVars
    PROVE  FormInv'
<1> SUFFICES ASSUME NEW b \in Admin, form'[b] # NULL
             PROVE  /\ form'[b].version <= tier'[form'[b].tier].version
                    /\ form'[b].version = tier'[form'[b].tier].version =>
                         form'[b].limit = tier'[form'[b].tier].limit
  BY DEF FormInv
<1>1. /\ \A t \in Tier : tier[t].version \in Nat
      /\ form[b] # NULL => form[b].tier \in Tier /\ form[b].version \in Nat
      /\ form \in [Admin -> Form \cup {NULL}] /\ TypeOK
  BY DEF EditTypeOK, TypeOK, TierRow, Form
<1>2. CASE form' = form /\ \A t \in Tier : /\ tier'[t].version = tier[t].version
                                           /\ tier'[t].limit = tier[t].limit
  BY <1>1, <1>2 DEF FormInv
<1>3. CASE Next /\ UNCHANGED <<form, granted>>
  BY <1>1, <1>2, <1>3, TierKeepsEdit
<1>4. ASSUME NEW a \in Admin, NEW t \in Tier, OpenForm(a, t)
      PROVE  /\ form'[b].version <= tier'[form'[b].tier].version
             /\ form'[b].version = tier'[form'[b].tier].version =>
                  form'[b].limit = tier'[form'[b].tier].limit
  <2>1. /\ tier' = tier
        /\ form' = [form EXCEPT ![a] = [tier |-> t, version |-> tier[t].version,
                                        inventory |-> tier[t].inventory,
                                        limit |-> tier[t].limit]]
    BY <1>4 DEF OpenForm
  <2>2. CASE b = a
    BY <1>1, <2>1, <2>2
  <2>3. CASE b # a
    BY <1>1, <2>1, <2>3 DEF FormInv
  <2> QED
    BY <2>2, <2>3
<1>5. ASSUME NEW a \in Admin, NEW inventory \in Count, NEW limit \in Count,
             SaveForm(a, inventory, limit)
      PROVE  /\ form'[b].version <= tier'[form'[b].tier].version
             /\ form'[b].version = tier'[form'[b].tier].version =>
                  form'[b].limit = tier'[form'[b].tier].limit
  <2>1. /\ tier'[form[a].tier].version = tier[form[a].tier].version + 1
        /\ \A t \in Tier : t # form[a].tier => tier'[t] = tier[t]
        /\ form' = [form EXCEPT ![a] = NULL]
    BY <1>5, SaveEffect
  <2>2. form'[b] = form[b]
    BY <1>1, <2>1
  <2>3. CASE form[b].tier = form[a].tier
    BY <1>1, <2>1, <2>2, <2>3 DEF FormInv
  <2>4. CASE form[b].tier # form[a].tier
    BY <1>1, <2>1, <2>2, <2>4 DEF FormInv
  <2> QED
    BY <2>3, <2>4
<1>6. CASE UNCHANGED editVars
  BY <1>2, <1>6 DEF editVars
<1> QED
  BY <1>3, <1>4, <1>5, <1>6 DEF EditNext

-----------------------------------------------------------------------------
(* Customers *)

LEMMA ShowEffect ==
    ASSUME CustomerEditingTypeOK, NEW a \in Admin, NEW c \in Customer, ShowEdit(a, c)
    PROVE  /\ edit' \in [Admin -> Edits \cup {NULL}]
           /\ edit'[a].c = c /\ edit'[a].seen = contact[c] /\ edit'[a].at = "shown"
           /\ \A b \in Admin : b # a => edit'[b] = edit[b]
<1> DEFINE r == [at |-> "shown", c |-> c, seen |-> contact[c],
                 entered |-> {}, sent |-> {}, existing |-> NULL]
<1>1. r \in Edits /\ r.c = c /\ r.seen = contact[c] /\ r.at = "shown"
  BY DEF CustomerEditingTypeOK, Edits
<1>2. edit' = [edit EXCEPT ![a] = r] /\ edit \in [Admin -> Edits \cup {NULL}]
  BY DEF ShowEdit, CustomerEditingTypeOK
<1> HIDE DEF r
<1> QED
  BY <1>1, <1>2

LEMMA SendEffect ==
    ASSUME CustomerEditingTypeOK, NEW a \in Admin, NEW entered \in SUBSET Column,
           NEW sent \in SUBSET Column, SendUpdate(a, entered, sent)
    PROVE  /\ edit[a] # NULL
           /\ edit' \in [Admin -> Edits \cup {NULL}]
           /\ edit'[a].c = edit[a].c /\ edit'[a].seen = edit[a].seen /\ edit'[a].at = "sent"
           /\ \A b \in Admin : b # a => edit'[b] = edit[b]
<1> DEFINE r == [edit[a] EXCEPT !.at = "sent", !.entered = entered, !.sent = sent]
<1>1. edit[a] # NULL /\ edit[a] \in Edits
  BY DEF SendUpdate, CustomerEditingTypeOK
<1>2. r \in Edits /\ r.c = edit[a].c /\ r.seen = edit[a].seen /\ r.at = "sent"
  BY <1>1 DEF Edits
<1>3. edit' = [edit EXCEPT ![a] = r] /\ edit \in [Admin -> Edits \cup {NULL}]
  BY DEF SendUpdate, CustomerEditingTypeOK
<1> HIDE DEF r
<1> QED
  BY <1>1, <1>2, <1>3

LEMMA ReadEffect ==
    ASSUME CustomerEditingTypeOK, NEW a \in Admin, ReadExisting(a)
    PROVE  /\ edit[a] # NULL /\ edit[a] \in Edits
           /\ edit' \in [Admin -> Edits \cup {NULL}]
           /\ \/ edit'[a] = NULL
              \/ /\ edit'[a].c = edit[a].c /\ edit'[a].seen = edit[a].seen
                 /\ edit'[a].existing = contact[edit[a].c]
           /\ \A b \in Admin : b # a => edit'[b] = edit[b]
<1> DEFINE x == contact[edit[a].c]
           r == [edit[a] EXCEPT !.at = "read", !.existing = x]
<1>1. edit[a] # NULL /\ edit[a] \in Edits
  BY DEF ReadExisting, CustomerEditingTypeOK
<1>2. x \in ContactRow
  BY <1>1 DEF CustomerEditingTypeOK, Edits
<1>3. /\ \/ edit' = [edit EXCEPT ![a] = r]
         \/ edit' = [edit EXCEPT ![a] = NULL]
      /\ edit \in [Admin -> Edits \cup {NULL}]
  BY DEF ReadExisting, CustomerEditingTypeOK
<1> HIDE DEF x
<1>4. r \in Edits /\ r.c = edit[a].c /\ r.seen = edit[a].seen /\ r.existing = x
  BY <1>1, <1>2 DEF Edits
<1> HIDE DEF r
<1> QED
  BY <1>1, <1>3, <1>4 DEF x

(* A write leaves the row as it was or gives it the next version.            *)
LEMMA WriteEffect ==
    ASSUME CustomerEditingTypeOK, EditInv, NEW a \in Admin, WriteCustomer(a)
    PROVE  /\ edit' = [edit EXCEPT ![a] = NULL]
           /\ contact' \in [Customer -> ContactRow]
           /\ \A c \in Customer : \/ contact'[c] = contact[c]
                                  \/ contact'[c].version = contact[c].version + 1
<1> DEFINE u == edit[a]
           v == contact[u.c].version + 1
           m == [k \in Column |-> Merged(u, k)]
           r == [version |-> v, cols |-> m]
<1>1. /\ edit[a] # NULL /\ u \in Edits /\ u.c \in Customer /\ u.seen \in ContactRow
      /\ u.existing \in ContactRow
  BY DEF WriteCustomer, CustomerEditingTypeOK, Edits, EditInv
<1>2. edit' = [edit EXCEPT ![a] = NULL]
  BY DEF WriteCustomer
<1>3. contact \in [Customer -> ContactRow] /\ contact[u.c] \in ContactRow
  BY <1>1 DEF CustomerEditingTypeOK
<1>4. CASE contact' = contact
  BY <1>2, <1>3, <1>4
<1>5. CASE contact' # contact
  <2>1. contact[u.c].version < MaxVersion /\ contact' = [contact EXCEPT ![u.c] = r]
    BY <1>5 DEF WriteCustomer
  <2>2. v \in 1 .. MaxVersion
    BY <1>3, <2>1, CustomerEditingAssumption DEF ContactRow
  <2>3. \A k \in Column : Merged(u, k) \in 1 .. MaxVersion
    BY <1>1, <2>2 DEF ContactRow, Merged
  <2>4. m \in [Column -> 1 .. MaxVersion]
    BY <2>3
  <2> HIDE DEF v, m, u
  <2>5. r \in ContactRow /\ r.version = v
    BY <2>2, <2>4 DEF ContactRow
  <2> HIDE DEF r
  <2>6. /\ contact' \in [Customer -> ContactRow]
        /\ \A c \in Customer : \/ contact'[c] = contact[c]
                               \/ c = u.c /\ contact'[c].version = v
    BY <1>1, <1>3, <2>1, <2>5
  <2>7. \A c \in Customer : \/ contact'[c] = contact[c]
                            \/ contact'[c].version = contact[c].version + 1
    BY <2>6 DEF v
  <2> QED
    BY <1>2, <2>6, <2>7
<1> QED
  BY <1>4, <1>5

-----------------------------------------------------------------------------
(* The steps of the editors of customers *)

LEMMA EditorKinds ==
    ASSUME CustomerEditingTypeOK, [CustomerEditingNext]_allEditVars
    PROVE  \/ [EditNext]_editVars /\ UNCHANGED customerVars
           \/ \E a \in Admin :
                \/ \E c \in Customer : ShowEdit(a, c)
                \/ \E entered, sent \in SUBSET Column : SendUpdate(a, entered, sent)
                \/ ReadExisting(a) \/ WriteCustomer(a)
BY DEF CustomerEditingNext, allEditVars

(* None of them writes a tier, and a form is at most closed.                 *)
LEMMA EditorsKeepTiers ==
    ASSUME EditTypeOK, NEW a \in Admin,
           \/ \E c \in Customer : ShowEdit(a, c)
           \/ \E entered, sent \in SUBSET Column : SendUpdate(a, entered, sent)
           \/ ReadExisting(a) \/ WriteCustomer(a)
    PROVE  /\ UNCHANGED <<vars, granted>>
           /\ form' \in [Admin -> Form \cup {NULL}]
           /\ \A b \in Admin : form'[b] \in {form[b], NULL}
<1>1. /\ UNCHANGED <<vars, granted>>
      /\ form' = form \/ form' = [form EXCEPT ![a] = NULL]
  <2>1. CASE \E c \in Customer : ShowEdit(a, c)
    BY <2>1 DEF ShowEdit
  <2>2. CASE UNCHANGED editVars
    BY <2>2 DEF editVars, vars
  <2> QED
    BY <2>1, <2>2 DEF SendUpdate, ReadExisting, WriteCustomer
<1>2. form \in [Admin -> Form \cup {NULL}]
  BY DEF EditTypeOK
<1> QED
  BY <1>1, <1>2

LEMMA CustomerEditingTypeNext ==
    ASSUME CustomerEditingTypeOK, EditInv, [CustomerEditingNext]_allEditVars
    PROVE  CustomerEditingTypeOK'
<1>1. CASE [EditNext]_editVars /\ UNCHANGED customerVars
  BY <1>1, EditTypeNext DEF CustomerEditingTypeOK, customerVars
<1>2. ASSUME NEW a \in Admin,
             \/ \E c \in Customer : ShowEdit(a, c)
             \/ \E entered, sent \in SUBSET Column : SendUpdate(a, entered, sent)
             \/ ReadExisting(a) \/ WriteCustomer(a)
      PROVE  CustomerEditingTypeOK'
  <2>1. EditTypeOK'
    <3>1. /\ UNCHANGED <<vars, granted>>
          /\ form' \in [Admin -> Form \cup {NULL}]
      BY <1>2, EditorsKeepTiers DEF CustomerEditingTypeOK
    <3> QED
      BY <3>1 DEF CustomerEditingTypeOK, EditTypeOK, TypeOK, vars
  <2>2. CASE WriteCustomer(a)
    <3>1. edit' = [edit EXCEPT ![a] = NULL] /\ contact' \in [Customer -> ContactRow]
      BY <2>2, WriteEffect
    <3>2. edit' \in [Admin -> Edits \cup {NULL}]
      BY <3>1 DEF CustomerEditingTypeOK
    <3> QED
      BY <2>1, <3>1, <3>2 DEF CustomerEditingTypeOK
  <2>3. CASE ~WriteCustomer(a)
    <3>1. contact' = contact
      BY <1>2, <2>3 DEF ShowEdit, SendUpdate, ReadExisting
    <3>2. edit' \in [Admin -> Edits \cup {NULL}]
      <4>1. ASSUME NEW c \in Customer, ShowEdit(a, c)
            PROVE  edit' \in [Admin -> Edits \cup {NULL}]
        BY <4>1, ShowEffect
      <4>2. ASSUME NEW entered \in SUBSET Column, NEW sent \in SUBSET Column,
                   SendUpdate(a, entered, sent)
            PROVE  edit' \in [Admin -> Edits \cup {NULL}]
        BY <4>2, SendEffect
      <4>3. CASE ReadExisting(a)
        BY <4>3, ReadEffect
      <4> QED
        BY <1>2, <2>3, <4>1, <4>2, <4>3
    <3> QED
      BY <2>1, <3>1, <3>2 DEF CustomerEditingTypeOK
  <2> QED
    BY <2>2, <2>3
<1> QED
  BY <1>1, <1>2, EditorKinds

LEMMA CustomerFormNext ==
    ASSUME CustomerEditingTypeOK, FormInv, [CustomerEditingNext]_allEditVars
    PROVE  FormInv'
<1>1. CASE [EditNext]_editVars /\ UNCHANGED customerVars
  BY <1>1, FormNext DEF CustomerEditingTypeOK
<1>2. ASSUME NEW a \in Admin,
             \/ \E c \in Customer : ShowEdit(a, c)
             \/ \E entered, sent \in SUBSET Column : SendUpdate(a, entered, sent)
             \/ ReadExisting(a) \/ WriteCustomer(a)
      PROVE  FormInv'
  <2>1. tier' = tier /\ \A b \in Admin : form'[b] \in {form[b], NULL}
    BY <1>2, EditorsKeepTiers DEF CustomerEditingTypeOK, vars
  <2> QED
    BY <2>1 DEF FormInv
<1> QED
  BY <1>1, <1>2, EditorKinds

(* What EditInv says of one editor.                                          *)
InOrder(u, row) ==
    /\ u.seen.version <= row.version
    /\ u.seen.version = row.version => u.seen = row
    /\ u.at = "read" =>
         /\ u.existing \in ContactRow
         /\ u.seen.version <= u.existing.version
         /\ u.existing.version <= row.version
         /\ u.existing.version = row.version => u.existing = row

(* A row that was read stays in order when the row gets a later version.     *)
LEMMA LaterRow ==
    ASSUME NEW u \in Edits, NEW row \in ContactRow, NEW later,
           later.version = row.version + 1, InOrder(u, row)
    PROVE  InOrder(u, later)
<1>1. u.seen.version \in Nat /\ row.version \in Nat
  BY DEF Edits, ContactRow
<1>2. u.at = "read" => u.existing.version \in Nat
  BY DEF InOrder, ContactRow
<1> QED
  BY <1>1, <1>2 DEF InOrder

LEMMA EditInvNext ==
    ASSUME CustomerEditingTypeOK, EditInv, [CustomerEditingNext]_allEditVars
    PROVE  EditInv'
<1> SUFFICES ASSUME NEW b \in Admin, edit'[b] # NULL
             PROVE  InOrder(edit'[b], contact'[edit'[b].c])
  BY DEF EditInv, InOrder
<1>1. edit[b] # NULL => /\ edit[b] \in Edits /\ edit[b].c \in Customer
                        /\ contact[edit[b].c] \in ContactRow
                        /\ InOrder(edit[b], contact[edit[b].c])
  BY DEF CustomerEditingTypeOK, Edits, EditInv, InOrder
<1>2. CASE [EditNext]_editVars /\ UNCHANGED customerVars
  BY <1>1, <1>2 DEF customerVars
<1>3. ASSUME NEW a \in Admin, NEW c \in Customer, ShowEdit(a, c)
      PROVE  InOrder(edit'[b], contact'[edit'[b].c])
  <2>1. contact' = contact
    BY <1>3 DEF ShowEdit
  <2>2. CASE b = a
    <3>1. /\ edit'[b].c = c /\ edit'[b].seen = contact[c] /\ edit'[b].at = "shown"
          /\ contact[c].version \in Nat
      BY <1>3, <2>2, ShowEffect DEF CustomerEditingTypeOK, ContactRow
    <3> QED
      BY <2>1, <3>1 DEF InOrder
  <2>3. CASE b # a
    BY <1>1, <1>3, <2>1, <2>3, ShowEffect
  <2> QED
    BY <2>2, <2>3
<1>4. ASSUME NEW a \in Admin, NEW entered \in SUBSET Column, NEW sent \in SUBSET Column,
             SendUpdate(a, entered, sent)
      PROVE  InOrder(edit'[b], contact'[edit'[b].c])
  <2>1. contact' = contact
    BY <1>4 DEF SendUpdate
  <2>2. CASE b = a
    <3>1. /\ edit[b] # NULL
          /\ edit'[b].c = edit[b].c /\ edit'[b].seen = edit[b].seen /\ edit'[b].at = "sent"
      BY <1>4, <2>2, SendEffect
    <3> QED
      BY <1>1, <2>1, <3>1 DEF InOrder
  <2>3. CASE b # a
    BY <1>1, <1>4, <2>1, <2>3, SendEffect
  <2> QED
    BY <2>2, <2>3
<1>5. ASSUME NEW a \in Admin, ReadExisting(a)
      PROVE  InOrder(edit'[b], contact'[edit'[b].c])
  <2>1. contact' = contact
    BY <1>5 DEF ReadExisting
  <2>2. CASE b = a
    <3>1. /\ edit[b] # NULL
          /\ edit'[b].c = edit[b].c /\ edit'[b].seen = edit[b].seen
          /\ edit'[b].existing = contact[edit[b].c]
      BY <1>5, <2>2, ReadEffect
    <3>2. contact[edit[b].c].version \in Nat
      BY <1>1, <3>1 DEF ContactRow
    <3> QED
      BY <1>1, <2>1, <3>1, <3>2 DEF InOrder
  <2>3. CASE b # a
    BY <1>1, <1>5, <2>1, <2>3, ReadEffect
  <2> QED
    BY <2>2, <2>3
<1>6. ASSUME NEW a \in Admin, WriteCustomer(a)
      PROVE  InOrder(edit'[b], contact'[edit'[b].c])
  <2>1. /\ edit' = [edit EXCEPT ![a] = NULL]
        /\ \A c \in Customer : \/ contact'[c] = contact[c]
                               \/ contact'[c].version = contact[c].version + 1
    BY <1>6, WriteEffect
  <2>2. edit'[b] = edit[b] /\ edit[b] # NULL
    BY <2>1 DEF CustomerEditingTypeOK
  <2>3. CASE contact'[edit[b].c] = contact[edit[b].c]
    BY <1>1, <2>2, <2>3
  <2>4. CASE contact'[edit[b].c].version = contact[edit[b].c].version + 1
    BY <1>1, <2>2, <2>4, LaterRow
  <2> QED
    BY <1>1, <2>1, <2>2, <2>3, <2>4
<1> QED
  BY <1>2, <1>3, <1>4, <1>5, <1>6, EditorKinds

-----------------------------------------------------------------------------
(* The theorems *)

LEMMA EditingInvInit == CustomerEditingInit => EditingInv
<1> SUFFICES ASSUME CustomerEditingInit PROVE EditingInv
  OBVIOUS
<1>1. EditTypeOK
  BY TypeInit, FulfillmentAssumption DEF CustomerEditingInit, EditInit, EditTypeOK
<1>2. contact \in [Customer -> ContactRow] /\ edit \in [Admin -> Edits \cup {NULL}]
  BY CustomerEditingAssumption DEF CustomerEditingInit, ContactRow
<1> QED
  BY <1>1, <1>2 DEF CustomerEditingInit, EditInit, EditingInv, CustomerEditingTypeOK, FormInv,
     EditInv

LEMMA EditingInvCorrect == CustomerEditingSpec => []EditingInv
<1>1. EditingInv /\ [CustomerEditingNext]_allEditVars => EditingInv'
  BY CustomerEditingTypeNext, CustomerFormNext, EditInvNext DEF EditingInv
<1> QED
  BY <1>1, EditingInvInit, PTL DEF CustomerEditingSpec

(* Tier forms, customer pages and their rows keep their types, a limit that  *)
(* is not above zero included (NormalizePurchaseLimit).                      *)
THEOREM EditingTypeCorrect == CustomerEditingSpec => []CustomerEditingTypeOK
<1>1. EditingInv => CustomerEditingTypeOK
  BY DEF EditingInv
<1> QED
  BY <1>1, EditingInvCorrect, PTL

(* A tier form that Update's version check would accept shows the limit the  *)
(* row has, so administrators never overwrite each other's.                  *)
THEOREM TierEditCorrect == CustomerEditingSpec => []NoLostTierEdit
<1>1. EditingInv => NoLostTierEdit
  BY DEF EditingInv, FormInv, NoLostTierEdit, Matches
<1> QED
  BY <1>1, EditingInvCorrect, PTL

(* An accepted update of a customer overwrites what its editor saw and       *)
(* leaves every column alone that the editor did, whichever columns the      *)
(* request sent again or the handler read for the merge (Update, PostUpdate).*)
THEOREM ContactEditCorrect == CustomerEditingSpec => NoLostContactEdit
<1>1. ASSUME EditingInv, NEW a \in Admin, WriteCustomer(a), contact' # contact
      PROVE  /\ contact[edit[a].c] = edit[a].seen
             /\ \A k \in Column \ edit[a].entered :
                  contact'[edit[a].c].cols[k] = contact[edit[a].c].cols[k]
  <2> DEFINE u == edit[a]
             row == contact[u.c]
  <2>1. /\ u \in Edits /\ u.c \in Customer /\ u.seen \in ContactRow /\ row \in ContactRow
        /\ contact \in [Customer -> ContactRow] /\ InOrder(u, row) /\ u.at = "read"
    BY <1>1 DEF EditingInv, CustomerEditingTypeOK, Edits, EditInv, InOrder, WriteCustomer
  <2>2. /\ row.version = u.seen.version
        /\ contact' = [contact EXCEPT ![u.c] = [version |-> row.version + 1,
                                                cols |-> [k \in Column |-> Merged(u, k)]]]
    BY <1>1 DEF WriteCustomer, CustomerMatches
  <2>3. u.seen.version \in Nat /\ u.existing.version \in Nat
    BY <2>1 DEF InOrder, ContactRow
  <2>4. u.seen = row /\ u.existing = row
    BY <2>1, <2>2, <2>3 DEF InOrder
  <2>5. contact'[u.c].cols = [k \in Column |-> Merged(u, k)]
    BY <2>1, <2>2
  <2>6. \A k \in Column \ u.entered : Merged(u, k) = row.cols[k]
    BY <2>4 DEF Merged
  <2> QED
    BY <2>4, <2>5, <2>6
<1>2. EditingInv => [\A a \in Admin :
                       WriteCustomer(a) /\ contact' # contact =>
                          LET u == edit[a] IN
                          /\ contact[u.c] = u.seen
                          /\ \A k \in Column \ u.entered :
                               contact'[u.c].cols[k] = contact[u.c].cols[k]]_allEditVars
  BY <1>1
<1> QED
  BY <1>2, EditingInvCorrect, PTL DEF NoLostContactEdit
=============================================================================
