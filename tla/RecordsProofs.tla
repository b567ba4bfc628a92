---------------------------- MODULE RecordsProofs ----------------------------
(***************************************************************************)
(* Proofs about Records, for any number of rows, parties, values, phones   *)
(* and pulls.  The inductive invariant says where a form's contents came   *)
(* from: it holds what it was filled with, but for what was touched, and   *)
(* only a form that was never filled has nothing to compare with.  Such a  *)
(* form cannot reach a live row, but for a customer's.                     *)
(***************************************************************************)
EXTENDS Records, TLAPS

Fates == {"nothing", "duplicate", "failed", "saved"}
Forms ==
  [open : BOOLEAN, id : Ids \cup {None}, listed : SUBSET Parties,
   fields : Contents, was : Contents \cup {None}, touched : SUBSET Fields]
Sheets == [id : Ids, row : StoredRow \cup {None}]

(***************************************************************************)
(* The inductive invariant.                                                *)
(***************************************************************************)
TypeOK ==
  /\ kind \in Kinds
  /\ rows \in [Ids -> StoredRow \cup {None}]
  /\ parties \in [Parties -> {"none", "active", "off"}]
  /\ shown \in [Ids -> StoredRow \cup {None}]
  /\ sheet \in Sheets \cup {None}
  /\ form \in Forms
  /\ told \in Fates
  /\ taps \in Nat /\ changes \in Nat

\* Only employees can be deactivated.
Stocked == kind # "advance" => Active # {}

\* Customers and services are never paid.
NeverPaid == kind \in {"customer", "service"}
Owing ==
  NeverPaid => /\ ~form.fields.paid
               /\ \A id \in Ids : rows[id] # None => ~rows[id].paid

\* One of the sheets is open at a time.
OneAtATime ==
  /\ form.open \/ kind = "service" => sheet = None
  /\ told = "duplicate" => kind = "customer"

\* Only customers make way for others: a row that is listed is there.
Known ==
  kind # "customer" =>
    /\ \A id \in Ids : shown[id] # None => rows[id] # None
    /\ sheet # None => rows[sheet.id] # None

\* A form holds what it was filled with, but for what was touched.
Dead(id) == rows[id] # None /\ ~rows[id].live
Kept(f) ==
  /\ f.fields.paid = f.was.paid
  /\ "party" \in f.touched \/ f.fields.party = f.was.party
  /\ "value" \in f.touched \/ f.fields.value = f.was.value
  /\ "mode" \in f.touched \/ f.fields.mode = f.was.mode
  /\ "phone" \in f.touched \/ f.fields.phone = f.was.phone
  /\ "on" \in f.touched \/ f.fields.on = f.was.on
  /\ "today" \in f.touched \/ f.fields.today = f.was.today
Unfilled(f) ==
  \/ kind = "customer"
  \/ Dead(f.id)
  \/ kind = "advance" /\ f.listed = {}
FormKnows ==
  form.open /\ form.id # None =>
    /\ form.was # None => Kept(form)
    /\ form.was = None => Unfilled(form)

RecordsInv ==
  /\ TypeOK /\ Stocked /\ Owing /\ OneAtATime /\ Known /\ FormKnows
  /\ OnePhoneEach

(***************************************************************************)
(* What the operators of the model return.                                 *)
(***************************************************************************)
LEMMA FreshIsBlank ==
  Fresh \in Contents /\ ~Fresh.paid
BY DEF Fresh, Contents

\* Every field of a form is written as it is; the payment stays, but for that
\* of an expense that is no credit.
LEMMA RowOfForm ==
  ASSUME NEW f \in Contents
  PROVE  /\ Row(f) \in StoredRow /\ Row(f) # None
         /\ Row(f).live
         /\ Row(f).party = f.party /\ Row(f).value = f.value
         /\ Row(f).phone = f.phone /\ Row(f).on = f.on
         /\ Row(f).today = f.today /\ Row(f).mode = f.mode
         /\ f.paid \/ ~Row(f).paid
         /\ (kind = "expense" /\ f.mode # "credit") \/ Row(f).paid = f.paid
<1> DEFINE d == Draft(f)
<1>1. d \in Contents
  <2>1. CASE kind = "expense"
    <3>1. d = [f EXCEPT !.paid = f.mode = "credit" /\ f.paid]
      BY <2>1 DEF Draft, ExpenseDraft
    <3> QED  BY <3>1 DEF Contents
  <2>2. CASE kind # "expense"
    BY <2>2 DEF Draft
  <2> QED  BY <2>1, <2>2
<1>2. /\ d.party = f.party /\ d.value = f.value /\ d.phone = f.phone
      /\ d.on = f.on /\ d.today = f.today /\ d.mode = f.mode
  BY DEF Draft, ExpenseDraft, Contents
<1>3. /\ f.paid \/ ~d.paid
      /\ (kind = "expense" /\ f.mode # "credit") \/ d.paid = f.paid
  <2>1. CASE kind = "expense"
    <3>1. d = [f EXCEPT !.paid = f.mode = "credit" /\ f.paid]
      BY <2>1 DEF Draft, ExpenseDraft
    <3>2. d.paid = (f.mode = "credit" /\ f.paid) /\ f.paid \in BOOLEAN
      BY <3>1 DEF Contents
    <3> HIDE DEF d
    <3> QED  BY <2>1, <3>2, Zenon
  <2>2. CASE kind # "expense"
    <3>1. d = f
      BY <2>2 DEF Draft
    <3> QED  BY <2>2, <3>1, Zenon
  <2> QED  BY <2>1, <2>2
<1>4. Row(f) = [party |-> d.party, value |-> d.value, phone |-> d.phone,
                on |-> d.on, today |-> d.today, mode |-> d.mode,
                paid |-> d.paid, live |-> TRUE]
  BY DEF Row
<1> HIDE DEF d
<1>5. Row(f) \in StoredRow
  <2>1. /\ d.party \in Parties \cup {None} /\ d.value \in Nat
        /\ d.phone \in Phones \cup {None} /\ d.on \in BOOLEAN
        /\ d.today \in BOOLEAN /\ d.mode \in {"cash", "credit"}
        /\ d.paid \in BOOLEAN
    BY <1>1 DEF Contents
  <2> QED  BY <1>4, <2>1 DEF StoredRow
<1>6. /\ Row(f).live
      /\ Row(f).party = d.party /\ Row(f).value = d.value
      /\ Row(f).phone = d.phone /\ Row(f).on = d.on
      /\ Row(f).today = d.today /\ Row(f).mode = d.mode
      /\ Row(f).paid = d.paid
  BY <1>4
<1>7. Row(f) # None
  BY <1>5, NoneAssumption
<1>8. /\ Row(f).party = f.party /\ Row(f).value = f.value
      /\ Row(f).phone = f.phone /\ Row(f).on = f.on
      /\ Row(f).today = f.today /\ Row(f).mode = f.mode
  BY <1>2, <1>6
<1>9. /\ f.paid \/ ~Row(f).paid
      /\ (kind = "expense" /\ f.mode # "credit") \/ Row(f).paid = f.paid
  BY <1>3, <1>6, Zenon
<1> QED  BY <1>5, <1>6, <1>7, <1>8, <1>9

LEMMA FieldsOfRow ==
  ASSUME NEW row \in StoredRow
  PROVE  /\ Content(row) \in Contents /\ Content(row) # None
         /\ Content(row).party = row.party /\ Content(row).value = row.value
         /\ Content(row).phone = row.phone /\ Content(row).on = row.on
         /\ Content(row).today = row.today /\ Content(row).mode = row.mode
         /\ Content(row).paid = row.paid
BY NoneAssumption DEF Content, Contents, StoredRow

\* A list shows no row that is not there.
LEMMA ListedIsThere ==
  ASSUME NEW new \in [Ids -> StoredRow \cup {None}]
  PROVE  /\ Loaded(new) \in [Ids -> StoredRow \cup {None}]
         /\ \A id \in Ids : Loaded(new)[id] # None => new[id] # None
BY DEF Loaded

\* What a pull brings is a row that is there, and paid only if its kind can be.
LEMMA VersionIsRow ==
  ASSUME TypeOK, Owing, NEW id \in Ids, NEW row \in Versions(id)
  PROVE  row \in StoredRow /\ row # None /\ row.live
         /\ (NeverPaid => ~row.paid)
<1> DEFINE old == IF rows[id] = None THEN Content(Fresh) ELSE Content(rows[id])
<1> DEFINE owing == kind \in {"expense", "advance"} /\ old.mode = "credit"
<1> DEFINE Brought == [party : IF kind = "customer" THEN {None} ELSE Active,
                       value : Values,
                       phone : IF kind = "customer" THEN Phones ELSE {None},
                       paid : IF owing THEN {old.paid, TRUE} ELSE {FALSE}]
<1>1. old \in Contents
  <2>1. Content(Fresh) \in Contents
    BY FreshIsBlank DEF Content, Contents
  <2>2. rows[id] \in StoredRow \cup {None}
    BY DEF TypeOK
  <2>3. rows[id] # None => Content(rows[id]) \in Contents
    BY <2>2, FieldsOfRow
  <2> QED  BY <2>1, <2>3
<1>2. PICK new \in Brought :
        row = [party |-> new.party, value |-> new.value, phone |-> new.phone,
               on |-> old.on, today |-> old.today, mode |-> old.mode,
               paid |-> new.paid, live |-> TRUE]
  <2>1. Versions(id) =
          {[party |-> b.party, value |-> b.value, phone |-> b.phone,
            on |-> old.on, today |-> old.today, mode |-> old.mode,
            paid |-> b.paid, live |-> TRUE] : b \in Brought}
    BY DEF Versions
  <2> HIDE DEF old, Brought
  <2> QED  BY <2>1
<1>3. /\ new.value \in Nat /\ new.party \in Parties \cup {None}
      /\ new.phone \in Phones \cup {None}
  BY KindsAssumption DEF Active
<1>4. new.paid \in BOOLEAN /\ (NeverPaid => new.paid = FALSE)
  <2>1. old.paid \in BOOLEAN
    BY <1>1 DEF Contents
  <2>2. NeverPaid => ~owing
    BY DEF NeverPaid
  <2>3. new.paid \in IF owing THEN {old.paid, TRUE} ELSE {FALSE}
    OBVIOUS
  <2> HIDE DEF owing, old, Brought
  <2> QED  BY <2>1, <2>2, <2>3
<1> HIDE DEF old, owing, Brought
<1>5. /\ old.on \in BOOLEAN /\ old.today \in BOOLEAN
      /\ old.mode \in {"cash", "credit"}
  BY <1>1 DEF Contents
<1>6. row \in StoredRow
  BY <1>2, <1>3, <1>4, <1>5 DEF StoredRow
<1>7. row.live /\ row.paid = new.paid
  BY <1>2
<1> QED  BY <1>4, <1>6, <1>7, NoneAssumption

(***************************************************************************)
(* What the writers do to the rows.                                        *)
(***************************************************************************)
\* A row is marked: it stays, with its phone and its payment, and a deleted one
\* stays as it is.
Marks(new) ==
  /\ new \in [Ids -> StoredRow \cup {None}]
  /\ \A x \in Ids :
       /\ rows[x] = None <=> new[x] = None
       /\ rows[x] # None => /\ new[x].phone = rows[x].phone
                            /\ rows[x].paid => new[x].paid
                            /\ ~rows[x].live => new[x] = rows[x]

LEMMA DeletingMarks ==
  ASSUME TypeOK, NEW id \in Ids
  PROVE  /\ Marks(Deleted(id))
         /\ \A x \in Ids : rows[x] # None => Deleted(id)[x].paid = rows[x].paid
<1> DEFINE gone == [rows[id] EXCEPT !.live = FALSE]
<1>0. rows \in [Ids -> StoredRow \cup {None}]
  BY DEF TypeOK
<1>1. CASE Live(id)
  <2>1. Deleted(id) = [rows EXCEPT ![id] = gone]
    BY <1>1 DEF Deleted, Guarded, Put
  <2>2. rows[id] \in StoredRow
    BY <1>0, <1>1 DEF Live
  <2>3. /\ gone \in StoredRow /\ gone.phone = rows[id].phone
        /\ gone.paid = rows[id].paid
    BY <2>2 DEF StoredRow
  <2>4. rows[id] # None /\ rows[id].live /\ gone # None
    BY <1>1, <2>3, NoneAssumption DEF Live
  <2> HIDE DEF gone
  <2> QED  BY <1>0, <2>1, <2>3, <2>4 DEF Marks
<1>2. CASE ~Live(id)
  <2>1. Deleted(id) = rows
    BY <1>2 DEF Deleted, Guarded
  <2> QED  BY <1>0, <2>1 DEF Marks
<1> QED  BY <1>1, <1>2

LEMMA PayingMarks ==
  ASSUME TypeOK, NEW id \in Ids
  PROVE  Marks(CreditPaid(id)) /\ Marks(AdvanceSettled(id))
<1> DEFINE paid == [rows EXCEPT ![id] = [rows[id] EXCEPT !.paid = TRUE]]
<1>0. rows \in [Ids -> StoredRow \cup {None}]
  BY DEF TypeOK
<1>1. Marks(rows)
  BY <1>0 DEF Marks
<1>2. Live(id) => Marks(paid)
  <2> SUFFICES ASSUME Live(id)
               PROVE  Marks(paid)
    OBVIOUS
  <2> DEFINE row == [rows[id] EXCEPT !.paid = TRUE]
  <2>1. rows[id] \in StoredRow
    BY <1>0 DEF Live
  <2>2. row \in StoredRow /\ row.phone = rows[id].phone /\ row.paid
    BY <2>1 DEF StoredRow
  <2>3. rows[id] # None /\ rows[id].live /\ row # None
    BY <2>2, NoneAssumption DEF Live
  <2>4. paid = [rows EXCEPT ![id] = row]
    OBVIOUS
  <2> HIDE DEF row, paid
  <2> QED  BY <1>0, <2>2, <2>3, <2>4 DEF Marks
<1>3. CreditPaid(id) = rows \/ (Live(id) /\ CreditPaid(id) = paid)
  BY DEF CreditPaid, Put
<1>4. AdvanceSettled(id) = rows \/ (Live(id) /\ AdvanceSettled(id) = paid)
  BY DEF AdvanceSettled, Put
<1> HIDE DEF paid
<1> QED  BY <1>1, <1>2, <1>3, <1>4

\* A save writes one row: a new one, or the live one that the form is about.
Saved(id, new) ==
  /\ new \in [Ids -> StoredRow \cup {None}]
  /\ \A x \in Ids : x # id => new[x] = rows[x]
  /\ \/ /\ \/ form.id = None /\ rows[id] = None
           \/ form.id = id /\ Live(id)
        /\ new[id] = Row(form.fields)
     \/ ~Live(id) /\ form.id # None /\ new = rows
LEMMA SavingWrites ==
  ASSUME TypeOK,
         NEW id \in IF form.id = None THEN {x \in Ids : rows[x] = None}
                    ELSE {form.id}
  PROVE  id \in Ids /\ Saved(id, Written(id)) /\ form.id \in {None, id}
<1>0. /\ rows \in [Ids -> StoredRow \cup {None}]
      /\ form.id \in Ids \cup {None} /\ form.fields \in Contents
  BY DEF TypeOK, Forms
<1>1. /\ id \in Ids /\ form.id \in {None, id}
      /\ IF form.id = None THEN rows[id] = None ELSE form.id = id
  BY <1>0
<1>2. Row(form.fields) \in StoredRow
  BY <1>0, RowOfForm
<1>3. Put(id, Row(form.fields)) = [rows EXCEPT ![id] = Row(form.fields)]
  BY DEF Put
<1>4. CASE form.id = None
  <2>1. Written(id) = [rows EXCEPT ![id] = Row(form.fields)]
    BY <1>3, <1>4 DEF Written
  <2>2. rows[id] = None
    BY <1>1, <1>4
  <2> QED  BY <1>0, <1>1, <1>2, <1>4, <2>1, <2>2 DEF Saved
<1>5. CASE form.id # None /\ Live(id)
  BY <1>0, <1>1, <1>2, <1>3, <1>5 DEF Written, Guarded, Live, Saved
<1>6. CASE form.id # None /\ ~Live(id)
  BY <1>0, <1>1, <1>6 DEF Written, Guarded, Saved
<1> QED  BY <1>1, <1>4, <1>5, <1>6

LEMMA SavedStays ==
  ASSUME TypeOK, NEW id \in Ids, NEW new, Saved(id, new), NEW x \in Ids,
         rows[x] # None
  PROVE  new[x] # None /\ (~rows[x].live => new[x] = rows[x])
<1>1. Row(form.fields) # None
  BY RowOfForm DEF TypeOK, Forms
<1> QED  BY <1>1 DEF Saved, Live

(***************************************************************************)
(* How a form is filled.                                                   *)
(***************************************************************************)
LEMMA FilledKnows ==
  ASSUME TypeOK, Stocked, Owing, NEW id \in Ids,
         kind # "customer" => rows[id] # None
  PROVE  /\ Filled(id) \in Forms
         /\ Filled(id).open /\ Filled(id).id = id
         /\ NeverPaid => ~Filled(id).fields.paid
         /\ Filled(id).was # None => Kept(Filled(id))
         /\ Filled(id).was = None => Unfilled(Filled(id))
<1> DEFINE screen == kind \in {"expense", "advance"}
           found == Live(id) /\ (screen => Active # {})
           blank == IF screen THEN Fresh ELSE form.fields
           fields == IF found THEN Content(rows[id]) ELSE blank
           was == IF found THEN Content(rows[id]) ELSE None
<1>1. Filled(id) = [open |-> TRUE, id |-> id, listed |-> Active,
                    fields |-> fields, was |-> was, touched |-> {}]
  BY DEF Filled
<1>2. form.fields \in Contents /\ rows[id] \in StoredRow \cup {None}
  BY DEF TypeOK, Forms
<1>3. found => /\ Content(rows[id]) \in Contents
               /\ Content(rows[id]).paid = rows[id].paid
  BY <1>2, FieldsOfRow DEF Live
<1>4. fields \in Contents /\ was \in Contents \cup {None}
  BY <1>2, <1>3, FreshIsBlank
<1>5. Filled(id) \in Forms
  <2>1. Active \in SUBSET Parties /\ {} \in SUBSET Fields
    BY DEF Active
  <2> HIDE DEF fields, was
  <2> QED  BY <1>1, <1>4, <2>1 DEF Forms
<1>6. NeverPaid => ~fields.paid
  <2> SUFFICES ASSUME NeverPaid
               PROVE  ~fields.paid
    OBVIOUS
  <2>1. ~form.fields.paid /\ (rows[id] # None => ~rows[id].paid)
    BY DEF Owing
  <2>2. ~blank.paid
    BY <2>1, FreshIsBlank
  <2>3. CASE found
    <3>1. ~Content(rows[id]).paid
      BY <1>3, <2>1, <2>3 DEF Live
    <3> QED  BY <2>3, <3>1
  <2>4. CASE ~found
    BY <2>2, <2>4
  <2> QED  BY <2>3, <2>4
<1>7. was # None => fields = was
  OBVIOUS
<1>8. was = None => \/ kind = "customer" \/ Dead(id)
                    \/ kind = "advance" /\ Active = {}
  <2> SUFFICES ASSUME was = None
               PROVE  \/ kind = "customer" \/ Dead(id)
                      \/ kind = "advance" /\ Active = {}
    OBVIOUS
  <2>1. ~found
    BY <1>3, NoneAssumption
  <2>2. Live(id) => Active = {}
    BY <2>1
  <2> QED  BY <2>2 DEF Dead, Live, Stocked
<1>9. /\ Filled(id).open /\ Filled(id).id = id /\ Filled(id).listed = Active
      /\ Filled(id).fields = fields /\ Filled(id).was = was
  BY <1>1
<1> HIDE DEF fields, was
<1>10. was # None => Kept(Filled(id))
  BY <1>7, <1>9 DEF Kept
<1>11. was = None => Unfilled(Filled(id))
  BY <1>8, <1>9 DEF Unfilled
<1> QED  BY <1>5, <1>6, <1>9, <1>10, <1>11

(***************************************************************************)
(* The invariant is kept where a step leaves its variables alone.          *)
(***************************************************************************)
LEMMA SameFormKnows ==
  ASSUME TypeOK, FormKnows, UNCHANGED <<kind, form>>,
         kind # "customer" => \A x \in Ids : Dead(x) => Dead(x)'
  PROVE  FormKnows'
<1> SUFFICES ASSUME form.open, form.id # None
             PROVE  /\ form.was # None => Kept(form)
                    /\ form.was = None => Unfilled(form)'
  BY DEF FormKnows, Kept
<1>1. form.id \in Ids
  BY DEF TypeOK, Forms
<1>2. form.was = None => Unfilled(form)
  BY DEF FormKnows
<1> QED  BY <1>1, <1>2 DEF Unfilled, FormKnows, Dead

LEMMA SameRowsOnePhone ==
  ASSUME OnePhoneEach, UNCHANGED <<kind, rows>>
  PROVE  OnePhoneEach'
BY DEF OnePhoneEach

LEMMA SameRowsKnown ==
  ASSUME Known, UNCHANGED <<kind, rows, shown, sheet>>
  PROVE  Known'
BY DEF Known

LEMMA SameRowsOwing ==
  ASSUME Owing, UNCHANGED <<kind, rows>>, NeverPaid => ~form'.fields.paid
  PROVE  Owing'
BY DEF Owing, NeverPaid

LEMMA SameParties ==
  ASSUME Stocked, UNCHANGED <<kind, parties>>
  PROVE  Stocked'
BY DEF Stocked, Active

LEMMA MarkedRows ==
  ASSUME TypeOK, OnePhoneEach, UNCHANGED kind, Marks(rows')
  PROVE  /\ OnePhoneEach'
         /\ rows' \in [Ids -> StoredRow \cup {None}]
         /\ \A x \in Ids : rows[x] # None => rows'[x] # None
         /\ \A x \in Ids : Dead(x) => Dead(x)'
<1>1. OnePhoneEach'
  BY DEF OnePhoneEach, Marks
<1>2. \A x \in Ids : Dead(x) => Dead(x)'
  BY DEF Marks, Dead
<1> QED  BY <1>1, <1>2 DEF Marks

(***************************************************************************)
(* The steps of a form.                                                    *)
(***************************************************************************)
\* What each screen offers for each of its fields.
Fits(field, value) ==
  \/ field = "party" /\ value \in Parties
  \/ field = "value" /\ value \in Nat
  \/ field = "mode" /\ value \in {"cash", "credit"}
  \/ field = "phone" /\ value \in Phones
  \/ field = "on" /\ value \in BOOLEAN
  \/ field = "today" /\ value \in BOOLEAN

LEMMA TouchedFields ==
  ASSUME form \in Forms, NEW field, NEW value, Fits(field, value)
  PROVE  LET f == [form EXCEPT !.fields[field] = value,
                               !.touched = @ \cup {field}]
         IN /\ f \in Forms
            /\ f.open = form.open /\ f.id = form.id /\ f.listed = form.listed
            /\ f.was = form.was
            /\ f.fields.paid = form.fields.paid
            /\ Kept(form) => Kept(f)
<1> DEFINE f == [form EXCEPT !.fields[field] = value,
                             !.touched = @ \cup {field}]
           g == [form.fields EXCEPT ![field] = value]
<1>0. form.fields \in Contents /\ form.touched \in SUBSET Fields
  BY DEF Forms
<1>a. f = [form EXCEPT !.fields = g, !.touched = form.touched \cup {field}]
  OBVIOUS
<1>1. /\ f.open = form.open /\ f.id = form.id /\ f.listed = form.listed
      /\ f.was = form.was /\ f.fields = g
      /\ f.touched = form.touched \cup {field}
      /\ f = [open |-> form.open, id |-> form.id, listed |-> form.listed,
              fields |-> g, was |-> form.was,
              touched |-> form.touched \cup {field}]
  <2> HIDE DEF f, g
  <2> QED  BY <1>a DEF Forms
<1>2. field \in Fields
  BY DEF Fits, Fields
<1>3. /\ g \in Contents
      /\ g.paid = form.fields.paid
      /\ field = "party" \/ g.party = form.fields.party
      /\ field = "value" \/ g.value = form.fields.value
      /\ field = "mode" \/ g.mode = form.fields.mode
      /\ field = "phone" \/ g.phone = form.fields.phone
      /\ field = "on" \/ g.on = form.fields.on
      /\ field = "today" \/ g.today = form.fields.today
  <2>1. CASE field = "party" /\ value \in Parties
    BY <1>0, <2>1 DEF Contents
  <2>2. CASE field = "value" /\ value \in Nat
    BY <1>0, <2>2 DEF Contents
  <2>3. CASE field = "mode" /\ value \in {"cash", "credit"}
    BY <1>0, <2>3 DEF Contents
  <2>4. CASE field = "phone" /\ value \in Phones
    BY <1>0, <2>4 DEF Contents
  <2>5. CASE field = "on" /\ value \in BOOLEAN
    BY <1>0, <2>5 DEF Contents
  <2>6. CASE field = "today" /\ value \in BOOLEAN
    BY <1>0, <2>6 DEF Contents
  <2> QED  BY <2>1, <2>2, <2>3, <2>4, <2>5, <2>6 DEF Fits
<1> HIDE DEF g
<1>4. f \in Forms
  BY <1>0, <1>1, <1>2, <1>3 DEF Forms
<1> HIDE DEF f
<1>5. f.fields.paid = form.fields.paid
  BY <1>1, <1>3
<1>6. Kept(form) => Kept(f)
  BY <1>1, <1>3 DEF Kept
<1> QED  BY <1>1, <1>4, <1>5, <1>6 DEF f

LEMMA TouchKeeps ==
  ASSUME RecordsInv, NEW field, NEW value, Fits(field, value),
         Touch(field, value)
  PROVE  RecordsInv'
<1> USE DEF RecordsInv
<1>1. /\ form' = [form EXCEPT !.fields[field] = value,
                              !.touched = @ \cup {field}]
      /\ UNCHANGED <<kind, rows, parties, shown, sheet, told, changes>>
      /\ taps' = taps + 1 /\ form.open
  BY DEF Touch
<1>2. form \in Forms
  BY DEF TypeOK
<1>3. /\ form' \in Forms
      /\ form'.open = form.open /\ form'.id = form.id
      /\ form'.listed = form.listed /\ form'.was = form.was
      /\ form'.fields.paid = form.fields.paid
      /\ Kept(form) => Kept(form')
  BY <1>1, <1>2, TouchedFields
<1>4. TypeOK'
  <2>1. taps \in Nat
    BY DEF TypeOK
  <2>2. taps' \in Nat
    BY <1>1, <2>1
  <2> QED  BY <1>1, <1>3, <2>2 DEF TypeOK
<1>5. FormKnows'
  <2>1. form.id # None => /\ form.was # None => Kept(form)
                          /\ form.was = None => Unfilled(form)
    BY <1>1 DEF FormKnows
  <2>2. Unfilled(form) => Unfilled(form)'
    BY <1>1, <1>3 DEF Unfilled, Dead
  <2>3. Kept(form) => Kept(form)'
    BY <1>3 DEF Kept
  <2> QED  BY <1>3, <2>1, <2>2, <2>3 DEF FormKnows
<1>6. Owing'
  <2>1. NeverPaid => ~form.fields.paid
    BY DEF Owing
  <2> QED  BY <1>1, <1>3, <2>1, SameRowsOwing
<1>7. OneAtATime'
  BY <1>1, <1>3 DEF OneAtATime
<1> QED  BY <1>1, <1>4, <1>5, <1>6, <1>7, SameRowsOnePhone, SameRowsKnown,
            SameParties

LEMMA TypingKeeps ==
  ASSUME RecordsInv,
         TouchExpense \/ TouchAdvance \/ TouchCustomer \/ TouchService
  PROVE  RecordsInv'
<1>1. PICK field, value : Touch(field, value) /\ Fits(field, value)
  <2>0. form.listed \subseteq Parties /\ Values \subseteq Nat
    BY KindsAssumption DEF RecordsInv, TypeOK, Forms
  <2>1. CASE TouchExpense
    BY <2>0, <2>1 DEF TouchExpense, Fits
  <2>2. CASE TouchAdvance
    BY <2>0, <2>2 DEF TouchAdvance, Fits
  <2>3. CASE TouchCustomer
    BY <2>0, <2>3 DEF TouchCustomer, Fits
  <2>4. CASE TouchService
    BY <2>0, <2>4 DEF TouchService, Fits
  <2> QED  BY <2>1, <2>2, <2>3, <2>4
<1> QED  BY <1>1, TouchKeeps

LEMMA OpenNewKeeps ==
  ASSUME RecordsInv, NEW p \in Active \cup {None}, OpenNew(p)
  PROVE  RecordsInv'
<1> USE DEF RecordsInv
<1> DEFINE fields == [Fresh EXCEPT !.party = p]
<1>1. /\ form' = [open |-> TRUE, id |-> None, listed |-> Active,
                  fields |-> fields, was |-> None, touched |-> {}]
      /\ UNCHANGED <<kind, rows, parties, shown, sheet, taps, changes>>
      /\ told' = "nothing" /\ sheet = None
  BY DEF OpenNew, Closed
<1>2. fields \in Contents /\ ~fields.paid
  BY FreshIsBlank DEF Active, Contents
<1> HIDE DEF fields
<1>3. form' \in Forms /\ form'.fields = fields /\ form'.id = None
  <2>1. Active \in SUBSET Parties
    BY DEF Active
  <2> QED  BY <1>1, <1>2, <2>1 DEF Forms
<1>4. TypeOK'
  BY <1>1, <1>3 DEF TypeOK, Fates
<1>5. FormKnows'
  BY <1>3 DEF FormKnows
<1>6. OneAtATime'
  BY <1>1 DEF OneAtATime
<1>7. Owing'
  BY <1>1, <1>2, <1>3, SameRowsOwing
<1> QED  BY <1>1, <1>4, <1>5, <1>6, <1>7, SameRowsOnePhone, SameRowsKnown,
            SameParties

LEMMA EditKeeps ==
  ASSUME RecordsInv, NEW id \in Ids, kind # "customer" => rows[id] # None,
         form' = Filled(id), told' = "nothing", sheet' = None,
         UNCHANGED <<kind, rows, parties, shown, taps, changes>>
  PROVE  RecordsInv'
<1> USE DEF RecordsInv
<1>1. /\ form' \in Forms /\ form'.id = id /\ form'.open
      /\ NeverPaid => ~form'.fields.paid
      /\ form'.was # None => Kept(form')
      /\ form'.was = None => Unfilled(form')
  BY FilledKnows
<1>2. TypeOK'
  BY <1>1 DEF TypeOK, Fates
<1>3. FormKnows'
  <2>1. Kept(form') => Kept(form)'
    BY DEF Kept
  <2>2. Unfilled(form') => Unfilled(form)'
    BY DEF Unfilled, Dead
  <2> QED  BY <1>1, <2>1, <2>2 DEF FormKnows
<1>4. OneAtATime'
  BY DEF OneAtATime
<1>5. Owing'
  BY <1>1, SameRowsOwing
<1>6. Known'
  BY DEF Known
<1> QED  BY <1>2, <1>3, <1>4, <1>5, <1>6, SameRowsOnePhone, SameParties

LEMMA EditingKeeps ==
  ASSUME RecordsInv, EditFromSheet \/ \E id \in Ids : EditService(id)
  PROVE  RecordsInv'
<1>1. CASE EditFromSheet
  <2>1. sheet.id \in Ids
    BY <1>1 DEF EditFromSheet, RecordsInv, TypeOK, Sheets
  <2>2. kind # "customer" => rows[sheet.id] # None
    BY <1>1 DEF EditFromSheet, RecordsInv, Known
  <2> QED  BY <1>1, <2>1, <2>2, EditKeeps DEF EditFromSheet
<1>2. CASE \E id \in Ids : EditService(id)
  <2>1. PICK id \in Ids : EditService(id)
    BY <1>2
  <2>2. kind # "customer" => rows[id] # None
    BY <2>1 DEF EditService, RecordsInv, Known
  <2>3. sheet' = None
    BY <2>1 DEF EditService, RecordsInv, OneAtATime
  <2> QED  BY <2>1, <2>2, <2>3, EditKeeps DEF EditService
<1> QED  BY <1>1, <1>2

LEMMA AddCategoryKeeps ==
  ASSUME RecordsInv, NEW p \in Parties, AddCategory(p)
  PROVE  RecordsInv'
<1> USE DEF RecordsInv
<1> DEFINE f == [form EXCEPT !.fields["party"] = p,
                             !.touched = @ \cup {"party"}]
<1>1. /\ UNCHANGED <<kind, rows, shown, sheet, told, changes>>
      /\ parties' = [parties EXCEPT ![p] = "active"]
      /\ kind \in {"expense", "service"} /\ form.open /\ taps' = taps + 1
  BY DEF AddCategory
<1>2. /\ f \in Forms
      /\ f.open = form.open /\ f.id = form.id /\ f.was = form.was
      /\ f.fields.paid = form.fields.paid
      /\ Kept(form) => Kept(f)
  <2>1. Fits("party", p) /\ form \in Forms
    BY DEF Fits, TypeOK
  <2> HIDE DEF f
  <2> QED  BY <2>1, TouchedFields DEF f
<1>3. form' = [f EXCEPT !.listed = Active \cup {p}]
  <2>1. form' = [form EXCEPT !.fields.party = p,
                             !.touched = @ \cup {"party"},
                             !.listed = Active \cup {p}]
    BY DEF AddCategory
  <2>2. form \in Forms
    BY DEF TypeOK
  <2> QED  BY <2>1, <2>2 DEF Forms
<1> HIDE DEF f
<1>4. /\ form' \in Forms
      /\ form'.open = form.open /\ form'.id = form.id /\ form'.was = form.was
      /\ form'.fields = f.fields /\ form'.touched = f.touched
  <2>1. Active \cup {p} \in SUBSET Parties
    BY DEF Active
  <2> QED  BY <1>2, <1>3, <2>1 DEF Forms
<1>5. TypeOK'
  <2>1. taps \in Nat /\ parties \in [Parties -> {"none", "active", "off"}]
    BY DEF TypeOK
  <2>2. taps' \in Nat /\ parties' \in [Parties -> {"none", "active", "off"}]
    BY <1>1, <2>1
  <2> QED  BY <1>1, <1>4, <2>2 DEF TypeOK
<1>6. Stocked'
  <2>1. p \in Active'
    BY <1>1 DEF Active, TypeOK
  <2> QED  BY <2>1 DEF Stocked
<1>7. FormKnows'
  <2>1. form.id # None => /\ form.was # None => Kept(form)
                          /\ form.was = None => Unfilled(form)
    BY <1>1 DEF FormKnows
  <2>2. Unfilled(form) => Unfilled(form)'
    BY <1>1, <1>4 DEF Unfilled, Dead
  <2>3. Kept(form) => Kept(form)'
    BY <1>2, <1>4 DEF Kept
  <2> QED  BY <1>4, <2>1, <2>2, <2>3 DEF FormKnows
<1>8. Owing'
  <2>1. NeverPaid => ~form.fields.paid
    BY DEF Owing
  <2> QED  BY <1>1, <1>2, <1>4, <2>1, SameRowsOwing
<1>9. OneAtATime'
  BY <1>1, <1>4 DEF OneAtATime
<1> QED  BY <1>1, <1>5, <1>6, <1>7, <1>8, <1>9, SameRowsOnePhone,
            SameRowsKnown

\* A form that is closed holds what it held.
LEMMA ClosedForm ==
  ASSUME RecordsInv, form' = Closed(form.fields)
  PROVE  /\ form' \in Forms /\ ~form'.open /\ form'.fields = form.fields
         /\ FormKnows'
<1>1. form' = [open |-> FALSE, id |-> None, listed |-> {},
               fields |-> form.fields, was |-> None, touched |-> {}]
  BY DEF Closed
<1>2. form.fields \in Contents
  BY DEF RecordsInv, TypeOK, Forms
<1> QED  BY <1>1, <1>2 DEF Forms, FormKnows

LEMMA CancelKeeps ==
  ASSUME RecordsInv, Cancel
  PROVE  RecordsInv'
<1> USE DEF RecordsInv
<1>1. /\ UNCHANGED <<kind, rows, parties, sheet, told, taps, changes>>
      /\ form' = Closed(form.fields) /\ form.open
      /\ shown' = Loaded(rows) \/ shown' = shown
  BY DEF Cancel
<1>2. form' \in Forms /\ ~form'.open /\ form'.fields = form.fields /\ FormKnows'
  BY <1>1, ClosedForm
<1>3. rows \in [Ids -> StoredRow \cup {None}]
  BY DEF TypeOK
<1>4. TypeOK'
  BY <1>1, <1>2, <1>3, ListedIsThere DEF TypeOK
<1>5. Known'
  BY <1>1, <1>3, ListedIsThere DEF Known
<1>6. OneAtATime'
  BY <1>1, <1>2 DEF OneAtATime
<1>7. Owing'
  BY <1>1, <1>2, SameRowsOwing DEF Owing
<1> QED  BY <1>1, <1>2, <1>4, <1>5, <1>6, <1>7, SameRowsOnePhone, SameParties

LEMMA RefusedKeeps ==
  ASSUME RecordsInv, Refused
  PROVE  RecordsInv'
<1> USE DEF RecordsInv
<1>1. /\ UNCHANGED <<kind, rows, parties, shown, sheet, form, taps, changes>>
      /\ told' \in Fates /\ kind = "customer"
  BY DEF Refused, Fates
<1>2. TypeOK'
  BY <1>1 DEF TypeOK
<1>3. OneAtATime'
  BY <1>1 DEF OneAtATime
<1>4. FormKnows'
  BY <1>1, SameFormKnows
<1>5. Owing'
  BY <1>1, SameRowsOwing DEF Owing
<1> QED  BY <1>1, <1>2, <1>3, <1>4, <1>5, SameRowsOnePhone, SameRowsKnown,
            SameParties

LEMMA JumpKeeps ==
  ASSUME RecordsInv, NEW c \in Ids, JumpToExisting(c)
  PROVE  RecordsInv'
<1> USE DEF RecordsInv
<1>1. /\ UNCHANGED <<kind, rows, parties, shown, taps, changes>>
      /\ form' = Closed(form.fields) /\ sheet' = [id |-> c, row |-> rows[c]]
      /\ told' = "nothing" /\ kind = "customer"
  BY DEF JumpToExisting, OneAtATime
<1>2. form' \in Forms /\ ~form'.open /\ form'.fields = form.fields /\ FormKnows'
  BY <1>1, ClosedForm
<1>3. sheet' \in Sheets
  BY <1>1 DEF TypeOK, Sheets
<1>4. TypeOK'
  BY <1>1, <1>2, <1>3 DEF TypeOK, Fates
<1>5. Known'
  BY <1>1 DEF Known
<1>6. OneAtATime'
  BY <1>1, <1>2 DEF OneAtATime
<1>7. Owing'
  BY <1>1, <1>2, SameRowsOwing DEF Owing
<1> QED  BY <1>1, <1>2, <1>4, <1>5, <1>6, <1>7, SameRowsOnePhone, SameParties

\* The forms of customers let no phone through that another row has.
LEMMA SavedPhones ==
  ASSUME RecordsInv, NEW id \in Ids, form.id \in {None, id},
         Saved(id, rows'), UNCHANGED kind,
         kind = "customer" => ~Broken(form.id)
  PROVE  OnePhoneEach'
<1> SUFFICES ASSUME kind = "customer", NEW c \in Ids, NEW d \in Ids, c # d,
                    rows'[c] # None, rows'[d] # None
             PROVE  rows'[c].phone # rows'[d].phone
  BY DEF OnePhoneEach
<1>1. \A x, y \in Ids : x # y /\ rows[x] # None /\ rows[y] # None
                        => rows[x].phone # rows[y].phone
  BY DEF RecordsInv, OnePhoneEach
<1>2. CASE rows' = rows
  BY <1>1, <1>2
<1>3. CASE /\ \/ form.id = None /\ rows[id] = None
              \/ form.id = id /\ Live(id)
           /\ rows'[id] = Row(form.fields)
  <2>1. Row(form.fields).phone = form.fields.phone
    BY RowOfForm DEF RecordsInv, TypeOK, Forms
  <2>2. SamePhone(form.fields.phone, form.id) = {}
    <3>1. form.id # None => Live(form.id)
      BY <1>3
    <3> QED  BY <3>1 DEF Broken
  <2>3. \A x \in Ids : x # id /\ rows[x] # None
                       => rows[x].phone # form.fields.phone
    BY <2>2, NoneAssumption DEF SamePhone
  <2>4. \A x \in Ids : x # id => rows'[x] = rows[x]
    BY DEF Saved
  <2> QED  BY <1>1, <1>3, <2>1, <2>3, <2>4
<1> QED  BY <1>2, <1>3 DEF Saved

LEMMA SaveKeeps ==
  ASSUME RecordsInv, Save
  PROVE  RecordsInv'
<1> USE DEF RecordsInv
<1>1. PICK id \in IF form.id = None THEN {x \in Ids : rows[x] = None}
                  ELSE {form.id} :
        rows' = Written(id) /\ shown' = Loaded(Written(id))
  BY DEF Save
<1>2. id \in Ids /\ Saved(id, rows') /\ form.id \in {None, id}
  BY <1>1, SavingWrites
<1>3. /\ UNCHANGED <<kind, parties, sheet, taps, changes>>
      /\ form' = Closed(form.fields) /\ told' = "saved" /\ form.open
      /\ kind = "customer" => ~Broken(form.id)
  BY DEF Save
<1>4. form' \in Forms /\ ~form'.open /\ form'.fields = form.fields /\ FormKnows'
  BY <1>3, ClosedForm
<1>5. rows' \in [Ids -> StoredRow \cup {None}]
  BY <1>2 DEF Saved
<1>6. /\ shown' \in [Ids -> StoredRow \cup {None}]
      /\ \A x \in Ids : shown'[x] # None => rows'[x] # None
  BY <1>1, <1>5, ListedIsThere
<1>7. TypeOK'
  BY <1>3, <1>4, <1>5, <1>6 DEF TypeOK, Fates
<1>8. Known'
  <2>1. sheet # None => sheet.id \in Ids
    BY DEF TypeOK, Sheets
  <2> QED  BY <1>2, <1>3, <1>6, <2>1, SavedStays DEF Known
<1>9. OneAtATime'
  BY <1>3, <1>4 DEF OneAtATime
<1>10. Owing'
  <2> SUFFICES ASSUME NeverPaid
               PROVE  /\ ~form'.fields.paid
                      /\ \A x \in Ids : rows'[x] # None => ~rows'[x].paid
    BY <1>3 DEF Owing, NeverPaid
  <2>1. ~form.fields.paid /\ \A x \in Ids : rows[x] # None => ~rows[x].paid
    BY DEF Owing
  <2>2. ~Row(form.fields).paid
    BY <2>1, RowOfForm DEF TypeOK, Forms
  <2> QED  BY <1>2, <1>4, <2>1, <2>2 DEF Saved
<1>11. OnePhoneEach'
  BY <1>2, <1>3, SavedPhones
<1> QED  BY <1>3, <1>4, <1>7, <1>8, <1>9, <1>10, <1>11, SameParties

(***************************************************************************)
(* The steps of the lists and the sheets.                                  *)
(***************************************************************************)
LEMMA LookingKeeps ==
  ASSUME RecordsInv, Focus \/ CloseSheet \/ \E id \in Ids : OpenSheet(id)
  PROVE  RecordsInv'
<1> USE DEF RecordsInv
<1>1. /\ UNCHANGED <<kind, rows, parties, form, told, taps, changes>>
      /\ shown' = shown \/ shown' = Loaded(rows)
  BY DEF Focus, CloseSheet, OpenSheet
<1>2. \/ sheet' = sheet \/ sheet' = None
      \/ /\ kind # "service" /\ ~form.open
         /\ \E id \in Ids :
              /\ sheet' = [id |-> id, row |-> IF Live(id) THEN rows[id] ELSE None]
              /\ shown[id] # None
  BY DEF Focus, CloseSheet, OpenSheet
<1>3. rows \in [Ids -> StoredRow \cup {None}]
  BY DEF TypeOK
<1>4. TypeOK'
  <2>1. sheet' \in Sheets \cup {None}
    BY <1>2, <1>3 DEF Sheets, TypeOK
  <2>2. shown' \in [Ids -> StoredRow \cup {None}]
    BY <1>1, <1>3, ListedIsThere DEF TypeOK
  <2> QED  BY <1>1, <2>1, <2>2 DEF TypeOK
<1>5. Known'
  <2>1. kind # "customer" =>
          \A id \in Ids : shown'[id] # None => rows[id] # None
    BY <1>1, <1>3, ListedIsThere DEF Known
  <2>2. kind # "customer" /\ sheet' # None => rows[sheet'.id] # None
    BY <1>2 DEF Known
  <2> QED  BY <1>1, <2>1, <2>2 DEF Known
<1>6. OneAtATime'
  BY <1>1, <1>2 DEF OneAtATime
<1>7. Owing'
  BY <1>1, SameRowsOwing DEF Owing
<1>8. FormKnows'
  BY <1>1, SameFormKnows DEF Dead
<1> QED  BY <1>1, <1>4, <1>5, <1>6, <1>7, <1>8, SameRowsOnePhone, SameParties

\* A step that marks rows, and lists them anew if it is the user's.
LEMMA MarkingKeeps ==
  ASSUME RecordsInv, Marks(rows'),
         UNCHANGED <<kind, parties, form, told, taps>>, changes' \in Nat,
         shown' \in {shown, Loaded(rows')}, sheet' \in {sheet, None},
         NeverPaid => \A x \in Ids : rows[x] # None
                                     => rows'[x].paid = rows[x].paid
  PROVE  RecordsInv'
<1> USE DEF RecordsInv
<1>1. /\ OnePhoneEach'
      /\ rows' \in [Ids -> StoredRow \cup {None}]
      /\ \A x \in Ids : rows[x] # None => rows'[x] # None
      /\ \A x \in Ids : Dead(x) => Dead(x)'
  BY MarkedRows
<1>2. /\ shown' \in [Ids -> StoredRow \cup {None}]
      /\ kind # "customer" =>
           \A x \in Ids : shown'[x] # None => rows'[x] # None
  <2>1. CASE shown' = shown
    BY <1>1, <2>1 DEF TypeOK, Known
  <2>2. CASE shown' = Loaded(rows')
    BY <1>1, <2>2, ListedIsThere
  <2> QED  BY <2>1, <2>2
<1>3. TypeOK'
  BY <1>1, <1>2 DEF TypeOK
<1>4. Known'
  <2>1. sheet # None => sheet.id \in Ids
    BY DEF TypeOK, Sheets
  <2> QED  BY <1>1, <1>2, <2>1 DEF Known
<1>5. OneAtATime'
  BY DEF OneAtATime
<1>6. Owing'
  <2>1. NeverPaid => \A x \in Ids : rows'[x] # None => ~rows'[x].paid
    <3> SUFFICES ASSUME NeverPaid, NEW x \in Ids, rows'[x] # None
                 PROVE  ~rows'[x].paid
      OBVIOUS
    <3>1. rows[x] # None
      BY DEF Marks
    <3> QED  BY <3>1 DEF Owing
  <2> QED  BY <2>1 DEF Owing, NeverPaid
<1>7. FormKnows'
  BY <1>1, SameFormKnows
<1> QED  BY <1>1, <1>3, <1>4, <1>5, <1>6, <1>7, SameParties

LEMMA SheetsMark ==
  ASSUME RecordsInv,
         \/ DeleteFromSheet \/ SettleFromSheet
         \/ \E id \in Ids : PayFromDashboard(id)
  PROVE  /\ Marks(rows')
         /\ UNCHANGED <<kind, parties, form, told, taps, changes>>
         /\ shown' = Loaded(rows') /\ sheet' \in {sheet, None}
         /\ NeverPaid => \A x \in Ids : rows[x] # None
                                        => rows'[x].paid = rows[x].paid
<1>0. TypeOK /\ (sheet # None => sheet.id \in Ids)
  BY DEF RecordsInv, TypeOK, Sheets
<1>1. CASE DeleteFromSheet
  BY <1>0, <1>1, DeletingMarks DEF DeleteFromSheet
<1>2. CASE SettleFromSheet
  BY <1>0, <1>2, PayingMarks DEF SettleFromSheet, NeverPaid
<1>3. CASE \E id \in Ids : PayFromDashboard(id)
  BY <1>0, <1>3, PayingMarks DEF PayFromDashboard, NeverPaid
<1> QED  BY <1>1, <1>2, <1>3

LEMMA SheetsKeep ==
  ASSUME RecordsInv,
         \/ DeleteFromSheet \/ SettleFromSheet
         \/ \E id \in Ids : PayFromDashboard(id)
  PROVE  RecordsInv'
<1>1. changes \in Nat
  BY DEF RecordsInv, TypeOK
<1> QED  BY <1>1, SheetsMark, MarkingKeeps

(***************************************************************************)
(* What happens elsewhere.                                                 *)
(***************************************************************************)
LEMMA PulledDeletionKeeps ==
  ASSUME RecordsInv, NEW id \in Ids, PullDeletion(id)
  PROVE  RecordsInv'
<1>1. rows' = Deleted(id)
  BY DEF PullDeletion, Deleted, Guarded
<1>2. TypeOK /\ changes \in Nat
  BY DEF RecordsInv, TypeOK
<1>3. /\ UNCHANGED <<kind, parties, shown, sheet, form, told, taps>>
      /\ changes' \in Nat
  BY <1>2 DEF PullDeletion, Elsewhere
<1>4. Marks(rows')
      /\ \A x \in Ids : rows[x] # None => rows'[x].paid = rows[x].paid
  BY <1>1, <1>2, DeletingMarks
<1> QED  BY <1>3, <1>4, MarkingKeeps

LEMMA PulledRowKeeps ==
  ASSUME RecordsInv, NEW id \in Ids, NEW row \in Versions(id), PullRow(id, row)
  PROVE  RecordsInv'
<1> USE DEF RecordsInv
<1>1. /\ UNCHANGED <<kind, parties, shown, sheet, form, told, taps>>
      /\ changes' = changes + 1
      /\ rows[id] # None => rows[id].live
      /\ rows' = [x \in Ids |->
           IF x = id THEN row
           ELSE IF kind = "customer" /\ x \in SamePhone(row.phone, id) THEN None
           ELSE rows[x]]
  BY DEF PullRow, Elsewhere
<1>2. row \in StoredRow /\ row # None /\ row.live /\ (NeverPaid => ~row.paid)
  BY VersionIsRow
<1>3. rows' \in [Ids -> StoredRow \cup {None}]
  BY <1>1, <1>2 DEF TypeOK
<1>4. kind # "customer" =>
        \A x \in Ids : /\ rows[x] # None => rows'[x] # None
                       /\ Dead(x) => Dead(x)'
  BY <1>1, <1>2 DEF Dead
<1>5. TypeOK'
  <2>1. changes \in Nat
    BY DEF TypeOK
  <2>2. changes' \in Nat
    BY <1>1, <2>1
  <2> QED  BY <1>1, <1>3, <2>2 DEF TypeOK
<1>6. Known'
  <2>1. sheet # None => sheet.id \in Ids
    BY DEF TypeOK, Sheets
  <2> QED  BY <1>1, <1>4, <2>1 DEF Known
<1>7. OneAtATime'
  BY <1>1 DEF OneAtATime
<1>8. Owing'
  <2> SUFFICES ASSUME NeverPaid
               PROVE  /\ ~form.fields.paid
                      /\ \A x \in Ids : rows'[x] # None => ~rows'[x].paid
    BY <1>1 DEF Owing, NeverPaid
  <2> QED  BY <1>1, <1>2 DEF Owing
<1>9. FormKnows'
  BY <1>1, <1>4, SameFormKnows
<1>10. OnePhoneEach'
  <2> SUFFICES ASSUME kind = "customer", NEW c \in Ids, NEW d \in Ids, c # d,
                      rows'[c] # None, rows'[d] # None
               PROVE  rows'[c].phone # rows'[d].phone
    BY <1>1 DEF OnePhoneEach
  <2>1. rows[c] # None /\ rows[d] # None => rows[c].phone # rows[d].phone
    BY DEF OnePhoneEach
  <2>2. \A x \in Ids : x # id /\ rows'[x] # None
                       => rows'[x] = rows[x] /\ rows[x].phone # row.phone
    BY <1>1 DEF SamePhone
  <2>3. rows'[id] = row
    BY <1>1
  <2> QED  BY <2>1, <2>2, <2>3
<1> QED  BY <1>1, <1>5, <1>6, <1>7, <1>8, <1>9, <1>10, SameParties

LEMMA PulledPartyKeeps ==
  ASSUME RecordsInv, NEW p \in Parties, PullParty(p)
  PROVE  RecordsInv'
<1> USE DEF RecordsInv
<1>1. /\ UNCHANGED <<kind, rows, shown, sheet, form, told, taps>>
      /\ changes' = changes + 1 /\ kind = "advance"
      /\ parties' = [parties EXCEPT ![p] = "off"]
  BY DEF PullParty, Elsewhere
<1>2. TypeOK'
  <2>1. changes \in Nat /\ parties \in [Parties -> {"none", "active", "off"}]
    BY DEF TypeOK
  <2>2. changes' \in Nat /\ parties' \in [Parties -> {"none", "active", "off"}]
    BY <1>1, <2>1
  <2> QED  BY <1>1, <2>2 DEF TypeOK
<1>3. Stocked' /\ OneAtATime'
  BY <1>1 DEF Stocked, OneAtATime
<1>4. FormKnows'
  BY <1>1, SameFormKnows DEF Dead
<1>5. Owing'
  BY <1>1, SameRowsOwing DEF Owing
<1> QED  BY <1>1, <1>2, <1>3, <1>4, <1>5, SameRowsOnePhone, SameRowsKnown

\* The night changes one field of a form, and of what it was filled with.
LEMMA OvernightKeeps ==
  ASSUME NEW f \in Forms
  PROVE  /\ Overnight(f) \in Forms
         /\ Overnight(f).open = f.open /\ Overnight(f).id = f.id
         /\ Overnight(f).listed = f.listed
         /\ Overnight(f).was = None <=> f.was = None
         /\ f.was # None /\ Kept(f) => Kept(Overnight(f))
<1> DEFINE g == Overnight(f)
           c == [f.fields EXCEPT !.today = FALSE]
           w == IF f.was = None THEN None ELSE [f.was EXCEPT !.today = FALSE]
<1>1. f.fields \in Contents /\ f.was \in Contents \cup {None}
  BY DEF Forms
<1>2. /\ c \in Contents /\ c.today = FALSE
      /\ c.party = f.fields.party /\ c.value = f.fields.value
      /\ c.phone = f.fields.phone /\ c.on = f.fields.on
      /\ c.mode = f.fields.mode /\ c.paid = f.fields.paid
  BY <1>1 DEF Contents
<1>3. /\ w \in Contents \cup {None} /\ (w = None <=> f.was = None)
      /\ f.was # None =>
           /\ w.today = FALSE
           /\ w.party = f.was.party /\ w.value = f.was.value
           /\ w.phone = f.was.phone /\ w.on = f.was.on
           /\ w.mode = f.was.mode /\ w.paid = f.was.paid
  <2>1. CASE f.was = None
    BY <2>1
  <2>2. CASE f.was # None
    <3>1. f.was \in Contents
      BY <1>1, <2>2
    <3>2. [f.was EXCEPT !.today = FALSE] \in Contents
      BY <3>1 DEF Contents
    <3> QED BY <2>2, <3>1, <3>2, NoneAssumption DEF Contents
  <2> QED BY <2>1, <2>2
<1>4. g = [f EXCEPT !.fields = c, !.was = w]
  BY DEF Overnight
<1> HIDE DEF c, w, g
<1>5. /\ g \in Forms /\ g.fields = c /\ g.was = w /\ g.open = f.open
      /\ g.id = f.id /\ g.listed = f.listed /\ g.touched = f.touched
  BY <1>2, <1>3, <1>4 DEF Forms
<1>6. f.was # None /\ Kept(f) => Kept(g)
  BY <1>2, <1>3, <1>5 DEF Kept
<1> QED BY <1>3, <1>5, <1>6 DEF g

LEMMA DayKeeps ==
  ASSUME RecordsInv, DayPasses
  PROVE  RecordsInv'
<1> USE DEF RecordsInv
<1>0. /\ form \in Forms
      /\ form' = IF form.open THEN Overnight(form) ELSE form
  BY DEF DayPasses, TypeOK
<1>10. /\ form' \in Forms /\ form'.open = form.open /\ form'.id = form.id
       /\ form'.listed = form.listed
       /\ form'.was = None <=> form.was = None
       /\ form.was # None /\ Kept(form) => Kept(form')
  BY <1>0, OvernightKeeps
<1>1. /\ UNCHANGED <<kind, parties, shown, sheet, told, taps>>
      /\ changes' = changes + 1 /\ kind = "expense"
      /\ rows' = [id \in Ids |-> IF rows[id] = None THEN None
                                 ELSE [rows[id] EXCEPT !.today = FALSE]]
  BY DEF DayPasses, Elsewhere
<1>2. \A id \in Ids : rows[id] # None =>
        /\ rows'[id] \in StoredRow /\ rows'[id] # None
        /\ rows'[id].live = rows[id].live
  <2> SUFFICES ASSUME NEW id \in Ids, rows[id] # None
               PROVE  /\ rows'[id] \in StoredRow /\ rows'[id] # None
                      /\ rows'[id].live = rows[id].live
    OBVIOUS
  <2>1. rows[id] \in StoredRow
    BY DEF TypeOK
  <2>2. rows'[id] = [rows[id] EXCEPT !.today = FALSE]
    BY <1>1
  <2>3. rows'[id] \in StoredRow /\ rows'[id].live = rows[id].live
    BY <2>1, <2>2 DEF StoredRow
  <2> QED  BY <2>3, NoneAssumption
<1>3. rows' \in [Ids -> StoredRow \cup {None}]
  <2>1. \A id \in Ids : rows'[id] \in StoredRow \cup {None}
    BY <1>1, <1>2
  <2> QED  BY <1>1, <2>1
<1>4. TypeOK'
  <2>1. changes \in Nat
    BY DEF TypeOK
  <2>2. changes' \in Nat
    BY <1>1, <2>1
  <2> QED  BY <1>1, <1>3, <1>10, <2>2 DEF TypeOK
<1>5. Known'
  <2>1. sheet # None => sheet.id \in Ids
    BY DEF TypeOK, Sheets
  <2> QED  BY <1>1, <1>2, <2>1 DEF Known
<1>6. OneAtATime' /\ Owing' /\ OnePhoneEach'
  BY <1>1, <1>10 DEF OneAtATime, Owing, NeverPaid, OnePhoneEach
<1>7. FormKnows'
  <2>1. \A x \in Ids : Dead(x) => Dead(x)'
    BY <1>2 DEF Dead
  <2>2. form.id # None /\ form.open => form.id \in Ids
    BY <1>0 DEF Forms
  <2>3. Kept(form)' <=> Kept(form')
    BY DEF Kept
  <2>4. form.open /\ form.id # None /\ Unfilled(form) => Unfilled(form)'
    <3> SUFFICES ASSUME form.open, form.id # None, Unfilled(form)
                 PROVE  Unfilled(form)'
      OBVIOUS
    <3>1. Dead(form.id) /\ form.id \in Ids
      BY <1>1, <2>2 DEF Unfilled
    <3>2. rows'[form.id] # None /\ ~rows'[form.id].live
      BY <2>1, <3>1 DEF Dead
    <3> QED BY <1>10, <3>2 DEF Unfilled, Dead
  <2> QED  BY <1>10, <2>3, <2>4 DEF FormKnows
<1> QED  BY <1>1, <1>4, <1>5, <1>6, <1>7, SameParties

(***************************************************************************)
(* The invariant is inductive.                                             *)
(***************************************************************************)
LEMMA RecordsInvInit == Init => RecordsInv
<1> SUFFICES ASSUME Init
             PROVE  RecordsInv
  OBVIOUS
<1>1. /\ form = [open |-> FALSE, id |-> None, listed |-> {}, fields |-> Fresh,
                 was |-> None, touched |-> {}]
      /\ sheet = None /\ told = "nothing" /\ taps = 0 /\ changes = 0
      /\ \A id \in Ids : rows[id] = None /\ shown[id] = None
  BY DEF Init, Closed
<1>2. form \in Forms
  BY <1>1, FreshIsBlank DEF Forms
<1>3. TypeOK
  BY <1>1, <1>2 DEF TypeOK, Init, Fates
<1>4. Stocked /\ OneAtATime /\ Known /\ FormKnows /\ OnePhoneEach
  BY <1>1 DEF Init, Stocked, OneAtATime, Known, FormKnows, OnePhoneEach
<1>5. Owing
  BY <1>1, FreshIsBlank DEF Owing
<1> QED  BY <1>3, <1>4, <1>5 DEF RecordsInv

LEMMA RecordsInvNext == RecordsInv /\ [Next]_vars => RecordsInv'
<1> SUFFICES ASSUME RecordsInv, [Next]_vars
             PROVE  RecordsInv'
  OBVIOUS
<1>1. CASE \E p \in Active \cup {None} : OpenNew(p)
  BY <1>1, OpenNewKeeps
<1>2. CASE EditFromSheet \/ \E id \in Ids : EditService(id)
  BY <1>2, EditingKeeps
<1>3. CASE TouchExpense \/ TouchAdvance \/ TouchCustomer \/ TouchService
  BY <1>3, TypingKeeps
<1>4. CASE \E p \in Parties : AddCategory(p)
  BY <1>4, AddCategoryKeeps
<1>5. CASE Save
  BY <1>5, SaveKeeps
<1>6. CASE Refused
  BY <1>6, RefusedKeeps
<1>7. CASE Cancel
  BY <1>7, CancelKeeps
<1>8. CASE \E c \in Ids : JumpToExisting(c)
  BY <1>8, JumpKeeps
<1>9. CASE Focus \/ CloseSheet \/ \E id \in Ids : OpenSheet(id)
  BY <1>9, LookingKeeps
<1>10. CASE \/ DeleteFromSheet \/ SettleFromSheet
            \/ \E id \in Ids : PayFromDashboard(id)
  BY <1>10, SheetsKeep
<1>11. CASE \E id \in Ids : PullDeletion(id)
  BY <1>11, PulledDeletionKeeps
<1>12. CASE \E id \in Ids : \E row \in Versions(id) : PullRow(id, row)
  BY <1>12, PulledRowKeeps
<1>13. CASE \E p \in Parties : PullParty(p)
  BY <1>13, PulledPartyKeeps
<1>14. CASE DayPasses
  BY <1>14, DayKeeps
<1>15. CASE UNCHANGED vars
  BY <1>15 DEF vars, RecordsInv, TypeOK, Stocked, Active, Owing, NeverPaid,
     OneAtATime, Known, FormKnows, Kept, Unfilled, Dead, OnePhoneEach
<1> QED  BY <1>1, <1>2, <1>3, <1>4, <1>5, <1>6, <1>7, <1>8, <1>9, <1>10, <1>11,
            <1>12, <1>13, <1>14, <1>15
         DEF Next, FormStep, SheetStep, OtherStep

LEMMA RecordsInvAlways == Spec => []RecordsInv
BY RecordsInvInit, RecordsInvNext, PTL DEF Spec

(***************************************************************************)
(* Which steps of the user change a row, and how.                          *)
(***************************************************************************)
LEMMA UsersWrite ==
  ASSUME RecordsInv, [Next]_vars, OwnStep
  PROVE  \/ rows' = rows
         \/ Marks(rows') /\ sheet # None
         \/ Marks(rows') /\ ~form.open
         \/ /\ form.open /\ CanSave(form)
            /\ \E id \in Ids : Saved(id, rows') /\ form.id \in {None, id}
<1>1. CASE Save
  BY <1>1, SavingWrites DEF Save, RecordsInv
<1>2. CASE DeleteFromSheet \/ SettleFromSheet
  BY <1>2, SheetsMark DEF DeleteFromSheet, SettleFromSheet
<1>3. CASE \E id \in Ids : PayFromDashboard(id)
  BY <1>3, SheetsMark DEF PayFromDashboard
<1>4. CASE OtherStep
  <2>1. changes' = changes + 1
    BY <1>4 DEF OtherStep, PullDeletion, PullRow, PullParty, DayPasses, Elsewhere
  <2>2. changes \in Nat
    BY DEF RecordsInv, TypeOK
  <2> QED  BY <2>1, <2>2 DEF OwnStep
<1>5. CASE \/ \E p \in Active \cup {None} : OpenNew(p)
           \/ EditFromSheet \/ \E id \in Ids : EditService(id)
           \/ \E p \in Parties : AddCategory(p)
           \/ Refused \/ Cancel \/ \E c \in Ids : JumpToExisting(c)
  BY <1>5 DEF OpenNew, EditFromSheet, EditService, AddCategory, Refused, Cancel,
     JumpToExisting
<1>6. CASE TouchExpense \/ TouchAdvance \/ TouchCustomer \/ TouchService
  BY <1>6 DEF TouchExpense, TouchAdvance, TouchCustomer, TouchService, Touch
<1>7. CASE Focus \/ CloseSheet \/ \E id \in Ids : OpenSheet(id)
  BY <1>7 DEF Focus, CloseSheet, OpenSheet
<1>8. CASE UNCHANGED vars
  BY <1>8 DEF vars
<1> QED  BY <1>1, <1>2, <1>3, <1>4, <1>5, <1>6, <1>7, <1>8
         DEF Next, FormStep, SheetStep

\* A form that reaches a live row was filled from it, or is a customer's.
LEMMA WritersWereFilled ==
  ASSUME RecordsInv, form.open, form.id # None, Live(form.id), CanSave(form)
  PROVE  form.was # None \/ kind = "customer"
<1>1. CASE kind = "advance" /\ form.listed = {}
  BY <1>1 DEF CanSave, AdvanceOk
<1> QED  BY <1>1 DEF RecordsInv, FormKnows, Unfilled, Dead, Live

(***************************************************************************)
(* Theorems.                                                               *)
(***************************************************************************)
\* Two customers never share a phone: the forms ask for the phone among the
\* rows before they write one, and a pulled customer takes the place of the one
\* with the same phone.
THEOREM PhonesAreUnique == Spec => []OnePhoneEach
BY RecordsInvAlways, PTL DEF RecordsInv

\* Nothing that the user does on a stale list, sheet or form changes a record
\* that was deleted meanwhile: every writer asks for a live row.
THEOREM DeletedStays == Spec => GoneStaysGone
<1>1. RecordsInv /\ [Next]_vars =>
        [\A id \in Ids : OwnStep /\ rows[id] # None /\ ~rows[id].live
                         => rows'[id] = rows[id]]_vars
  <2> SUFFICES ASSUME RecordsInv, [Next]_vars, NEW id \in Ids, OwnStep,
                      rows[id] # None, ~rows[id].live
               PROVE  rows'[id] = rows[id]
    OBVIOUS
  <2>1. CASE Marks(rows')
    BY <2>1 DEF Marks
  <2>2. CASE \E x \in Ids : Saved(x, rows')
    BY <2>2, SavedStays DEF RecordsInv
  <2> QED  BY <2>1, <2>2, UsersWrite
<1> QED  BY <1>1, RecordsInvAlways, PTL DEF Spec, GoneStaysGone

\* What was paid is owed again only by a save from a form that was filled
\* before the payment was known here, or one that made the credit something
\* else.
THEOREM PaymentsSurviveEdits == Spec => OnlyStaleFormsReopen
<1>1. RecordsInv /\ [Next]_vars =>
        [\A id \in Ids :
           OwnStep /\ Live(id) /\ rows[id].paid /\ ~rows'[id].paid
           => /\ form.open /\ form.id = id
              /\ \/ form.was # None /\ ~form.was.paid
                 \/ kind = "expense" /\ rows'[id].mode # "credit"]_vars
  <2> SUFFICES ASSUME RecordsInv, [Next]_vars, NEW id \in Ids, OwnStep,
                      Live(id), rows[id].paid, ~rows'[id].paid
               PROVE  /\ form.open /\ form.id = id
                      /\ \/ form.was # None /\ ~form.was.paid
                         \/ kind = "expense" /\ rows'[id].mode # "credit"
    OBVIOUS
  <2>0. rows[id] # None
    BY DEF Live
  <2>1. ~Marks(rows')
    BY <2>0 DEF Marks
  <2>2. PICK x \in Ids : Saved(x, rows') /\ form.id \in {None, x}
    BY <2>1, UsersWrite
  <2>3. form.open /\ CanSave(form)
    BY <2>1, UsersWrite
  <2>4. x = id /\ form.id = id /\ rows'[id] = Row(form.fields)
    BY <2>0, <2>2 DEF Saved
  <2>5. NeverPaid => FALSE
    BY <2>0 DEF RecordsInv, Owing
  <2>6. form.was # None
    BY <2>3, <2>4, <2>5, NoneAssumption, WritersWereFilled DEF NeverPaid
  <2>7. form.fields.paid = form.was.paid
    BY <2>3, <2>4, <2>6, NoneAssumption DEF RecordsInv, FormKnows, Kept
  <2>8. /\ Row(form.fields).mode = form.fields.mode
        /\ \/ kind = "expense" /\ form.fields.mode # "credit"
           \/ Row(form.fields).paid = form.fields.paid
    BY RowOfForm DEF RecordsInv, TypeOK, Forms
  <2>9. CASE kind = "expense" /\ form.fields.mode # "credit"
    BY <2>3, <2>4, <2>8, <2>9
  <2>10. CASE Row(form.fields).paid = form.fields.paid
    <3>1. ~Row(form.fields).paid
      BY <2>4
    <3>2. ~form.was.paid
      BY <2>7, <2>10, <3>1
    <3> QED  BY <2>3, <2>4, <2>6, <3>2
  <2> QED  BY <2>8, <2>9, <2>10
<1> QED  BY <1>1, RecordsInvAlways, PTL DEF Spec, OnlyStaleFormsReopen

\* An edit that reaches its row leaves every field that was not touched as the
\* form found it; only a customer's form can be saved without being filled.
THEOREM EditsKeepTheRest == Spec => EditKeepsTheRest
<1>1. RecordsInv /\ [Next]_vars =>
        [\A id \in Ids :
           OwnStep /\ form.open /\ form.id = id /\ Live(id)
             /\ rows'[id] # rows[id]
           => IF form.was = None THEN kind = "customer"
              ELSE \A field \in Fields \ form.touched :
                     rows'[id][field] = form.was[field]]_vars
  <2> SUFFICES ASSUME RecordsInv, [Next]_vars, NEW id \in Ids, OwnStep,
                      form.open, form.id = id, Live(id), rows'[id] # rows[id]
               PROVE  IF form.was = None THEN kind = "customer"
                      ELSE \A field \in Fields \ form.touched :
                             rows'[id][field] = form.was[field]
    OBVIOUS
  <2>1. sheet = None
    BY DEF RecordsInv, OneAtATime
  <2>2. CanSave(form) /\ \E x \in Ids : Saved(x, rows') /\ form.id \in {None, x}
    BY <2>1, UsersWrite
  <2>3. rows'[id] = Row(form.fields)
    BY <2>2, NoneAssumption DEF Saved
  <2>4. form.was # None \/ kind = "customer"
    BY <2>2, NoneAssumption, WritersWereFilled
  <2>5. ASSUME form.was # None, NEW field \in Fields \ form.touched
        PROVE  rows'[id][field] = form.was[field]
    <3>1. Kept(form)
      BY <2>5, NoneAssumption DEF RecordsInv, FormKnows
    <3>2. /\ Row(form.fields).party = form.fields.party
          /\ Row(form.fields).value = form.fields.value
          /\ Row(form.fields).phone = form.fields.phone
          /\ Row(form.fields).on = form.fields.on
          /\ Row(form.fields).today = form.fields.today
          /\ Row(form.fields).mode = form.fields.mode
      BY RowOfForm DEF RecordsInv, TypeOK, Forms
    <3>3. CASE field = "party"
      BY <2>3, <2>5, <3>1, <3>2, <3>3 DEF Kept
    <3>4. CASE field = "value"
      BY <2>3, <2>5, <3>1, <3>2, <3>4 DEF Kept
    <3>5. CASE field = "mode"
      BY <2>3, <2>5, <3>1, <3>2, <3>5 DEF Kept
    <3>6. CASE field = "phone"
      BY <2>3, <2>5, <3>1, <3>2, <3>6 DEF Kept
    <3>7. CASE field = "on"
      BY <2>3, <2>5, <3>1, <3>2, <3>7 DEF Kept
    <3>8. CASE field = "today"
      BY <2>3, <2>5, <3>1, <3>2, <3>8 DEF Kept
    <3> QED  BY <3>3, <3>4, <3>5, <3>6, <3>7, <3>8 DEF Fields
  <2> QED  BY <2>4, <2>5
<1> QED  BY <1>1, RecordsInvAlways, PTL DEF Spec, EditKeepsTheRest
=============================================================================
