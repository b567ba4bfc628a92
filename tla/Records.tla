------------------------------- MODULE Records -------------------------------
(***************************************************************************)
(* The other records of a salon and their screens: expenses, advances to   *)
(* staff, customers and services.  Each has a list that is loaded when the *)
(* screen gets the focus, three of them a detail sheet that loads one row, *)
(* and a form that is filled once from the row and saved as a whole.  The  *)
(* pull of another device's edits changes the rows below all of them, and  *)
(* reloads none.                                                           *)
(*                                                                         *)
(* One kind of record per behaviour: the kinds share no rows.  Left out:   *)
(* remarks, dates but for "today", and the name of a party that is copied  *)
(* into the row.  Writes are tracked for sync as SyncEngine models it.  The *)
(* default categories are there from the first visit, and nothing in the   *)
(* app renames, deactivates or deletes one: ensureDefaults adds no more.   *)
(***************************************************************************)
EXTENDS Integers, FiniteSets

CONSTANTS
  Ids, Parties,   \* rows; the categories or employees that rows belong to
  Values,         \* amounts, prices and names that may be typed
  Phones, None,
  Kinds,          \* the kinds of record that are looked at
  MaxTaps, MaxChanges   \* bounds

ASSUME KindsAssumption ==
  /\ Kinds \subseteq {"expense", "advance", "customer", "service"}
  /\ Values \subseteq Nat \ {0}
ASSUME BoundsAssumption == MaxTaps \in Nat /\ MaxChanges \in Nat

VARIABLES
  kind,     \* the kind of record
  rows,     \* [Ids -> the row of the database, or None]
  parties,  \* [Parties -> "none", "active", "off"]
  shown,    \* the list: [Ids -> the row as it was loaded, or None]
  sheet,    \* the detail sheet: [id, row], or None
  form,     \* the form
  told,     \* what the last save was answered with
  taps, changes

vars == <<kind, rows, parties, shown, sheet, form, told, taps, changes>>

\* What a form holds, and the row that it is saved as.
Contents == [party : Parties \cup {None}, value : Nat,
             phone : Phones \cup {None}, on : BOOLEAN, today : BOOLEAN,
             mode : {"cash", "credit"}, paid : BOOLEAN]
StoredRow == [party : Parties \cup {None}, value : Nat,
              phone : Phones \cup {None}, on : BOOLEAN, today : BOOLEAN,
              mode : {"cash", "credit"}, paid : BOOLEAN, live : BOOLEAN]

ASSUME NoneAssumption ==
  None \notin Ids /\ None \notin Contents /\ None \notin StoredRow

Fields == {"party", "value", "mode", "phone", "on", "today"}
Live(id) == rows[id] # None /\ rows[id].live
Active == {p \in Parties : parties[p] = "active"}

(***************************************************************************)
(* Lists.                                                                  *)
(***************************************************************************)
\* The dashboard lists the expenses of today, the other screens every row.
Loaded(new) ==
  [id \in Ids |-> IF new[id] = None \/ ~new[id].live THEN None
                  ELSE IF kind = "expense" /\ ~new[id].today THEN None
                  ELSE new[id]]

Focus ==
  /\ ~form.open /\ shown # Loaded(rows)
  /\ shown' = Loaded(rows)
  /\ UNCHANGED <<kind, rows, parties, sheet, form, told, taps, changes>>

(***************************************************************************)
(* The repositories.                                                       *)
(***************************************************************************)
Put(id, row) == [rows EXCEPT ![id] = row]

\* The guard left out.
Unguarded(id, row) == IF rows[id] # None THEN Put(id, row) ELSE rows

\* UPDATE ... WHERE deleted_at IS NULL
Guarded(id, row) == IF Live(id) THEN Put(id, row) ELSE rows
Deleted(id) == Guarded(id, [rows[id] EXCEPT !.live = FALSE])

\* A credit that was settled meanwhile keeps its date.
CreditPaid(id) ==
  IF Live(id) /\ rows[id].mode = "credit" /\ ~rows[id].paid
  THEN Put(id, [rows[id] EXCEPT !.paid = TRUE]) ELSE rows
AdvanceSettled(id) ==
  IF Live(id) /\ ~rows[id].paid
  THEN Put(id, [rows[id] EXCEPT !.paid = TRUE]) ELSE rows

\* findByPhone sees the live customers; the phone is unique among all rows.
SamePhone(p, id) ==
  {c \in Ids \ {id} : rows[c] # None /\ rows[c].phone = p}

(***************************************************************************)
(* The forms.                                                              *)
(***************************************************************************)
Fresh ==
  [party |-> None, value |-> 0, phone |-> None, on |-> TRUE, today |-> TRUE,
   mode |-> IF kind = "advance" THEN "credit" ELSE "cash", paid |-> FALSE]
Closed(fields) ==
  [open |-> FALSE, id |-> None, listed |-> {}, fields |-> fields,
   was |-> None, touched |-> {}]

Content(row) ==
  [party |-> row.party, value |-> row.value, phone |-> row.phone,
   on |-> row.on, today |-> row.today, mode |-> row.mode, paid |-> row.paid]

Init ==
  /\ kind \in Kinds
  /\ rows = [id \in Ids |-> None] /\ shown = [id \in Ids |-> None]
  /\ parties \in [Parties -> {"none", "active"}]
  /\ kind # "advance" => Active # {}
  /\ sheet = None /\ form = Closed(Fresh) /\ told = "nothing"
  /\ taps = 0 /\ changes = 0

\* The list of employees may be filtered by one, who is then chosen.
OpenNew(p) ==
  /\ ~form.open /\ sheet = None
  /\ p = None \/ kind = "advance"
  /\ form' = [Closed([Fresh EXCEPT !.party = p]) EXCEPT !.open = TRUE,
                                                        !.listed = Active]
  /\ told' = "nothing"
  /\ UNCHANGED <<kind, rows, parties, shown, sheet, taps, changes>>

\* The date left at today.
FilledToday(id) ==
  LET screen == kind \in {"expense", "advance"}
      found == Live(id) /\ (screen => Active # {})
  IN [open |-> TRUE, id |-> id, listed |-> Active,
      fields |-> IF found THEN [Content(rows[id]) EXCEPT !.today = TRUE]
                 ELSE IF screen THEN Fresh ELSE form.fields,
      was |-> IF found THEN Content(rows[id]) ELSE None, touched |-> {}]

\* The screens of expenses and advances start empty, and are filled once there
\* is something to choose from.  The sheets of customers and services are
\* always there: without a row they show what they showed last.
Filled(id) ==
  LET screen == kind \in {"expense", "advance"}
      blank == IF screen THEN Fresh ELSE form.fields
      found == Live(id) /\ (screen => Active # {})
  IN [open |-> TRUE, id |-> id, listed |-> Active,
      fields |-> IF found THEN Content(rows[id]) ELSE blank,
      was |-> IF found THEN Content(rows[id]) ELSE None, touched |-> {}]

\* Edit on the detail sheet.
EditFromSheet ==
  /\ ~form.open /\ sheet # None /\ sheet.row # None
  /\ form' = Filled(sheet.id) /\ sheet' = None /\ told' = "nothing"
  /\ UNCHANGED <<kind, rows, parties, shown, taps, changes>>

\* A service is edited from the list.
EditService(id) ==
  /\ kind = "service" /\ ~form.open /\ shown[id] # None
  /\ form' = Filled(id) /\ told' = "nothing"
  /\ UNCHANGED <<kind, rows, parties, shown, sheet, taps, changes>>

Touch(field, value) ==
  /\ form.open /\ taps < MaxTaps /\ form.fields[field] # value
  /\ form' = [form EXCEPT !.fields[field] = value, !.touched = @ \cup {field}]
  /\ taps' = taps + 1
  /\ UNCHANGED <<kind, rows, parties, shown, sheet, told, changes>>

TouchExpense ==
  /\ kind = "expense"
  /\ \/ \E v \in Values : Touch("value", v)
     \/ \E p \in form.listed : Touch("party", p)
     \/ \E m \in {"cash", "credit"} : Touch("mode", m)
     \/ \E today \in BOOLEAN : Touch("today", today)
TouchAdvance ==
  /\ kind = "advance"
  /\ \/ \E v \in Values : Touch("value", v)
     \/ \E p \in form.listed : Touch("party", p)
TouchCustomer ==
  /\ kind = "customer"
  /\ \/ \E v \in Values : Touch("value", v)
     \/ \E p \in Phones : Touch("phone", p)
TouchService ==
  /\ kind = "service"
  /\ \/ \E v \in Values : Touch("value", v)
     \/ \E p \in form.listed : Touch("party", p)
     \/ form.id # None /\ \E on \in BOOLEAN : Touch("on", on)

\* A category made from within the form is chosen at once.
AddCategory(p) ==
  /\ kind \in {"expense", "service"} /\ form.open /\ taps < MaxTaps
  /\ parties[p] = "none"
  /\ parties' = [parties EXCEPT ![p] = "active"]
  /\ form' = [form EXCEPT !.fields.party = p, !.touched = @ \cup {"party"},
                          !.listed = Active \cup {p}]
  /\ taps' = taps + 1
  /\ UNCHANGED <<kind, rows, shown, sheet, told, changes>>

\* What each handleSave asks for.
ExpenseOk(f) == f.fields.value # 0 /\ f.fields.party \in f.listed
AdvanceOk(f) == f.fields.value # 0 /\ f.fields.party \in f.listed
CustomerOk(f) == f.fields.value # 0 /\ f.fields.phone # None
ServiceOk(f) == f.fields.value # 0 /\ f.fields.party # None
CanSave(f) ==
  \/ kind = "expense" /\ ExpenseOk(f)
  \/ kind = "advance" /\ AdvanceOk(f)
  \/ kind = "customer" /\ CustomerOk(f)
  \/ kind = "service" /\ ServiceOk(f)

\* A draft that forgets the payment.
ExpenseDraftUnpaid(f) == [f EXCEPT !.paid = FALSE]

\* The row that is written: settled_at is carried along, and goes with the
\* credit.
ExpenseDraft(f) == [f EXCEPT !.paid = f.mode = "credit" /\ f.paid]
Draft(f) == IF kind = "expense" THEN ExpenseDraft(f) ELSE f
Row(f) ==
  LET d == Draft(f)
  IN [party |-> d.party, value |-> d.value, phone |-> d.phone, on |-> d.on,
      today |-> d.today, mode |-> d.mode, paid |-> d.paid, live |-> TRUE]

\* The table without its UNIQUE.
NeverBroken(id) == FALSE

\* CustomerRepository.insert and update: a live customer with the phone is
\* named; a deleted one only breaks the statement, when it changes a row.
Taken(id) == \E c \in SamePhone(form.fields.phone, id) : rows[c].live
Broken(id) ==
  /\ id # None => Live(id)
  /\ SamePhone(form.fields.phone, id) # {}
Refused ==
  /\ form.open /\ CanSave(form) /\ kind = "customer"
  /\ Taken(form.id) \/ Broken(form.id)
  /\ told' = IF Taken(form.id) THEN "duplicate" ELSE "failed"
  /\ told' # told
  /\ UNCHANGED <<kind, rows, parties, shown, sheet, form, taps, changes>>

Written(id) ==
  IF form.id = None THEN Put(id, Row(form.fields))
  ELSE Guarded(id, Row(form.fields))

\* handleSave: a row that was deleted meanwhile stays as it is, and the user
\* is told that it was saved all the same.
Save ==
  /\ form.open /\ CanSave(form)
  /\ kind = "customer" => ~Taken(form.id) /\ ~Broken(form.id)
  /\ \E id \in IF form.id = None THEN {x \in Ids : rows[x] = None}
               ELSE {form.id} :
       /\ rows' = Written(id) /\ shown' = Loaded(Written(id))
  /\ form' = Closed(form.fields) /\ told' = "saved"
  /\ UNCHANGED <<kind, parties, sheet, taps, changes>>

Cancel ==
  /\ form.open
  /\ form' = Closed(form.fields)
  /\ shown' = IF kind \in {"expense", "advance"} THEN Loaded(rows) ELSE shown
  /\ UNCHANGED <<kind, rows, parties, sheet, told, taps, changes>>

\* The duplicate's snackbar leads to the customer who has the phone.
JumpToExisting(c) ==
  /\ told = "duplicate" /\ form.open
  /\ c \in SamePhone(form.fields.phone, form.id) /\ rows[c].live
  /\ form' = Closed(form.fields) /\ sheet' = [id |-> c, row |-> rows[c]]
  /\ told' = "nothing"
  /\ UNCHANGED <<kind, rows, parties, shown, taps, changes>>

(***************************************************************************)
(* The detail sheets and the dashboard.                                    *)
(***************************************************************************)
OpenSheet(id) ==
  /\ kind # "service" /\ ~form.open /\ sheet = None /\ shown[id] # None
  /\ sheet' = [id |-> id, row |-> IF Live(id) THEN rows[id] ELSE None]
  /\ UNCHANGED <<kind, rows, parties, shown, form, told, taps, changes>>

CloseSheet ==
  /\ sheet # None /\ sheet' = None
  /\ UNCHANGED <<kind, rows, parties, shown, form, told, taps, changes>>

DeleteFromSheet ==
  /\ sheet # None /\ sheet.row # None
  /\ rows' = Deleted(sheet.id) /\ shown' = Loaded(Deleted(sheet.id))
  /\ sheet' = None
  /\ UNCHANGED <<kind, parties, form, told, taps, changes>>

\* Mark paid, on the sheet of an advance that was unsettled when it was loaded.
SettleFromSheet ==
  /\ kind = "advance" /\ sheet # None /\ sheet.row # None /\ ~sheet.row.paid
  /\ rows' = AdvanceSettled(sheet.id)
  /\ shown' = Loaded(AdvanceSettled(sheet.id))
  /\ sheet' = None
  /\ UNCHANGED <<kind, parties, form, told, taps, changes>>

\* Mark paid, on the dashboard's row of a credit.
PayFromDashboard(id) ==
  /\ kind = "expense" /\ ~form.open /\ sheet = None /\ shown[id] # None
  /\ shown[id].mode = "credit" /\ ~shown[id].paid
  /\ rows' = CreditPaid(id) /\ shown' = Loaded(CreditPaid(id))
  /\ UNCHANGED <<kind, parties, sheet, form, told, taps, changes>>

(***************************************************************************)
(* What happens elsewhere.                                                 *)
(***************************************************************************)
Elsewhere == changes < MaxChanges /\ changes' = changes + 1

\* A pull brings another device's version of a row: a new one, another value,
\* party or phone, a payment, a deletion.  A customer takes the place of the
\* one with the same phone.
Versions(id) ==
  LET old == IF rows[id] = None THEN Content(Fresh) ELSE Content(rows[id])
      owing == kind \in {"expense", "advance"} /\ old.mode = "credit"
      Brought == [party : IF kind = "customer" THEN {None} ELSE Active,
                  value : Values,
                  phone : IF kind = "customer" THEN Phones ELSE {None},
                  paid : IF owing THEN {old.paid, TRUE} ELSE {FALSE}]
  IN {[party |-> new.party, value |-> new.value, phone |-> new.phone,
       on |-> old.on, today |-> old.today, mode |-> old.mode,
       paid |-> new.paid, live |-> TRUE] : new \in Brought}
PullRow(id, row) ==
  /\ Elsewhere /\ rows[id] # row
  /\ rows[id] # None => rows[id].live
  /\ rows' = [x \in Ids |->
       IF x = id THEN row
       ELSE IF kind = "customer" /\ x \in SamePhone(row.phone, id) THEN None
       ELSE rows[x]]
  /\ UNCHANGED <<kind, parties, shown, sheet, form, told, taps>>
PullDeletion(id) ==
  /\ Elsewhere /\ Live(id)
  /\ rows' = Put(id, [rows[id] EXCEPT !.live = FALSE])
  /\ UNCHANGED <<kind, parties, shown, sheet, form, told, taps>>

\* An employee is deactivated.
PullParty(p) ==
  /\ Elsewhere /\ kind = "advance" /\ parties[p] = "active"
  /\ parties' = [parties EXCEPT ![p] = "off"]
  /\ UNCHANGED <<kind, rows, shown, sheet, form, told, taps>>

\* Midnight.  Rows and an open form hold dates, which are then yesterday's; a
\* list and a sheet go on showing what they loaded.
Overnight(f) ==
  [f EXCEPT !.fields = [@ EXCEPT !.today = FALSE],
            !.was = IF @ = None THEN None ELSE [@ EXCEPT !.today = FALSE]]
DayPasses ==
  /\ Elsewhere /\ kind = "expense"
  /\ \/ \E id \in Ids : Live(id) /\ rows[id].today
     \/ form.open /\ form.fields.today
  /\ rows' = [id \in Ids |-> IF rows[id] = None THEN None
                             ELSE [rows[id] EXCEPT !.today = FALSE]]
  /\ form' = IF form.open THEN Overnight(form) ELSE form
  /\ UNCHANGED <<kind, parties, shown, sheet, told, taps>>

FormStep ==
  \/ \E p \in Active \cup {None} : OpenNew(p)
  \/ EditFromSheet \/ \E id \in Ids : EditService(id)
  \/ TouchExpense \/ TouchAdvance \/ TouchCustomer \/ TouchService
  \/ \E p \in Parties : AddCategory(p)
  \/ Save \/ Refused \/ Cancel \/ \E c \in Ids : JumpToExisting(c)
SheetStep ==
  \/ Focus \/ CloseSheet \/ DeleteFromSheet \/ SettleFromSheet
  \/ \E id \in Ids : OpenSheet(id) \/ PayFromDashboard(id)
OtherStep ==
  \/ \E id \in Ids : PullDeletion(id) \/ \E row \in Versions(id) : PullRow(id, row)
  \/ \E p \in Parties : PullParty(p)
  \/ DayPasses
Next == FormStep \/ SheetStep \/ OtherStep

Spec == Init /\ [][Next]_vars

(***************************************************************************)
(* Properties.                                                             *)
(***************************************************************************)
\* A step of this device's user, not of a pull or of the clock.
OwnStep == changes' = changes

\* "Preserve settled_at across edits - don't accidentally re-open a paid
\* credit" (ExpenseEntryScreen.tsx): what was paid is owed again only after a
\* save from a form that was filled before the payment was known here, or one
\* that turned the credit into something else.
OnlyStaleFormsReopen ==
  [][\A id \in Ids :
       OwnStep /\ Live(id) /\ rows[id].paid /\ ~rows'[id].paid
       => /\ form.open /\ form.id = id
          /\ \/ form.was # None /\ ~form.was.paid
             \/ kind = "expense" /\ rows'[id].mode # "credit"]_vars

\* Nothing the user does on a stale list, sheet or form changes the contents of
\* a record that has been deleted meanwhile, here or elsewhere.  (trackChange
\* stamps the row and queues it all the same: that is SyncEngine's.)
GoneStaysGone ==
  [][\A id \in Ids :
       OwnStep /\ rows[id] # None /\ ~rows[id].live => rows'[id] = rows[id]]_vars

\* Saving an edit that reaches its row leaves every field that was not touched
\* as the form found it.  No form is saved that was not filled, but for a
\* customer whose row a pull took away and another brought back: the sheet
\* then still holds another customer's name and phone.  What becomes of a
\* payment is OnlyStaleFormsReopen.
EditKeepsTheRest ==
  [][\A id \in Ids :
       OwnStep /\ form.open /\ form.id = id /\ Live(id) /\ rows'[id] # rows[id]
       => IF form.was = None THEN kind = "customer"
          ELSE \A field \in Fields \ form.touched :
                 rows'[id][field] = form.was[field]]_vars

\* Two customers never share a phone, whichever of the forms and pulls wrote
\* them; the forms refuse with a name where they can.  (UNIQUE(salon_id, phone))
OnePhoneEach ==
  kind = "customer" =>
    \A c, d \in Ids : c # d /\ rows[c] # None /\ rows[d] # None
                      => rows[c].phone # rows[d].phone
=============================================================================
