-------------------------------- MODULE Bills --------------------------------
(***************************************************************************)
(* A bill from the first tap to the reports: IncomeEntryScreen with its    *)
(* AddServicesSheet, the commission rules, the customers a bill is tagged  *)
(* to, income-repository.ts and what the reports read back.                *)
(*                                                                         *)
(* The form works on copies: the staff and the price list as they were     *)
(* when the screen got the focus, the sheet's list as it was when the      *)
(* sheet was opened, the rule of a line as it was when the line was        *)
(* priced.  While it is open the records change below it, by a pull of     *)
(* another device's edits, and the subscription may lapse or be renewed.   *)
(*                                                                         *)
(* Amounts are paise and rates whole percents, in small numbers.  Left     *)
(* out: dates, remarks and receipts; the fast path also asks that the bill *)
(* be dated today.  Writes are tracked for sync as SyncEngine models it.   *)
(***************************************************************************)
EXTENDS Integers, FiniteSets, Functions

CONSTANTS
  Emps, Services,      \* ids; Services are numbers, in the order of the sheet
  Bills, Customers,    \* ids
  Phones,
  Tags,       \* price tags [male, female, cost], 0: no price
  Rules,      \* the rules an owner may set for a service, [type, value]
  Rates,      \* and as an employee's default: percentages only
  Discounts,  \* what may be typed as a discount, [type, value]
  Modes,      \* payment modes
  None,
  SalonGender,     \* the gender a new bill starts with
  Teams, Menus,    \* the staff and services after onboarding
  MaxTaps, MaxQty, MaxSaves, MaxChanges  \* bounds

Genders == {"male", "female"}
Known == {"active", "inactive"}
Staffs == [Emps -> [st : {"none", "deleted"} \cup Known, owner : BOOLEAN,
                    rate : Rates \cup {None}]]
Offers == [Services -> [active : BOOLEAN, tag : Tags]]

\* A line, whose employee is one of who, and with by: the rule it was priced
\* with; the lines of a form or bill; a stored bill and a stored customer.
ItemOf(who) == [price : Nat, cost : Nat, qty : Nat \ {0}, emp : who,
                rule : Rules \cup Rates \cup {None}, comm : Int,
                by : Rules \cup Rates \cup {None}]
ItemsOf(who) == [Services -> {None} \cup ItemOf(who)]
StoredBill ==
  [emp : Emps, mode : Modes, disc : Discounts \cup {None}, gross : Nat,
   net : Nat, comm : Int, who : Customers \cup {None},
   phone : Phones \cup {None}, deleted : BOOLEAN, gone : BOOLEAN,
   lines : ItemsOf(Emps)]
StoredCustomer == [phone : Phones, live : BOOLEAN]

ASSUME ListsAssumption ==
  /\ Services \subseteq Nat /\ IsFiniteSet(Services)
  /\ IsFiniteSet(Emps) /\ IsFiniteSet(Bills) /\ IsFiniteSet(Modes)
  /\ Tags \subseteq [male : Nat, female : Nat, cost : Nat]
  /\ Rules \subseteq [type : {"percentage", "fixed"}, value : Nat \ {0}]
  /\ Rates \subseteq [type : {"percentage"}, value : Nat \ {0}]
  /\ Discounts \subseteq [type : {"percentage", "flat"}, value : Int]
  /\ {"cash", "credit"} \subseteq Modes /\ SalonGender \in Genders
  /\ Teams \subseteq Staffs /\ Menus \subseteq Offers
  /\ Cardinality(Customers) > Cardinality(Phones)
ASSUME NoneAssumption ==
  /\ None \notin Emps /\ None \notin Bills /\ None \notin Customers
  /\ None \notin Phones /\ None \notin ItemOf(Emps \cup {None})
  /\ None \notin StoredBill /\ None \notin StoredCustomer
ASSUME TapsAssumption ==
  /\ MaxTaps \in Nat /\ MaxQty \in Nat /\ MaxSaves \in Nat
  /\ MaxChanges \in Nat

VARIABLES
  \* The local database:
  staff,      \* [Emps -> st, owner, rate: the default rule]
  services,   \* [Services -> active, tag]
  rules,      \* [Emps -> [Services -> the active rule, or None]]
  customers,  \* [Customers -> [phone, live], or None]
  bills,      \* [Bills -> header with its lines, or None]
  \* The app:
  locked,     \* ~entitlements.assignStaffOnBill
  form,       \* IncomeEntryScreen
  replaced,   \* history: customers a pull has put another row in place of
  taps, saves, changes

catalog == <<staff, services, rules>>
database == <<catalog, customers, bills, locked, replaced>>
vars == <<database, form, taps, saves, changes>>

(***************************************************************************)
(* Prices and commission: pickPrice, resolveEffectiveRule,                 *)
(* calculateCommission, the discount.                                      *)
(***************************************************************************)
Larger(a, b) == IF a > b THEN a ELSE b

PickPrice(tag, g) ==
  IF g = "female" THEN IF tag.female # 0 THEN tag.female ELSE tag.male
                  ELSE IF tag.male # 0 THEN tag.male ELSE tag.female

\* A rule for the service wins over the default rate of the employee, who may
\* be missing from the staff that is looked at.
Effective(rule, e, team, seen) ==
  IF rule # None THEN rule
  ELSE IF e \in Emps /\ team[e].st \in seen THEN team[e].rate ELSE None

\* Math.round(amount * percent / 100)
Percent(amount, pct) == (2 * amount * pct + 100) \div 200

Amount(line) == line.price * line.qty

Commission(rule, line) ==
  IF rule = None THEN 0
  ELSE IF rule.type = "fixed" THEN rule.value * line.qty
  ELSE Percent(Larger(0, Amount(line) - line.cost * line.qty), rule.value)

Discounted(gross, d) ==
  IF d = None THEN 0
  ELSE IF d.type = "flat" THEN d.value ELSE Percent(gross, d.value)

\* Of the lines of a bill or a form, [Services -> a line, or None]:
NoLines == [s \in Services |-> None]
Used(lines) == {s \in Services : lines[s] # None}
Gross(lines) == SumFunction([s \in Used(lines) |-> Amount(lines[s])])
Earned(lines) == SumFunction([s \in Used(lines) |-> lines[s].comm])

(***************************************************************************)
(* The form.                                                               *)
(***************************************************************************)
Closed == [on |-> "no", id |-> None, staff |-> None, offers |-> None,
           listed |-> None, emp |-> None, gender |-> None, mode |-> "cash",
           disc |-> None, phone |-> None, items |-> NoLines,
           repriced |-> FALSE, bound |-> FALSE]

Init ==
  /\ staff \in Teams /\ services \in Menus
  /\ rules = [e \in Emps |-> [s \in Services |-> None]]
  /\ customers = [c \in Customers |-> None]
  /\ bills = [b \in Bills |-> None]
  /\ locked \in BOOLEAN /\ form = Closed /\ replaced = {}
  /\ taps = 0 /\ saves = 0 /\ changes = 0

\* The employees the screen has loaded, and those it lets assign.
Employees(f) == {e \in Emps : f.staff[e].st = "active"}
BillingEmployees(f, lock) ==
  {e \in Employees(f) : lock => f.staff[e].owner}

\* The line with the rule of its employee and what it earns.
Priced(f, item) ==
  LET by == Effective(item.rule, item.emp, f.staff, {"active"})
  IN [item EXCEPT !.by = by, !.comm = Commission(by, item)]

Reassigned(f, s, e) ==
  Priced(f, [f.items[s] EXCEPT !.emp = e, !.rule = rules[e][s]])

\* handleSelectEmployee: the lines of the previous default follow, and an
\* empty new bill goes on to the services.
SelectEmployee(f, e) ==
  LET inherits(s) == f.emp = None \/ f.items[s].emp = f.emp
  IN IF f.emp = e THEN f
     ELSE [f EXCEPT
       !.emp = e, !.repriced = TRUE,
       !.items = [s \in Services |->
         IF s \in Used(f.items) /\ inherits(s) THEN Reassigned(f, s, e)
         ELSE f.items[s]],
       !.on = IF f.id = None /\ Used(f.items) = {} THEN "sheet" ELSE f.on,
       !.listed = IF f.id = None /\ Used(f.items) = {} THEN services
                  ELSE f.listed]

\* Under a lock a new bill is bound to the owner, whenever the lock comes.
Bound(f, lock) ==
  LET mine == BillingEmployees(f, lock)
  IN IF f.on \in {"form", "sheet"} /\ f.id = None /\ lock /\ mine # {}
        /\ f.emp \notin mine
     THEN SelectEmployee(f, CHOOSE e \in mine : TRUE) ELSE f

Opened == [Closed EXCEPT !.on = "form", !.staff = staff, !.offers = services,
                         !.gender = SalonGender, !.bound = locked]

NewBill ==
  /\ form.on = "no"
  /\ form' = Bound(Opened, locked)
  /\ UNCHANGED <<database, taps, saves, changes>>

\* The commission by the rule that holds now.
HydratedAnew(line, s) ==
  [price |-> line.price, cost |-> line.cost, qty |-> line.qty,
   emp |-> line.emp, rule |-> rules[line.emp][s],
   comm |-> Commission(Effective(rules[line.emp][s], line.emp, staff,
                                 {"active"}), line),
   by |-> line.by]

\* A line as it was saved, with the rule that holds now.
Hydrated(line, s) ==
  [price |-> line.price, cost |-> line.cost, qty |-> line.qty,
   emp |-> line.emp, rule |-> rules[line.emp][s], comm |-> line.comm,
   by |-> line.by]

\* An edit is filled from its bill once there are employees and services.  The
\* bill has no gender: the column is never written.
HasMasters(f) ==
  Employees(f) # {} /\ \E s \in Services : f.offers[s].active

Filled(f) ==
  LET t == bills[f.id]
  IN IF ~HasMasters(f) \/ t.deleted THEN f
     ELSE [f EXCEPT !.emp = t.emp, !.mode = t.mode, !.disc = t.disc,
                    !.phone = t.phone,
                    !.items = [s \in Services |->
                      IF t.lines[s] = None THEN None
                      ELSE Hydrated(t.lines[s], s)]]

EditBill(b) ==
  /\ form.on = "no" /\ bills[b] # None /\ ~bills[b].deleted
  /\ form' = Filled([Opened EXCEPT !.id = b])
  /\ UNCHANGED <<database, taps, saves, changes>>

\* One tap, and the form after it.
Tap(f) ==
  /\ taps < MaxTaps /\ taps' = taps + 1
  /\ form' = f
  /\ UNCHANGED <<database, saves, changes>>

PickEmployee(e) ==
  /\ form.on = "form" /\ e \in BillingEmployees(form, locked) /\ e # form.emp
  /\ Tap(SelectEmployee(form, e))

\* changeItemEmployee
ReassignLine(s, e) ==
  /\ form.on = "form" /\ s \in Used(form.items)
  /\ e \in BillingEmployees(form, locked) /\ e # form.items[s].emp
  /\ Tap([form EXCEPT !.items[s] = Reassigned(form, s, e),
                      !.repriced = TRUE])

\* handleGender: tapped again it is taken back.
PickGender(g) ==
  /\ form.on = "form"
  /\ LET now == IF form.gender = g THEN None ELSE g
         price(s) == PickPrice(form.offers[s].tag, now)
     IN Tap([form EXCEPT
          !.gender = now, !.repriced = TRUE,
          !.items = [s \in Services |->
            IF s \in Used(form.items) /\ form.offers[s].active
            THEN Priced(form, [form.items[s] EXCEPT !.price = price(s)])
            ELSE form.items[s]]])

\* The line is not priced again.
ChangeQtyOldCommission(s, delta) ==
  /\ form.on = "form" /\ s \in Used(form.items)
  /\ LET qty == Larger(1, form.items[s].qty + delta)
     IN /\ qty # form.items[s].qty /\ qty <= MaxQty
        /\ Tap([form EXCEPT !.items[s].qty = qty, !.repriced = TRUE])

ChangeQty(s, delta) ==
  /\ form.on = "form" /\ s \in Used(form.items)
  /\ LET qty == Larger(1, form.items[s].qty + delta)
     IN /\ qty # form.items[s].qty /\ qty <= MaxQty
        /\ Tap([form EXCEPT
             !.items[s] = Priced(form, [form.items[s] EXCEPT !.qty = qty]),
             !.repriced = TRUE])

RemoveItem(s) ==
  /\ form.on = "form" /\ s \in Used(form.items)
  /\ Tap([form EXCEPT !.items[s] = None, !.repriced = TRUE])

SetDiscount(d) ==
  /\ form.on = "form" /\ d # form.disc
  /\ Tap([form EXCEPT !.disc = d, !.repriced = TRUE])

SetMode(m) ==
  /\ form.on = "form" /\ m # form.mode
  /\ Tap([form EXCEPT !.mode = m])

\* The two fields, a suggestion, or the name that the lookup of the phone fills
\* into a blank field.  With one field empty nobody is tagged.
SetCustomer(p) ==
  /\ form.on = "form" /\ p # form.phone
  /\ Tap([form EXCEPT !.phone = p])

\* AddServicesSheet lists the services as they are when it opens.
OpenSheet ==
  /\ form.on = "form"
  /\ Tap([form EXCEPT !.on = "sheet", !.listed = services])

CloseSheet ==
  /\ form.on = "sheet"
  /\ Tap([form EXCEPT !.on = "form"])

\* Who a ticked service may end up with: whoever it has, the default when it
\* is ticked anew, or a pick from the list.
Assignable(f, s) ==
  LET had == s \in Used(f.items)
      mine == IF had THEN f.items[s].emp ELSE None
  IN BillingEmployees(f, locked)
       \cup (IF mine # None THEN {mine}
             ELSE {f.emp} \cup (IF had THEN {None} ELSE {}))

\* What the sheet hands back: the ticked services, each with an employee.
Selections(f) ==
  LET listed == {s \in Services : f.listed[s].active}
  IN UNION {{w \in [ticked -> UNION {Assignable(f, s) : s \in ticked}] :
                \A s \in ticked : w[s] \in Assignable(f, s)} :
            ticked \in SUBSET listed}

\* buildBillItems: quantities stay, prices and rules are today's, and a line
\* whose service is not listed any more is gone.
Built(f, w) ==
  LET had(s) == s \in Used(f.items)
      default == IF f.emp \in Employees(f) THEN f.emp ELSE None
      who(s) == IF w[s] # None THEN w[s]
                ELSE IF had(s) THEN f.items[s].emp ELSE default
      line(s) == [price |-> PickPrice(f.listed[s].tag, f.gender),
                  cost |-> f.listed[s].tag.cost,
                  qty |-> IF had(s) THEN f.items[s].qty ELSE 1,
                  emp |-> who(s),
                  rule |-> IF who(s) = None THEN None ELSE rules[who(s)][s],
                  comm |-> 0, by |-> None]
  IN [s \in Services |->
        IF s \in DOMAIN w THEN Priced(f, line(s)) ELSE None]

SheetDone ==
  /\ form.on = "sheet" /\ taps < MaxTaps
  /\ \E w \in Selections(form) :
       Tap([form EXCEPT !.on = "form", !.items = Built(form, w),
                        !.repriced = TRUE])

Discard ==
  /\ form.on \in {"form", "sheet", "preview"}
  /\ form' = Closed
  /\ UNCHANGED <<database, taps, saves, changes>>

(***************************************************************************)
(* Saving.                                                                 *)
(***************************************************************************)
\* The lock is only in the picker.
StaffOkAnyone(f, items) ==
  \A s \in Used(items) : items[s].emp # None \/ BillingEmployees(f, locked) = {}

\* Whom the lines may be given to; a line without an employee is left to
\* ensureOwnerEmployee when there is nobody to choose.
Assigned(f) == {f.emp} \cup {f.items[s].emp : s \in Used(f.items)}
StaffOk(f, items) ==
  LET mine == BillingEmployees(f, locked)
  IN \A s \in Used(items) :
       IF ~locked THEN items[s].emp # None
       ELSE IF items[s].emp = None THEN mine = {}
       ELSE items[s].emp \in mine \/ (f.id # None /\ items[s].emp \in Assigned(f))

DiscountOk(d) ==
  d # None => d.value >= 0 /\ (d.type = "percentage" => d.value <= 100)

\* No customer is asked for.
CreditOkAnyone(f) == TRUE

\* validateCreditCustomer
CreditOk(f) == f.mode = "credit" => f.phone # None

Owners(team) == {e \in Emps : team[e].st \in Known /\ team[e].owner}

\* Onboarding makes one owner's row.
ASSUME OwnerAssumption ==
  \A team \in Teams : \A e, d \in Owners(team) : e = d

\* An inactive owner is not found.
OwnerEmployeeActiveOnly ==
  LET live == {e \in Owners(staff) : staff[e].st = "active"}
  IN IF live # {} THEN live ELSE {e \in Emps : staff[e].st = "none"}

\* ensureOwnerEmployee: the owner's row, activated or made; its own
\* transaction, committed before the bill.
OwnerEmployee ==
  LET live == {e \in Owners(staff) : staff[e].st = "active"}
  IN IF live # {} THEN live
     ELSE IF Owners(staff) # {} THEN Owners(staff)
     ELSE {e \in Emps : staff[e].st = "none"}
EnsuredOwner(e) ==
  IF e \in Owners(staff) THEN [staff EXCEPT ![e].st = "active"]
  ELSE [staff EXCEPT ![e] = [st |-> "active", owner |-> TRUE, rate |-> None]]

\* The header's employee: the default, or that of the first line.
Primary(f, items) ==
  LET first == CHOOSE s \in Used(items) : \A x \in Used(items) : s <= x
  IN IF f.emp # None THEN f.emp ELSE items[first].emp

\* customerRepo.upsert, in its own transaction too.  The phone is unique among
\* all rows, deleted ones included, and the lookup sees the live ones only.
WithPhone(p) == {c \in Customers : customers[c] # None /\ customers[c].phone = p}
Upserted(p) ==
  LET live == {c \in WithPhone(p) : customers[c].live}
  IN IF live # {} THEN live
     ELSE IF WithPhone(p) = {} THEN {c \in Customers : customers[c] = None}
     ELSE {}

\* The lines as they are written: the rule is looked up again, with the
\* employee as the form or else the database knows it.
Saved(f, items, primary, team) ==
  [s \in Services |->
     IF items[s] = None THEN None
     ELSE LET i == items[s]
              e == IF i.emp = None THEN primary ELSE i.emp
              rule == IF e \in Employees(f)
                      THEN Effective(i.rule, e, f.staff, {"active"})
                      ELSE Effective(i.rule, e, team, Known)
          IN [price |-> i.price, cost |-> i.cost, qty |-> i.qty, emp |-> e,
              rule |-> rule, comm |-> i.comm, by |-> i.by]]

Header(f, items, primary, who, team) ==
  LET gross == Gross(items)
      disc == Discounted(gross, f.disc)
  IN [emp |-> primary, mode |-> f.mode, disc |-> f.disc, gross |-> gross,
      net |-> Larger(0, gross - disc), comm |-> Earned(items), who |-> who,
      phone |-> f.phone,
      deleted |-> FALSE, gone |-> FALSE,
      lines |-> Saved(f, items, primary, team)]

\* updateIncomeTransaction looks at the id alone and leaves deleted_at as it
\* is; the lines are new rows.
Written(b, new) ==
  IF form.id = None THEN new ELSE [new EXCEPT !.deleted = bills[b].deleted]

\* A receipt is shown for a tagged bill that is there.
AfterSave(new) ==
  IF new.who # None /\ ~new.deleted THEN [Closed EXCEPT !.on = "preview"]
  ELSE Closed

\* saveBill.
SaveBill(items) ==
  /\ saves < MaxSaves /\ saves' = saves + 1
  /\ \E e \in IF Primary(form, items) = None THEN OwnerEmployee
              ELSE {Primary(form, items)} :
       LET asked == Primary(form, items) = None
           team == IF asked THEN EnsuredOwner(e) ELSE staff
           tagged == form.phone # None
           stuck == [form EXCEPT !.on = "form", !.items = items,
                       !.emp = IF asked THEN e ELSE @,
                       !.staff = IF asked THEN [@ EXCEPT ![e] = team[e]] ELSE @]
       IN /\ staff' = team
          /\ IF tagged /\ Upserted(form.phone) = {}
             THEN /\ form' = IF form.id = None \/ HasMasters(form) THEN stuck
                             ELSE Filled(stuck)
                  /\ UNCHANGED <<customers, bills>>
             ELSE \E who \in IF tagged THEN Upserted(form.phone)
                             ELSE {None},
                     b \in IF form.id # None THEN {form.id}
                           ELSE {x \in Bills : bills[x] = None} :
                    LET new == Written(b, Header(form, items, e, who, team))
                    IN /\ bills' = [bills EXCEPT ![b] = new]
                       /\ form' = AfterSave(new)
                       /\ customers' = IF ~tagged THEN customers
                            ELSE [customers EXCEPT ![who] =
                                    [phone |-> form.phone, live |-> TRUE]]
  /\ UNCHANGED <<services, rules, locked, replaced, taps, changes>>

\* handleSave
Save ==
  /\ form.on = "form" /\ Used(form.items) # {} /\ StaffOk(form, form.items)
  /\ DiscountOk(form.disc) /\ CreditOk(form)
  /\ SaveBill(form.items)

\* handleSaveFromSelections: straight from the sheet of a new bill, when the
\* rest of the form is as it was.
AtDefaults(f) == f.id = None /\ f.disc = None /\ f.mode = "cash"
SaveFromSheet ==
  /\ form.on = "sheet" /\ AtDefaults(form) /\ saves < MaxSaves
  /\ \E w \in Selections(form) :
       /\ DOMAIN w # {}
       /\ BillingEmployees(form, locked) = {} \/ \A s \in DOMAIN w : w[s] # None
       /\ StaffOk(form, Built(form, w))
       /\ SaveBill(Built(form, w))

(***************************************************************************)
(* What happens elsewhere: on the other screens of this device while no    *)
(* form is open, by a pull of another device's edits at any time.          *)
(***************************************************************************)
Elsewhere ==
  /\ changes < MaxChanges /\ changes' = changes + 1
  /\ UNCHANGED <<taps, saves>>

SetRule(e, s, rule) ==
  /\ Elsewhere /\ staff[e].st \in Known /\ rule # rules[e][s]
  /\ rules' = [rules EXCEPT ![e][s] = rule]
  /\ UNCHANGED <<staff, services, customers, bills, locked, form, replaced>>

SetService(s, offer) ==
  /\ Elsewhere /\ offer # services[s]
  /\ services' = [services EXCEPT ![s] = offer]
  /\ UNCHANGED <<staff, rules, customers, bills, locked, form, replaced>>

\* The employee form: the default rate, and whether the employee is active.
SetEmployee(e, st, rate) ==
  /\ Elsewhere /\ staff[e].st \in Known
  /\ staff' = [staff EXCEPT ![e].st = st, ![e].rate = rate]
  /\ UNCHANGED <<services, rules, customers, bills, locked, form, replaced>>

\* Owners can be deleted like anybody else.
DeleteEmployee(e) ==
  /\ Elsewhere /\ staff[e].st \in Known
  /\ staff' = [staff EXCEPT ![e].st = "deleted"]
  /\ UNCHANGED <<services, rules, customers, bills, locked, form, replaced>>

\* softDelete: header and lines.
DeleteBill(b) ==
  /\ Elsewhere /\ bills[b] # None /\ ~bills[b].deleted
  /\ bills' = [bills EXCEPT ![b].deleted = TRUE, ![b].gone = TRUE]
  /\ UNCHANGED <<catalog, customers, locked, form, replaced>>

DeleteCustomer(c) ==
  /\ Elsewhere /\ customers[c] # None /\ customers[c].live
  /\ customers' = [customers EXCEPT ![c].live = FALSE]
  /\ UNCHANGED <<catalog, bills, locked, form, replaced>>

\* The same phone added on another device: INSERT OR REPLACE takes the local
\* row with that phone away.
PullCustomer(c, p) ==
  /\ Elsewhere /\ customers[c] = None
  /\ customers' = [x \in Customers |->
       IF x = c THEN [phone |-> p, live |-> TRUE]
       ELSE IF x \in WithPhone(p) THEN None ELSE customers[x]]
  /\ replaced' = replaced \cup WithPhone(p)
  /\ UNCHANGED <<catalog, bills, locked, form>>

\* The subscription lapses or is renewed.
FlipLock ==
  /\ Elsewhere /\ locked' = ~locked
  /\ form' = [Bound(form, ~locked) EXCEPT !.bound = FALSE]
  /\ UNCHANGED <<catalog, customers, bills, replaced>>

FormStep ==
  \/ NewBill \/ OpenSheet \/ CloseSheet \/ SheetDone \/ Discard
  \/ Save \/ SaveFromSheet
  \/ \E b \in Bills : EditBill(b)
  \/ \E e \in Emps : PickEmployee(e) \/ \E s \in Services : ReassignLine(s, e)
  \/ \E g \in Genders : PickGender(g)
  \/ \E s \in Services : RemoveItem(s) \/ \E d \in {-1, 1} : ChangeQty(s, d)
  \/ \E d \in Discounts \cup {None} : SetDiscount(d)
  \/ \E m \in Modes : SetMode(m)
  \/ \E p \in Phones \cup {None} : SetCustomer(p)
OtherStep ==
  \/ FlipLock
  \/ \E e \in Emps, s \in Services, rule \in Rules \cup {None} :
       SetRule(e, s, rule)
  \/ \E e \in Emps, st \in Known, rate \in Rates \cup {None} :
       SetEmployee(e, st, rate)
  \/ \E e \in Emps : DeleteEmployee(e)
  \/ \E s \in Services, on \in BOOLEAN, tag \in Tags :
       SetService(s, [active |-> on, tag |-> tag])
  \/ \E b \in Bills : DeleteBill(b)
  \/ \E c \in Customers :
       \/ DeleteCustomer(c)
       \/ \E p \in Phones : PullCustomer(c, p)
Next == FormStep \/ OtherStep

Spec == Init /\ [][Next]_vars

(***************************************************************************)
(* The reports.                                                            *)
(***************************************************************************)
Live == {b \in Bills : bills[b] # None /\ ~bills[b].deleted}

\* The dashboard and the income of a period add up headers.
CommissionToday == SumFunction([b \in Live |-> bills[b].comm])
GrossToday == SumFunction([b \in Live |-> bills[b].gross])
Income == SumFunction([b \in Live |-> bills[b].net])
Split(m) ==
  SumFunction([b \in {x \in Live : bills[x].mode = m} |-> bills[b].net])

\* A line of a bill, by both.
Line(x) == bills[x[1]].lines[x[2]]

\* The header's deletion is not looked at.
JoinedByLine ==
  {x \in {b \in Bills : bills[b] # None} \X Services :
     ~bills[x[1]].gone /\ Line(x) # None}

\* The lines the item queries join: neither they nor their header deleted.
Joined ==
  {x \in Live \X Services : ~bills[x[1]].gone /\ Line(x) # None}
CommissionOf(e) ==
  SumFunction([x \in {y \in Joined : Line(y).emp = e} |-> Line(x).comm])
RevenueOf(e) ==
  SumFunction([x \in {y \in Joined : Line(y).emp = e} |-> Amount(Line(x))])
RevenueOfService(s) ==
  SumFunction([x \in {y \in Joined : y[2] = s} |-> Amount(Line(x))])

(***************************************************************************)
(* Properties.                                                             *)
(***************************************************************************)
\* Every variable has its type.
TypeOK ==
  /\ staff \in Staffs /\ services \in Offers
  /\ rules \in [Emps -> [Services -> Rules \cup {None}]]
  /\ customers \in [Customers -> {None} \cup StoredCustomer]
  /\ bills \in [Bills -> {None} \cup StoredBill]
  /\ locked \in BOOLEAN /\ replaced \subseteq Customers
  /\ form \in [on : {"no", "form", "sheet", "preview"}, id : Bills \cup {None},
               staff : Staffs \cup {None}, offers : Offers \cup {None},
               listed : Offers \cup {None}, emp : Emps \cup {None},
               gender : Genders \cup {None}, mode : Modes,
               disc : Discounts \cup {None}, phone : Phones \cup {None},
               items : ItemsOf(Emps \cup {None}),
               repriced : BOOLEAN, bound : BOOLEAN]
  /\ taps \in Nat /\ saves \in Nat /\ changes \in Nat

\* The reports agree with each other, whatever was edited, deleted here or
\* elsewhere while an edit was open, and saved again: what the employees earned
\* and made and what the services made is what the headers say, and what was
\* paid in each mode is the income.  (ReportsScreen, DashboardScreen,
\* CommissionSummaryScreen, TopEmployeesScreen, TopServicesScreen)
ReportsAgree ==
  /\ CommissionToday = SumFunction([e \in Emps |-> CommissionOf(e)])
  /\ GrossToday = SumFunction([e \in Emps |-> RevenueOf(e)])
  /\ GrossToday = SumFunction([s \in Services |-> RevenueOfService(s)])
  /\ Income = SumFunction([m \in Modes |-> Split(m)])

\* An employee who opens a line of the commission report finds the rule that
\* explains the amount, unless the rule was changed after the line was priced.
CommissionExplained ==
  \A b \in Bills : bills[b] # None =>
    \A s \in Used(bills[b].lines) :
      LET line == bills[b].lines[s]
      IN line.rule = line.by => line.comm = Commission(line.rule, line)

\* A credit bill can be collected: it names a customer of the database, unless
\* a pull has put another row with the same phone in its place.  ("Credit
\* bills owe the salon money - always tag them to a specific customer",
\* IncomeEntryScreen.tsx)
CreditIsCollectable ==
  \A b \in Live : bills[b].mode = "credit" =>
    /\ bills[b].who # None
    /\ customers[bills[b].who] # None \/ bills[b].who \in replaced

\* There is one owner's row, whatever is deactivated and deleted and however
\* many bills are saved without an employee.  (ensureOwnerEmployee,
\* "Idempotent")
OwnerIsUnique == Cardinality(Owners(staff)) <= 1

\* Saving an edit whose lines were not touched leaves what was charged and
\* what the staff earned as it was, whatever prices and rules have become.
UntouchedEditKeepsMoney ==
  [][saves' # saves /\ form.id # None /\ ~form.repriced =>
       LET old == bills[form.id]  new == bills'[form.id]
       IN /\ new.net = old.net /\ new.comm = old.comm
          /\ Used(new.lines) \subseteq Used(old.lines)
          /\ \A s \in Used(new.lines) :
               new.lines[s].comm = old.lines[s].comm]_vars

\* After the subscription has lapsed a new bill is the owner's alone, and an
\* edit that was opened under the lock gives no line to anybody who was not on
\* the bill.  (billing-employees.ts)
LockHolds ==
  [][saves' # saves /\ locked /\ (form.id = None \/ form.bound) =>
       \A b \in {x \in Bills : bills'[x] # bills[x]} :
         \A s \in Used(bills'[b].lines) :
           LET e == bills'[b].lines[s].emp
           IN \/ staff'[e].owner
              \/ /\ form.id # None
                 /\ e \in {bills[b].emp} \cup
                      {bills[b].lines[x].emp : x \in Used(bills[b].lines)}]_vars
=============================================================================
