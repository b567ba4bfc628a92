---------------------------- MODULE BillingProofs ----------------------------
(***************************************************************************)
(* Theorems about Billing, for any number of salons, payments, deliveries, *)
(* claims, faults and deaths: what a transaction of the backend has read   *)
(* stays true until its grant, so each payment and each claim is granted   *)
(* once, on top of what was granted before.                                *)
(***************************************************************************)
EXTENDS Billing, TLAPS, FiniteSetTheorems, SequenceTheorems

Stages == {"idle", "marked", "resolved", "read", "granted", "done"}
JobState == [st : Stages, to : Terms \cup {Nothing},
             at : Nat, ref : Claims \cup {Nothing}, cnt : Nat]
Client == [st : {"idle", "checkout", "paying", "verifying"},
           sub : Subs \cup {Nothing}, pay : Payments \cup {Nothing}]
Account == [cur : Nat, end : Nat,
            st : {"none", "active", "cancelled", "expired"}]
Grants(j) == j.kind \notin EndKinds \cup {"failed"}

(***************************************************************************)
(* The constants: the key of a report belongs to one salon.                *)
(***************************************************************************)
KeySalon(k) == IF k \in Payments THEN SalonOf[SubOf[k]] ELSE SalonOf[k]

LEMMA ConstFacts ==
  /\ \A b \in Subs : TermsOf(b) \in Terms /\ TermsOf(b).salon = SalonOf[b]
  /\ \A b \in Subs : b \in Keys /\ KeySalon(b) = SalonOf[b] /\ SalonOf[b] \in Salons
  /\ \A p \in Payments : p \in Keys /\ KeySalon(p) = SalonOf[SubOf[p]]
  /\ Nothing \notin Payments /\ Nothing \notin Subs /\ Nothing \notin Salons
  /\ Nothing \notin Claims /\ Nothing \notin Terms
  /\ NoJob \in JobState /\ NoClient \in Client
  BY PlansAssumption DEF TermsOf, Terms, Keys, KeySalon, NoJob, JobState,
     NoClient, Client, Stages

LEMMA EventFacts ==
  ASSUME NEW e \in Events
  PROVE  /\ e \in Jobs /\ e.sub \in Subs /\ e.kind \in Kinds
         /\ e.pay \in Payments \cup {Nothing} /\ e.kind # "verify"
         /\ e.pay # Nothing => SubOf[e.pay] = e.sub
         /\ Key(e) = Entity(e) /\ Entity(e) \in Keys
         /\ KeySalon(Entity(e)) = SalonOf[e.sub]
<1>1. /\ e \in Jobs /\ e.sub \in Subs /\ e.kind \in Kinds
      /\ e.pay \in Payments \cup {Nothing}
      /\ e.pay # Nothing => SubOf[e.pay] = e.sub
  BY JobsAssumption DEF Jobs
<1>2. e.kind # "verify"
  BY <1>1 DEF Kinds, GrantKinds, EndKinds
<1> QED BY <1>1, <1>2, ConstFacts DEF Key, Entity

LEMMA VerifyFacts ==
  ASSUME NEW v \in Verifies
  PROVE  /\ v \in Jobs /\ v.sub \in Subs /\ v.kind = "verify"
         /\ v.pay \in Payments /\ SubOf[v.pay] = v.sub
         /\ Key(v) = v.pay /\ Key(v) \in Keys /\ KeySalon(Key(v)) = SalonOf[v.sub]
         /\ Grants(v)
<1>1. /\ v \in Jobs /\ v.sub \in Subs /\ v.kind = "verify" /\ v.pay \in Payments
  BY JobsAssumption DEF Jobs
<1>2. SubOf[v.pay] = v.sub
  BY <1>1, JobsAssumption, ConstFacts
<1> QED BY <1>1, <1>2, ConstFacts DEF Key, Grants, EndKinds

LEMMA JobFacts ==
  ASSUME NEW j \in Jobs
  PROVE  /\ j.sub \in Subs /\ Key(j) \in Keys
         /\ KeySalon(Key(j)) = SalonOf[j.sub] /\ SalonOf[j.sub] \in Salons
  BY EventFacts, VerifyFacts, ConstFacts DEF Jobs

(***************************************************************************)
(* What each step may change.                                              *)
(***************************************************************************)
LEMMA LedgerEffects ==
  ASSUME [Next]_vars
  PROVE  \/ UNCHANGED ledger
         \/ \E e \in Events : MarkEnded(e) \/ MarkFailed(e)
         \/ \E j \in Jobs : GrantTx(j)
<1>1. CASE UNCHANGED vars
  BY <1>1 DEF vars
<1>2. CASE AppStep \/ RazorpayStep \/ Tick
  BY <1>2 DEF AppStep, RazorpayStep, Tick, Purchase, Pay, SheetOpens, Told,
     GiveUp, Publish, Renew, Decline, End, ledger
<1>3. ASSUME NEW b \in Subs, CheckoutCreate(b) \/ CheckoutDone(b) \/ CheckoutFail(b)
      PROVE  UNCHANGED ledger
  BY <1>3 DEF CheckoutCreate, CheckoutDone, CheckoutFail
<1>4. ASSUME NEW e \in Events, Handle(e) \/ Fail(e) \/ Die(e)
      PROVE  UNCHANGED ledger \/ MarkEnded(e) \/ MarkFailed(e) \/ GrantTx(e)
  BY <1>4 DEF Handle, Fail, Die, Deliver, Record, Resolve, Answer, Read
<1>5. ASSUME NEW v \in Verifies, VerifyStep(v)
      PROVE  UNCHANGED ledger \/ GrantTx(v)
  BY <1>5 DEF VerifyStep, VerifyStart, VerifyResolve, VerifyDone, VerifyFail,
     VerifyDie, Read
<1>6. ASSUME NEW c \in Claims, ClaimLook(c) \/ ClaimTx(c) \/ ClaimFail(c)
      PROVE  UNCHANGED ledger
  BY <1>6 DEF ClaimLook, ClaimTx, ClaimFail, ledger
<1> QED BY <1>1, <1>2, <1>3, <1>4, <1>5, <1>6 DEF Next, Jobs

LEMMA JobEffects ==
  ASSUME [Next]_vars
  PROVE  \/ UNCHANGED <<job, mapping>>
         \/ \E b \in Subs : CheckoutDone(b)
         \/ \E e \in Events : Handle(e) \/ Fail(e) \/ Die(e)
         \/ \E v \in Verifies : VerifyStep(v)
<1>1. CASE UNCHANGED vars
  BY <1>1 DEF vars
<1>2. CASE AppStep \/ RazorpayStep \/ Tick
  BY <1>2 DEF AppStep, RazorpayStep, Tick, Purchase, Pay, SheetOpens, Told,
     GiveUp, Publish, Renew, Decline, End
<1>3. ASSUME NEW b \in Subs, CheckoutCreate(b) \/ CheckoutFail(b)
      PROVE  UNCHANGED <<job, mapping>>
  BY <1>3 DEF CheckoutCreate, CheckoutFail
<1>4. ASSUME NEW c \in Claims, ClaimLook(c) \/ ClaimTx(c) \/ ClaimFail(c)
      PROVE  UNCHANGED <<job, mapping>>
  BY <1>4 DEF ClaimLook, ClaimTx, ClaimFail
<1> QED BY <1>1, <1>2, <1>3, <1>4 DEF Next

LEMMA InviteEffects ==
  ASSUME [Next]_vars
  PROVE  \/ UNCHANGED <<claimed, referrals, claim>>
         \/ \E c \in Claims : ClaimLook(c) \/ ClaimTx(c) \/ ClaimFail(c)
<1>1. CASE UNCHANGED vars
  BY <1>1 DEF vars, invites
<1>2. CASE AppStep \/ RazorpayStep \/ Tick
  BY <1>2 DEF AppStep, RazorpayStep, Tick, Purchase, Pay, SheetOpens, Told,
     GiveUp, Publish, Renew, Decline, End, invites
<1>3. ASSUME NEW b \in Subs, CheckoutCreate(b) \/ CheckoutDone(b) \/ CheckoutFail(b)
      PROVE  UNCHANGED invites
  BY <1>3 DEF CheckoutCreate, CheckoutDone, CheckoutFail
<1>4. ASSUME NEW e \in Events, Handle(e) \/ Fail(e) \/ Die(e)
      PROVE  UNCHANGED invites
  BY <1>4 DEF Handle, Fail, Die, Deliver, Record, Resolve, MarkEnded,
     MarkFailed, Answer, Read, GrantTx
<1>5. ASSUME NEW v \in Verifies, VerifyStep(v)
      PROVE  UNCHANGED invites
  BY <1>5 DEF VerifyStep, VerifyStart, VerifyResolve, VerifyDone, VerifyFail,
     VerifyDie, Read, GrantTx
<1> QED BY <1>1, <1>2, <1>3, <1>4, <1>5 DEF Next, invites

LEMMA ToldEffects ==
  ASSUME [Next]_vars
  PROVE  \/ UNCHANGED <<verify, told>>
         \/ \E s \in Salons : Told(s) \/ \E p \in Payments : Pay(s, p)
         \/ \E v \in Verifies : VerifyStart(v) \/ VerifyResolve(v)
                                \/ VerifyDone(v) \/ VerifyFail(v)
<1>1. CASE UNCHANGED vars
  BY <1>1 DEF vars, requests, app
<1>2. CASE AppStep \/ RazorpayStep \/ Tick
  BY <1>2 DEF AppStep, RazorpayStep, Tick, Purchase, SheetOpens,
     GiveUp, Publish, Renew, Decline, End, requests, app
<1>3. ASSUME NEW b \in Subs, CheckoutCreate(b) \/ CheckoutDone(b) \/ CheckoutFail(b)
      PROVE  UNCHANGED <<verify, told>>
  BY <1>3 DEF CheckoutCreate, CheckoutDone, CheckoutFail, requests, app
<1>4. ASSUME NEW e \in Events, Handle(e) \/ Fail(e) \/ Die(e)
      PROVE  UNCHANGED <<verify, told>>
  BY <1>4 DEF Handle, Fail, Die, Deliver, Record, Resolve, MarkEnded,
     MarkFailed, Answer, Read, GrantTx, requests, app
<1>5. ASSUME NEW v \in Verifies, VerifyStep(v)
      PROVE  \/ UNCHANGED <<verify, told>>
             \/ VerifyStart(v) \/ VerifyResolve(v) \/ VerifyDone(v) \/ VerifyFail(v)
  BY <1>5 DEF VerifyStep, VerifyDie, Read, GrantTx, requests, app
<1>6. ASSUME NEW c \in Claims, ClaimLook(c) \/ ClaimTx(c) \/ ClaimFail(c)
      PROVE  UNCHANGED <<verify, told>>
  BY <1>6 DEF ClaimLook, ClaimTx, ClaimFail, requests, app
<1> QED BY <1>1, <1>2, <1>3, <1>4, <1>5, <1>6 DEF Next

(***************************************************************************)
(* What a running report knows.  R, P and G are the referrals, the         *)
(* processed keys and the reward grants, which only grow.                  *)
(***************************************************************************)
GrantsOf(G, c) == {g \in G : g[1] = c}

ToKnown(j, x) ==
  x.st \in {"resolved", "read", "granted"} =>
    x.to \in Terms /\ x.to.salon = KeySalon(Key(j))
RefKnown(x, R, G) ==
  x.st = "read" /\ x.ref # Nothing =>
    /\ x.ref \in R /\ x.ref.who = x.to.salon
    /\ x.cnt <= Cardinality(GrantsOf(G, x.ref))
GrantKnown(j, x, P) ==
  x.st = "granted" /\ Grants(j) => Key(j) \in P[x.to.salon]
Knows(j, x, R, P, G) == ToKnown(j, x) /\ RefKnown(x, R, G) /\ GrantKnown(j, x, P)

LEMMA StillKnows ==
  ASSUME NEW j, NEW x \in JobState, NEW R, NEW R2, NEW P, NEW P2, NEW G, NEW G2,
         Knows(j, x, R, P, G), R \subseteq R2, G \subseteq G2, IsFiniteSet(G2),
         \A s \in Salons : P[s] \subseteq P2[s]
  PROVE  Knows(j, x, R2, P2, G2)
<1>1. RefKnown(x, R2, G2)
  <2> SUFFICES ASSUME x.st = "read", x.ref # Nothing
               PROVE  /\ x.ref \in R2 /\ x.ref.who = x.to.salon
                      /\ x.cnt <= Cardinality(GrantsOf(G2, x.ref))
    BY DEF RefKnown
  <2>1. /\ x.ref \in R /\ x.ref.who = x.to.salon
        /\ x.cnt <= Cardinality(GrantsOf(G, x.ref))
    BY DEF Knows, RefKnown
  <2>2. GrantsOf(G, x.ref) \in SUBSET GrantsOf(G2, x.ref)
    BY DEF GrantsOf
  <2>3. IsFiniteSet(GrantsOf(G2, x.ref))
    BY FS_Subset DEF GrantsOf
  <2>4. /\ Cardinality(GrantsOf(G, x.ref)) <= Cardinality(GrantsOf(G2, x.ref))
        /\ Cardinality(GrantsOf(G2, x.ref)) \in Nat
        /\ Cardinality(GrantsOf(G, x.ref)) \in Nat
    BY <2>2, <2>3, FS_Subset, FS_CardinalityType
  <2> QED BY <2>1, <2>4 DEF JobState
<1>2. GrantKnown(j, x, P2)
  BY DEF Knows, ToKnown, GrantKnown, Terms
<1> QED BY <1>1, <1>2 DEF Knows

(***************************************************************************)
(* The inductive invariant.                                                *)
(***************************************************************************)
JobsOK == job \in [Jobs -> JobState] /\ mapping \in [Keys -> Terms \cup {Nothing}]
JobsKnow ==
  \A j \in Jobs : Knows(j, job[j], referrals, processed, grants)
MappingKnows ==
  \A k \in Keys : mapping[k] # Nothing => mapping[k].salon = KeySalon(k)

LedgerOK ==
  /\ billing \in [Salons -> Account] /\ subs \in [Salons -> Seq(Windows)]
  /\ processed \in [Salons -> SUBSET Keys] /\ failures \in [Salons -> Nat]
  /\ grants \subseteq Claims \X Keys /\ IsFiniteSet(grants)
  /\ count \in [Claims -> Nat]

InvitesOK ==
  /\ referrals \subseteq Claims /\ claimed \in [Salons -> Claims \cup {Nothing}]
  /\ \A c \in Claims : claim[c] \in {"looked", "made"} => c.who # c.code
  /\ \A c \in referrals : c.who # c.code /\ claimed[c.who] # Nothing
  /\ OneReferralPerSalon
  /\ claim \in [Claims -> {"idle", "looked", "made", "already", "failed"}]

\* One job takes the value x.
LEMMA JobUpdate ==
  ASSUME JobsOK, JobsKnow, NEW j \in Jobs, NEW x \in JobState,
         job' = [job EXCEPT ![j] = x], Knows(j, x, referrals', processed', grants'),
         referrals \subseteq referrals', grants \subseteq grants',
         IsFiniteSet(grants'),
         \A s \in Salons : processed[s] \subseteq processed'[s]
  PROVE  /\ job' \in [Jobs -> JobState]
         /\ JobsKnow'
<1>1. job' \in [Jobs -> JobState]
  BY DEF JobsOK
<1>2. ASSUME NEW i \in Jobs
      PROVE  Knows(i, job'[i], referrals', processed', grants')
  <2>1. CASE i = j
    BY <2>1 DEF JobsOK
  <2>2. CASE i # j
    <3>1. job'[i] = job[i] /\ job[i] \in JobState
      BY <2>2 DEF JobsOK
    <3>2. Knows(i, job[i], referrals, processed, grants)
      BY DEF JobsKnow
    <3>3. Knows(i, job[i], referrals', processed', grants')
      BY <3>1, <3>2, StillKnows
    <3> QED BY <3>1, <3>3
  <2> QED BY <2>1, <2>2
<1> QED BY <1>1, <1>2 DEF JobsKnow

LEMMA JobsUnmoved ==
  ASSUME JobsOK, JobsKnow, job' = job,
         referrals \subseteq referrals', grants \subseteq grants',
         IsFiniteSet(grants'),
         \A s \in Salons : processed[s] \subseteq processed'[s]
  PROVE  JobsKnow'
<1> SUFFICES ASSUME NEW i \in Jobs
             PROVE  Knows(i, job[i], referrals', processed', grants')
  BY DEF JobsKnow
<1>1. job[i] \in JobState /\ Knows(i, job[i], referrals, processed, grants)
  BY DEF JobsOK, JobsKnow
<1> QED BY <1>1, StillKnows

Grown ==
  /\ referrals \subseteq referrals' /\ grants \subseteq grants'
  /\ IsFiniteSet(grants')
  /\ \A s \in Salons : processed[s] \subseteq processed'[s]

LEMMA AllGrows ==
  ASSUME LedgerOK, [Next]_vars
  PROVE  Grown
<1>1. referrals \subseteq referrals'
  <2>1. ASSUME NEW c \in Claims, ClaimLook(c) \/ ClaimTx(c) \/ ClaimFail(c)
        PROVE  referrals \subseteq referrals'
    BY <2>1 DEF ClaimLook, ClaimTx, ClaimFail
  <2> QED BY <2>1, InviteEffects
<1>2. CASE UNCHANGED ledger
  BY <1>1, <1>2 DEF ledger, Grown, LedgerOK
<1>3. ASSUME NEW e \in Events, MarkEnded(e) \/ MarkFailed(e) PROVE Grown
  BY <1>1, <1>3 DEF MarkEnded, MarkFailed, Grown, LedgerOK
<1>4. ASSUME NEW j \in Jobs, GrantTx(j) PROVE Grown
  <2>1. CASE UNCHANGED <<processed, grants>>
    BY <1>1, <2>1 DEF Grown, LedgerOK
  <2>2. CASE Grant(j)
    <3>1. grants' = grants \/ grants' = grants \cup {<<job[j].ref, Key(j)>>}
      BY <2>2 DEF Grant
    <3>2. IsFiniteSet(grants') /\ grants \subseteq grants'
      <4>1. IsFiniteSet(grants)
        BY DEF LedgerOK
      <4>2. IsFiniteSet(grants \cup {<<job[j].ref, Key(j)>>})
        BY <4>1, FS_AddElement
      <4> QED BY <3>1, <4>1, <4>2
    <3>3. processed' = [processed EXCEPT ![job[j].to.salon] = @ \cup {Key(j)}]
      BY <2>2 DEF Grant
    <3>4. \A s \in Salons : processed[s] \subseteq processed'[s]
      BY <3>3 DEF LedgerOK
    <3> QED BY <1>1, <3>2, <3>4 DEF Grown
  <2> QED BY <1>4, <2>1, <2>2 DEF GrantTx
<1> QED BY <1>2, <1>3, <1>4, LedgerEffects

\* A job moves to a stage at which it is taken to know nothing.
LEMMA Parked ==
  ASSUME JobsOK, JobsKnow, Grown, NEW j \in Jobs,
         NEW st \in {"idle", "marked", "done"}, Move(j, st)
  PROVE  job' \in [Jobs -> JobState] /\ JobsKnow'
<1> DEFINE x == [job[j] EXCEPT !.st = st]
<1>1. x \in JobState /\ x.st = st
  BY DEF JobsOK, JobState, Stages
<1>2. job' = [job EXCEPT ![j] = x]
  BY DEF Move
<1>3. Knows(j, x, referrals', processed', grants')
  BY <1>1 DEF Knows, ToKnown, RefKnown, GrantKnown
<1> HIDE DEF x
<1> QED BY <1>1, <1>2, <1>3, JobUpdate DEF Grown

\* A job that is forgotten.
LEMMA Forgotten ==
  ASSUME JobsOK, JobsKnow, Grown, NEW j \in Jobs,
         job' = [job EXCEPT ![j] = NoJob]
  PROVE  job' \in [Jobs -> JobState] /\ JobsKnow'
<1>1. NoJob \in JobState /\ Knows(j, NoJob, referrals', processed', grants')
  BY ConstFacts DEF NoJob, Knows, ToKnown, RefKnown, GrantKnown
<1> QED BY <1>1, JobUpdate DEF Grown

\* A job learns the terms of its payment.
LEMMA Learned ==
  ASSUME JobsOK, JobsKnow, Grown, NEW j \in Jobs,
         NEW to \in Terms, to.salon = SalonOf[j.sub],
         job' = [job EXCEPT ![j].st = "resolved", ![j].to = to]
  PROVE  job' \in [Jobs -> JobState] /\ JobsKnow'
<1> DEFINE x == [job[j] EXCEPT !.st = "resolved", !.to = to]
<1>1. x \in JobState /\ x.st = "resolved" /\ x.to = to
  BY DEF JobsOK, JobState, Stages
<1>2. job' = [job EXCEPT ![j] = x]
  BY DEF JobsOK
<1>3. Knows(j, x, referrals', processed', grants')
  BY <1>1, JobFacts DEF Knows, ToKnown, RefKnown, GrantKnown
<1> HIDE DEF x
<1> QED BY <1>1, <1>2, <1>3, JobUpdate DEF Grown

\* A job that knows its terms is through with the grant, or has none to make.
LEMMA Granted ==
  ASSUME JobsOK, JobsKnow, Grown, NEW j \in Jobs,
         job[j].st \in {"resolved", "read"}, Move(j, "granted"),
         Grants(j) => Key(j) \in processed'[job[j].to.salon]
  PROVE  job' \in [Jobs -> JobState] /\ JobsKnow'
<1> DEFINE x == [job[j] EXCEPT !.st = "granted"]
<1>1. x \in JobState /\ x.st = "granted" /\ x.to = job[j].to
  BY DEF JobsOK, JobState, Stages
<1>2. job' = [job EXCEPT ![j] = x]
  BY DEF Move
<1>3. job[j].to \in Terms /\ job[j].to.salon = KeySalon(Key(j))
  BY DEF JobsKnow, Knows, ToKnown
<1>4. Knows(j, x, referrals', processed', grants')
  BY <1>1, <1>3 DEF Knows, ToKnown, RefKnown, GrantKnown
<1> HIDE DEF x
<1> QED BY <1>1, <1>2, <1>4, JobUpdate DEF Grown

CountsCovered ==
  \A c \in Claims : count[c] <= Cardinality(GrantsOf(grants, c))

\* grantPaidSubscription up to its transaction.
LEMMA ReadKnows ==
  ASSUME JobsOK, JobsKnow, LedgerOK, InvitesOK, CountsCovered, Grown,
         now \in Nat,
         NEW j \in Jobs, Read(j)
  PROVE  job' \in [Jobs -> JobState] /\ JobsKnow'
<1> DEFINE s == job[j].to.salon
           mine == {c \in referrals : c.who = s}
<1>1. job[j].st = "resolved" /\ Grants(j)
  BY DEF Read, Grants
<1>2. job[j].to \in Terms /\ s = KeySalon(Key(j)) /\ s \in Salons
  BY <1>1, JobFacts DEF JobsKnow, Knows, ToKnown
<1>3. CASE Key(j) \in processed[s] /\ Move(j, "granted")
  <2>1. Key(j) \in processed'[s]
    BY <1>2, <1>3 DEF Grown
  <2> QED BY <1>1, <1>3, <2>1, Granted
<1>4. ASSUME NEW c \in IF mine = {} THEN {Nothing} ELSE mine,
             job' = [job EXCEPT ![j].st = "read", ![j].at = now, ![j].ref = c,
                       ![j].cnt = IF c = Nothing THEN 0 ELSE count[c]]
      PROVE  job' \in [Jobs -> JobState] /\ JobsKnow'
  <2> DEFINE n == IF c = Nothing THEN 0 ELSE count[c]
             x == [job[j] EXCEPT !.st = "read", !.at = now, !.ref = c, !.cnt = n]
  <2>1. c = Nothing \/ (c \in referrals /\ c \in Claims /\ c.who = s)
    BY DEF InvitesOK
  <2>2. n \in Nat
    BY <2>1 DEF LedgerOK
  <2>3. /\ x \in JobState /\ x.st = "read" /\ x.to = job[j].to
        /\ x.ref = c /\ x.cnt = n
    BY <2>1, <2>2 DEF JobsOK, JobState, Stages
  <2>4. job' = [job EXCEPT ![j] = x]
    BY <1>4 DEF JobsOK
  <2>5. Knows(j, x, referrals, processed, grants)
    <3>1. ToKnown(j, x) /\ GrantKnown(j, x, processed)
      BY <1>2, <2>3 DEF ToKnown, GrantKnown
    <3>2. RefKnown(x, referrals, grants)
      BY <2>1, <2>3 DEF RefKnown, CountsCovered
    <3> QED BY <3>1, <3>2 DEF Knows
  <2>6. Knows(j, x, referrals', processed', grants')
    <3> HIDE DEF x
    <3> QED BY <2>3, <2>5, StillKnows DEF Grown
  <2> HIDE DEF x
  <2> QED BY <2>3, <2>4, <2>6, JobUpdate DEF Grown
<1> QED BY <1>1, <1>3, <1>4 DEF Read

\* Its transaction.
LEMMA GrantKnows ==
  ASSUME JobsOK, JobsKnow, LedgerOK, Grown, NEW j \in Jobs, GrantTx(j)
  PROVE  job' \in [Jobs -> JobState] /\ JobsKnow'
<1>1. job[j].st = "read" /\ Move(j, "granted")
  BY DEF GrantTx
<1>2. job[j].to \in Terms /\ job[j].to.salon \in Salons
  BY <1>1, JobFacts DEF JobsKnow, Knows, ToKnown
<1>3. Key(j) \in processed'[job[j].to.salon]
  <2>1. CASE Processed(job[j].to.salon, Key(j))
    BY <1>2, <2>1 DEF Processed, Grown
  <2>2. CASE ~Processed(job[j].to.salon, Key(j))
    <3>1. Grant(j)
      BY <2>2 DEF GrantTx
    <3>2. processed' = [processed EXCEPT ![job[j].to.salon] = @ \cup {Key(j)}]
      BY <3>1 DEF Grant
    <3> QED BY <1>2, <3>2 DEF LedgerOK
  <2> QED BY <2>1, <2>2
<1> QED BY <1>1, <1>3, Granted

\* The mapping keeps naming the salon of its key.
LEMMA Mapped ==
  ASSUME JobsOK, MappingKnows, NEW k \in Keys, NEW to \in Terms,
         to.salon = KeySalon(k), mapping' = [mapping EXCEPT ![k] = to]
  PROVE  mapping' \in [Keys -> Terms \cup {Nothing}] /\ MappingKnows'
  BY DEF JobsOK, MappingKnows

LEMMA JobsPreserved ==
  ASSUME JobsOK, JobsKnow, MappingKnows, LedgerOK, InvitesOK, CountsCovered,
         now \in Nat, [Next]_vars
  PROVE  JobsOK' /\ JobsKnow' /\ MappingKnows'
<1> DEFINE Done == JobsOK' /\ JobsKnow' /\ MappingKnows'
           Jobs2 == job' \in [Jobs -> JobState] /\ JobsKnow'
<1>0. Grown
  BY AllGrows
<1>1. ASSUME Jobs2, mapping' = mapping PROVE Done
  BY <1>1 DEF JobsOK, MappingKnows
<1>2. ASSUME job' = job PROVE Jobs2
  BY <1>0, <1>2, JobsUnmoved DEF Grown, JobsOK
<1>3. CASE UNCHANGED <<job, mapping>>
  BY <1>1, <1>2, <1>3
<1>4. ASSUME NEW b \in Subs, CheckoutDone(b) PROVE Done
  <2>1. job' = job /\ mapping' = [mapping EXCEPT ![b] = TermsOf(b)]
    BY <1>4 DEF CheckoutDone
  <2> QED BY <2>1, <1>2, Mapped, ConstFacts DEF JobsOK
<1>5. ASSUME NEW e \in Events, Handle(e) \/ Fail(e) \/ Die(e) PROVE Done
  <2>0. /\ e \in Jobs /\ e.sub \in Subs /\ Key(e) = Entity(e)
        /\ Entity(e) \in Keys /\ KeySalon(Entity(e)) = SalonOf[e.sub]
        /\ TermsOf(e.sub) \in Terms /\ TermsOf(e.sub).salon = SalonOf[e.sub]
    BY EventFacts, ConstFacts
  <2>1. CASE Deliver(e)
    <3>1. mapping' = mapping /\ (job' = job \/ Move(e, "marked"))
      BY <2>1 DEF Deliver
    <3> QED BY <1>0, <1>1, <1>2, <2>0, <3>1, Parked
  <2>2. CASE Record(e)
    <3>1. /\ mapping' = mapping
          /\ job' = [job EXCEPT ![e].st = "resolved", ![e].to = TermsOf(e.sub)]
      BY <2>2 DEF Record
    <3> QED BY <1>0, <1>1, <2>0, <3>1, Learned
  <2>3. CASE Resolve(e)
    <3> DEFINE to == Resolved(e)
    <3>1. CASE to = Nothing
      <4>1. Move(e, "done") /\ mapping' = mapping
        BY <2>3, <3>1 DEF Resolve
      <4> QED BY <1>0, <1>1, <2>0, <4>1, Parked
    <3>2. CASE to # Nothing
      <4>1. to \in Terms /\ to.salon = SalonOf[e.sub]
        BY <2>0, <3>2 DEF Resolved, JobsOK, MappingKnows
      <4>2. /\ job' = [job EXCEPT ![e].st = "resolved", ![e].to = to]
            /\ mapping' = mapping \/ mapping' = [mapping EXCEPT ![Entity(e)] = to]
        BY <2>3, <3>2 DEF Resolve
      <4>3. Jobs2
        BY <1>0, <2>0, <4>1, <4>2, Learned
      <4>4. CASE mapping' = mapping
        BY <1>1, <4>3, <4>4
      <4>5. CASE mapping' = [mapping EXCEPT ![Entity(e)] = to]
        BY <2>0, <4>1, <4>3, <4>5, Mapped DEF JobsOK
      <4> QED BY <4>2, <4>4, <4>5
    <3> QED BY <3>1, <3>2
  <2>4. CASE MarkEnded(e) \/ MarkFailed(e)
    <3>1. /\ job[e].st = "resolved" /\ ~Grants(e) /\ Move(e, "granted")
          /\ mapping' = mapping
      BY <2>4 DEF MarkEnded, MarkFailed, Grants
    <3> QED BY <1>0, <1>1, <2>0, <3>1, Granted
  <2>5. CASE Answer(e)
    <3> DEFINE to == job[e].to
    <3>1. job[e].st = "granted" /\ Move(e, "done")
      BY <2>5 DEF Answer
    <3>2. Jobs2
      BY <1>0, <2>0, <3>1, Parked
    <3>3. to \in Terms /\ to.salon = KeySalon(Entity(e))
      BY <2>0, <3>1 DEF JobsKnow, Knows, ToKnown
    <3>4. CASE e.kind = "record"
      BY <1>1, <2>5, <3>2, <3>4 DEF Answer
    <3>5. CASE e.kind # "record"
      <4>1. mapping' = Remapped(e)
        BY <2>5, <3>5 DEF Answer
      <4>2. PICK new \in Terms : /\ new.salon = KeySalon(Entity(e))
                                 /\ mapping' = [mapping EXCEPT ![Entity(e)] = new]
        <5>1. CASE e.kind \notin EndKinds
          BY <3>3, <4>1, <5>1 DEF Remapped
        <5>2. CASE e.kind \in EndKinds
          <6> DEFINE plan == IF mapping[Entity(e)] = Nothing THEN "monthly"
                             ELSE mapping[Entity(e)].plan
                     new == [to EXCEPT !.plan = plan]
          <6>1. plan \in Plans
            BY <2>0, PlansAssumption DEF JobsOK, Terms
          <6>2. new \in Terms /\ new.salon = to.salon
            BY <3>3, <6>1 DEF Terms
          <6>3. mapping' = [mapping EXCEPT ![Entity(e)] = new]
            BY <4>1, <5>2 DEF Remapped
          <6> QED BY <3>3, <6>2, <6>3
        <5> QED BY <5>1, <5>2
      <4> QED BY <2>0, <3>2, <4>2, Mapped DEF JobsOK
    <3> QED BY <3>4, <3>5
  <2>6. CASE Read(e)
    <3>1. mapping' = mapping
      BY <2>6 DEF Read
    <3> QED BY <1>0, <1>1, <2>0, <2>6, <3>1, ReadKnows
  <2>7. CASE GrantTx(e)
    <3>1. mapping' = mapping
      BY <2>7 DEF GrantTx
    <3> QED BY <1>0, <1>1, <2>0, <2>7, <3>1, GrantKnows
  <2>8. CASE Fail(e) \/ Die(e)
    <3>1. job' = [job EXCEPT ![e] = NoJob] /\ mapping' = mapping
      BY <2>8 DEF Fail, Die
    <3> QED BY <1>0, <1>1, <2>0, <3>1, Forgotten
  <2> QED BY <1>5, <2>1, <2>2, <2>3, <2>4, <2>5, <2>6, <2>7, <2>8 DEF Handle
<1>6. ASSUME NEW v \in Verifies, VerifyStep(v) PROVE Done
  <2>0. /\ v \in Jobs /\ v.sub \in Subs /\ SalonOf[v.sub] \in Salons
        /\ KeySalon(Key(v)) = SalonOf[v.sub] /\ KeySalon(v.sub) = SalonOf[v.sub]
        /\ v.sub \in Keys
    BY VerifyFacts, ConstFacts
  <2>1. CASE VerifyStart(v)
    <3>1. Move(v, "marked") /\ mapping' = mapping
      BY <2>1 DEF VerifyStart
    <3> QED BY <1>0, <1>1, <2>0, <3>1, Parked
  <2>2. CASE VerifyResolve(v)
    <3> DEFINE mapped == mapping[v.sub]
               to == [salon |-> SalonOf[v.sub],
                      plan |-> IF mapped = Nothing THEN PlanOf[v.sub]
                               ELSE mapped.plan]
    <3>1. /\ mapping' = mapping
          /\ \/ Move(v, "done")
             \/ job' = [job EXCEPT ![v].st = "resolved", ![v].to = to]
      BY <2>2 DEF VerifyResolve
    <3>2. to \in Terms /\ to.salon = SalonOf[v.sub]
      BY <2>0, PlansAssumption DEF JobsOK, Terms
    <3>3. CASE Move(v, "done")
      BY <1>0, <1>1, <2>0, <3>1, <3>3, Parked
    <3>4. CASE job' = [job EXCEPT ![v].st = "resolved", ![v].to = to]
      <4> HIDE DEF to
      <4> QED BY <1>0, <1>1, <2>0, <3>1, <3>2, <3>4, Learned
    <3> QED BY <3>1, <3>3, <3>4
  <2>3. CASE VerifyDone(v)
    <3>1. /\ job[v].st = "granted" /\ Move(v, "done")
          /\ mapping' = [mapping EXCEPT ![v.sub] = job[v].to]
      BY <2>3 DEF VerifyDone
    <3>2. Jobs2
      BY <1>0, <2>0, <3>1, Parked
    <3>3. job[v].to \in Terms /\ job[v].to.salon = KeySalon(v.sub)
      BY <2>0, <3>1 DEF JobsKnow, Knows, ToKnown
    <3> QED BY <2>0, <3>1, <3>2, <3>3, Mapped DEF JobsOK
  <2>4. CASE VerifyFail(v) \/ VerifyDie(v)
    <3>1. Move(v, "done") /\ mapping' = mapping
      BY <2>4 DEF VerifyFail, VerifyDie
    <3> QED BY <1>0, <1>1, <2>0, <3>1, Parked
  <2>5. CASE Read(v)
    <3>1. mapping' = mapping
      BY <2>5 DEF Read
    <3> QED BY <1>0, <1>1, <2>0, <2>5, <3>1, ReadKnows
  <2>6. CASE GrantTx(v)
    <3>1. mapping' = mapping
      BY <2>6 DEF GrantTx
    <3> QED BY <1>0, <1>1, <2>0, <2>6, <3>1, GrantKnows
  <2> QED BY <1>6, <2>1, <2>2, <2>3, <2>4, <2>5, <2>6 DEF VerifyStep
<1> QED BY <1>3, <1>4, <1>5, <1>6, JobEffects

(***************************************************************************)
(* Claims.                                                                 *)
(***************************************************************************)
LEMMA InvitesPreserved ==
  ASSUME InvitesOK, [Next]_vars
  PROVE  InvitesOK'
<1>1. CASE UNCHANGED <<claimed, referrals, claim>>
  BY <1>1 DEF InvitesOK, OneReferralPerSalon
<1>2. ASSUME NEW c \in Claims, ClaimLook(c) PROVE InvitesOK'
  <2>1. /\ claimed' = claimed /\ referrals' = referrals
        /\ claim' = [claim EXCEPT ![c] = claim'[c]]
        /\ claim'[c] \in {"failed", "already", "looked"}
        /\ claim'[c] = "looked" => c.who # c.code
    BY <1>2 DEF ClaimLook, invites, InvitesOK
  <2> QED BY <2>1 DEF InvitesOK, OneReferralPerSalon
<1>3. ASSUME NEW c \in Claims, ClaimTx(c) PROVE InvitesOK'
  <2>0. c.who \in Salons /\ Nothing \notin Claims /\ claim[c] = "looked"
    BY <1>3, JobsAssumption, ConstFacts DEF ClaimTx
  <2>1. CASE AlreadyClaimed(c.who)
    <3>1. /\ claimed' = claimed /\ referrals' = referrals
          /\ claim' = [claim EXCEPT ![c] = "already"]
      BY <1>3, <2>1 DEF ClaimTx
    <3> QED BY <3>1 DEF InvitesOK, OneReferralPerSalon
  <2>2. CASE ~AlreadyClaimed(c.who)
    <3>1. /\ claimed' = [claimed EXCEPT ![c.who] = c]
          /\ referrals' = referrals \cup {c}
          /\ claim' = [claim EXCEPT ![c] = "made"]
      BY <1>3, <2>2 DEF ClaimTx
    <3>2. \A d \in referrals : d.who # c.who
      BY <2>2 DEF AlreadyClaimed, InvitesOK
    <3>3. /\ referrals' \subseteq Claims
          /\ claimed' \in [Salons -> Claims \cup {Nothing}]
          /\ claim' \in [Claims -> {"idle", "looked", "made", "already", "failed"}]
      BY <3>1 DEF InvitesOK
    <3>4. \A d \in Claims : claim'[d] \in {"looked", "made"} => d.who # d.code
      BY <2>0, <3>1 DEF InvitesOK
    <3>5. \A d \in referrals' : d.who # d.code /\ claimed'[d.who] # Nothing
      <4>1. ASSUME NEW d \in referrals
            PROVE  d.who # d.code /\ claimed'[d.who] # Nothing
        <5>1. d.who \in Salons
          BY JobsAssumption DEF InvitesOK
        <5> QED BY <3>1, <3>2, <5>1 DEF InvitesOK
      <4>2. c.who # c.code /\ claimed'[c.who] # Nothing
        BY <2>0, <3>1 DEF InvitesOK
      <4> QED BY <3>1, <4>1, <4>2
    <3>6. OneReferralPerSalon'
      BY <3>1, <3>2 DEF InvitesOK, OneReferralPerSalon
    <3> QED BY <3>3, <3>4, <3>5, <3>6 DEF InvitesOK
  <2> QED BY <2>1, <2>2
<1>4. ASSUME NEW c \in Claims, ClaimFail(c) PROVE InvitesOK'
  BY <1>4 DEF ClaimFail, invites, InvitesOK, OneReferralPerSalon
<1> QED BY <1>1, <1>2, <1>3, <1>4, InviteEffects

(***************************************************************************)
(* The account of one salon: its rows q and its state a.                   *)
(***************************************************************************)
RowKnown(s, w, R, P, G, T) ==
  /\ w.from < w.to /\ w.authored \in Nat /\ w.authored <= T
  /\ w.why = "payment" => w.key \in P[s]
  /\ w.why = "reward" => \E c \in R : c.code = s /\ <<c, w.key>> \in G

Stacked(q, a) ==
  /\ \A i, j \in DOMAIN q :
       i < j => q[i].to <= q[j].from \/ q[i].to <= q[j].authored
  /\ a.cur = Len(q) /\ (q # <<>> => a.end = q[Len(q)].to)

NoneTwice(q) ==
  \A i, j \in DOMAIN q : q[i].why = q[j].why /\ q[i].key = q[j].key => i = j

AccountKnown(s, q, a, R, P, G, T) ==
  /\ \A i \in DOMAIN q : RowKnown(s, q[i], R, P, G, T)
  /\ NoneTwice(q) /\ Stacked(q, a)

LEMMA AccountStays ==
  ASSUME NEW s \in Salons, NEW q, NEW a, NEW R, NEW R2, NEW P, NEW P2, NEW G, NEW G2,
         NEW T \in Nat, NEW T2 \in Nat, T <= T2,
         AccountKnown(s, q, a, R, P, G, T), R \subseteq R2, G \subseteq G2,
         P[s] \subseteq P2[s]
  PROVE  AccountKnown(s, q, a, R2, P2, G2, T2)
<1> SUFFICES ASSUME NEW i \in DOMAIN q
             PROVE  RowKnown(s, q[i], R2, P2, G2, T2)
  BY DEF AccountKnown
<1>1. RowKnown(s, q[i], R, P, G, T)
  BY DEF AccountKnown
<1>2. q[i].authored \in Nat /\ q[i].authored <= T2
  BY <1>1 DEF RowKnown
<1> QED BY <1>1, <1>2 DEF RowKnown

\* A window that starts no earlier than the account ends, or is written no
\* earlier, is stacked.
LEMMA AccountAppends ==
  ASSUME NEW s \in Salons, NEW q \in Seq(Windows), NEW a \in Account,
         NEW w \in Windows, NEW a2 \in Account, NEW R, NEW P, NEW G, NEW T,
         AccountKnown(s, q, a, R, P, G, T), RowKnown(s, w, R, P, G, T),
         a.end <= w.from \/ a.end <= w.authored,
         \A i \in DOMAIN q : q[i].authored <= w.authored, a2.cur = Len(q) + 1, a2.end = w.to,
         \A i \in DOMAIN q : ~(q[i].why = w.why /\ q[i].key = w.key)
  PROVE  /\ Append(q, w) \in Seq(Windows)
         /\ AccountKnown(s, Append(q, w), a2, R, P, G, T)
<1> DEFINE q2 == Append(q, w)
           n == Len(q)
<1>1. /\ n \in Nat /\ DOMAIN q = 1..n /\ q2 \in Seq(Windows)
      /\ DOMAIN q2 = 1..(n + 1) /\ Len(q2) = n + 1
      /\ q2[n + 1] = w /\ \A i \in 1..n : q2[i] = q[i]
  OBVIOUS
<1>2. \A i \in 1..n : q[i] \in Windows
  OBVIOUS
<1> HIDE DEF q2
<1>3. \A i \in DOMAIN q2 : RowKnown(s, q2[i], R, P, G, T)
  <2> SUFFICES ASSUME NEW i \in 1..(n + 1) PROVE RowKnown(s, q2[i], R, P, G, T)
    BY <1>1
  <2>1. CASE i = n + 1
    BY <1>1, <2>1
  <2>2. CASE i # n + 1
    <3>1. i \in 1..n
      BY <1>1, <2>2
    <3> QED BY <1>1, <3>1 DEF AccountKnown
  <2> QED BY <2>1, <2>2
<1>4. NoneTwice(q2)
  <2> SUFFICES ASSUME NEW i \in 1..(n + 1), NEW j \in 1..(n + 1), i # j
               PROVE  ~(q2[i].why = q2[j].why /\ q2[i].key = q2[j].key)
    BY <1>1 DEF NoneTwice
  <2>1. CASE i = n + 1
    <3>1. j \in 1..n
      BY <1>1, <2>1
    <3> QED BY <1>1, <2>1, <3>1
  <2>2. CASE j = n + 1
    <3>1. i \in 1..n
      BY <1>1, <2>2
    <3> QED BY <1>1, <2>2, <3>1
  <2>3. CASE i # n + 1 /\ j # n + 1
    <3>1. i \in 1..n /\ j \in 1..n
      BY <1>1, <2>3
    <3> QED BY <1>1, <3>1 DEF AccountKnown, NoneTwice
  <2> QED BY <2>1, <2>2, <2>3
<1>5. \A i \in 1..n : q[i].to <= w.from \/ q[i].to <= w.authored
  <2> SUFFICES ASSUME NEW i \in 1..n
               PROVE  q[i].to <= w.from \/ q[i].to <= w.authored
    OBVIOUS
  <2>1. n \in 1..n /\ q # <<>>
    BY <1>1
  <2>2. a.end = q[n].to
    BY <2>1 DEF AccountKnown, Stacked
  <2>3. q[i] \in Windows /\ q[n] \in Windows
    BY <1>2, <2>1
  <2>4. q[n].from < q[n].to
    BY <1>1, <2>1 DEF AccountKnown, RowKnown
  <2>5. CASE i = n
    BY <2>2, <2>5, <2>3 DEF Windows
  <2>6. CASE i # n
    <3>1. q[i].to <= q[n].from \/ q[i].to <= q[n].authored
      <4>1. i \in DOMAIN q /\ n \in DOMAIN q
        BY <1>1, <2>1
      <4>2. i < n
        <5>1. i \in 1..n /\ n \in Nat
          BY <1>1
        <5> HIDE DEF n
        <5> QED BY <5>1, <2>6
      <4> QED BY <4>1, <4>2 DEF AccountKnown, Stacked
    <3>2. q[n].authored <= w.authored
      BY <1>1, <2>1
    <3> QED BY <2>2, <2>3, <2>4, <3>1, <3>2 DEF Windows
  <2> QED BY <2>5, <2>6
<1>6. Stacked(q2, a2)
  <2>1. ASSUME NEW i \in 1..(n + 1), NEW j \in 1..(n + 1), i < j
        PROVE  q2[i].to <= q2[j].from \/ q2[i].to <= q2[j].authored
    <3>1. i \in 1..n
      BY <1>1, <2>1
    <3>2. CASE j = n + 1
      BY <1>1, <1>5, <3>1, <3>2
    <3>3. CASE j # n + 1
      <4>1. j \in 1..n
        BY <1>1, <3>3
      <4> QED BY <1>1, <2>1, <3>1, <4>1 DEF AccountKnown, Stacked
    <3> QED BY <3>2, <3>3
  <2>2. a2.cur = Len(q2) /\ a2.end = q2[Len(q2)].to
    BY <1>1
  <2> QED BY <1>1, <2>1, <2>2 DEF Stacked
<1>7. q2 \in Seq(Windows)
  BY <1>1
<1> QED BY <1>3, <1>4, <1>6, <1>7 DEF AccountKnown, q2

\* The status of a row changes, and that of the account with it.
LEMMA AccountEnds ==
  ASSUME NEW s \in Salons, NEW q \in Seq(Windows), NEW a, NEW R, NEW P, NEW G, NEW T,
         AccountKnown(s, q, a, R, P, G, T), NEW i \in DOMAIN q,
         NEW st \in {"active", "cancelled", "expired"},
         NEW a2, a2.cur = a.cur, a2.end = a.end
  PROVE  /\ [q EXCEPT ![i].st = st] \in Seq(Windows)
         /\ AccountKnown(s, [q EXCEPT ![i].st = st], a2, R, P, G, T)
<1> DEFINE w == [q[i] EXCEPT !.st = st]
           q2 == [q EXCEPT ![i] = w]
<1>1. DOMAIN q = 1..Len(q) /\ Len(q) \in Nat /\ q[i] \in Windows
  OBVIOUS
<1>2. /\ w \in Windows /\ w.from = q[i].from /\ w.to = q[i].to
      /\ w.why = q[i].why /\ w.key = q[i].key /\ w.authored = q[i].authored
  BY <1>1 DEF Windows
<1>3. /\ q2 \in Seq(Windows) /\ Len(q2) = Len(q) /\ DOMAIN q2 = DOMAIN q
      /\ \A j \in DOMAIN q : q2[j] = IF j = i THEN w ELSE q[j]
  BY <1>1, <1>2, ExceptSeq
<1>4. \A j \in DOMAIN q : /\ q2[j].from = q[j].from /\ q2[j].to = q[j].to
                          /\ q2[j].why = q[j].why /\ q2[j].key = q[j].key
                          /\ q2[j].authored = q[j].authored
  BY <1>2, <1>3
<1> HIDE DEF w, q2
<1>5. /\ \A j \in DOMAIN q2 : RowKnown(s, q2[j], R, P, G, T)
      /\ NoneTwice(q2)
  BY <1>3, <1>4 DEF AccountKnown, RowKnown, NoneTwice
<1>6. Stacked(q2, a2)
  <2>1. q2 # <<>> => q # <<>> /\ Len(q) \in DOMAIN q
    BY <1>1, <1>3
  <2> QED BY <1>3, <1>4, <2>1 DEF AccountKnown, Stacked
<1> QED BY <1>3, <1>5, <1>6 DEF AccountKnown, q2, w

(***************************************************************************)
(* The ledger.                                                             *)
(***************************************************************************)
AccountsKnown ==
  \A s \in Salons :
    AccountKnown(s, subs[s], billing[s], referrals, processed, grants, now)
ProcessedKnows == \A s \in Salons : \A k \in processed[s] : KeySalon(k) = s
GrantsKnow ==
  \A c \in Claims, k \in Keys :
    <<c, k>> \in grants => c \in referrals /\ k \in processed[c.who]

LedgerInv ==
  /\ LedgerOK /\ CountsCovered /\ AccountsKnown
  /\ ProcessedKnows /\ GrantsKnow /\ now \in Nat

TimePasses == now \in Nat /\ now' \in Nat /\ now <= now'

LEMMA NowGrows ==
  ASSUME now \in Nat, [Next]_vars
  PROVE  TimePasses
<1> USE DEF TimePasses
<1>1. CASE UNCHANGED vars
  BY <1>1 DEF vars, bounds
<1>2. CASE AppStep \/ RazorpayStep
  <2>1. now' = now
    BY <1>2 DEF AppStep, RazorpayStep, Purchase, Pay, SheetOpens, Told,
       GiveUp, Publish, Renew, Decline, End, bounds
  <2> QED BY <2>1
<1>7. CASE Tick
  BY <1>7 DEF Tick
<1>3. ASSUME NEW b \in Subs, CheckoutCreate(b) \/ CheckoutDone(b) \/ CheckoutFail(b)
      PROVE  now' = now
  BY <1>3 DEF CheckoutCreate, CheckoutDone, CheckoutFail, bounds
<1>4. ASSUME NEW e \in Events, Handle(e) \/ Fail(e) \/ Die(e)
      PROVE  now' = now
  BY <1>4 DEF Handle, Fail, Die, Deliver, Record, Resolve, MarkEnded,
     MarkFailed, Answer, Read, GrantTx, bounds
<1>5. ASSUME NEW v \in Verifies, VerifyStep(v) PROVE now' = now
  BY <1>5 DEF VerifyStep, VerifyStart, VerifyResolve, VerifyDone, VerifyFail,
     VerifyDie, Read, GrantTx, bounds
<1>6. ASSUME NEW c \in Claims, ClaimLook(c) \/ ClaimTx(c) \/ ClaimFail(c)
      PROVE  now' = now
  BY <1>6 DEF ClaimLook, ClaimTx, ClaimFail, bounds
<1> QED BY <1>1, <1>2, <1>3, <1>4, <1>5, <1>6, <1>7 DEF Next

\* The accounts stay known when nothing of them is written.
LEMMA AccountsStay ==
  ASSUME AccountsKnown, Grown, TimePasses, subs' = subs, billing' = billing
  PROVE  AccountsKnown'
<1> SUFFICES ASSUME NEW s \in Salons
             PROVE  AccountKnown(s, subs[s], billing[s], referrals', processed',
                                 grants', now')
  BY DEF AccountsKnown
<1> QED BY AccountStays DEF AccountsKnown, Grown, TimePasses

\* A window that is made of a known key and added to an account.
LEMMA WindowFacts ==
  ASSUME LedgerOK, now \in Nat, NEW s \in Salons, NEW at \in Nat, NEW days \in Nat \ {0},
         NEW why \in {"payment", "reward"}, NEW k \in Keys
  PROVE  LET w == Window(s, at, days, why, k)
         IN  /\ w \in Windows /\ w.from < w.to
             /\ billing[s].end <= w.from \/ billing[s].end <= w.authored
             /\ w.why = why /\ w.key = k /\ w.authored = now
             /\ State(s, w) \in Account
             /\ State(s, w).cur = Len(subs[s]) + 1 /\ State(s, w).end = w.to
<1> DEFINE w == Window(s, at, days, why, k)
<1>1. billing[s].end \in Nat
  BY DEF LedgerOK, Account
<1>2. Start(s, at) \in Nat /\ (billing[s].end <= Start(s, at) \/ billing[s].end <= now)
  BY <1>1 DEF Start
<1>3. /\ w \in Windows /\ w.from = Start(s, at) /\ w.to = Start(s, at) + days
      /\ w.why = why /\ w.key = k /\ w.authored = now
  BY <1>2 DEF Window, Windows
<1>4. Len(subs[s]) \in Nat
  BY DEF LedgerOK
<1> HIDE DEF w
<1>5. /\ State(s, w) \in Account
      /\ State(s, w).cur = Len(subs[s]) + 1 /\ State(s, w).end = w.to
  BY <1>2, <1>3, <1>4 DEF State, Account
<1>6. w.from < w.to /\ (billing[s].end <= w.from \/ billing[s].end <= w.authored)
  BY <1>1, <1>2, <1>3
<1> QED BY <1>3, <1>5, <1>6 DEF w

\* The transaction gives no window to a salon that has one for the payment.
LEMMA NewKey ==
  ASSUME JobsOK, JobsKnow, LedgerInv, InvitesOK, NEW j \in Jobs,
         job[j].st = "read", ~Processed(job[j].to.salon, Key(j))
  PROVE  LET s == job[j].to.salon
             k == Key(j)
             c == job[j].ref
         IN  /\ s \in Salons /\ k \in Keys /\ KeySalon(k) = s
             /\ job[j].to.plan \in Plans
             /\ \A i \in DOMAIN subs[s] :
                  ~(subs[s][i].why = "payment" /\ subs[s][i].key = k)
             /\ c # Nothing =>
                  /\ c \in referrals /\ c \in Claims /\ c.who = s
                  /\ c.code \in Salons /\ c.code # s /\ <<c, k>> \notin grants
                  /\ job[j].cnt <= Cardinality(GrantsOf(grants, c))
                  /\ \A i \in DOMAIN subs[c.code] :
                       ~(subs[c.code][i].why = "reward"
                         /\ subs[c.code][i].key = k)
<1> DEFINE s == job[j].to.salon
           k == Key(j)
           c == job[j].ref
<1>1. job[j].to \in Terms /\ s = KeySalon(k) /\ s \in Salons /\ k \in Keys
  BY JobFacts DEF JobsKnow, Knows, ToKnown
<1>2. job[j].to.plan \in Plans
  BY <1>1 DEF Terms
<1>3. k \notin processed[s]
  BY DEF Processed
<1>4. \A i \in DOMAIN subs[s] : ~(subs[s][i].why = "payment" /\ subs[s][i].key = k)
  BY <1>1, <1>3 DEF LedgerInv, AccountsKnown, AccountKnown, RowKnown
<1>5. ASSUME NEW d \in Claims, <<d, k>> \in grants PROVE FALSE
  <2>1. d.who \in Salons
    BY JobsAssumption
  <2>2. k \in processed[d.who]
    BY <1>1, <1>5 DEF LedgerInv, GrantsKnow
  <2>3. d.who = s
    BY <1>1, <2>1, <2>2 DEF LedgerInv, ProcessedKnows
  <2> QED BY <1>3, <2>2, <2>3
<1>6. ASSUME c # Nothing
      PROVE  /\ c \in referrals /\ c \in Claims /\ c.who = s
             /\ c.code \in Salons /\ c.code # s /\ <<c, k>> \notin grants
             /\ job[j].cnt <= Cardinality(GrantsOf(grants, c))
             /\ \A i \in DOMAIN subs[c.code] :
                  ~(subs[c.code][i].why = "reward" /\ subs[c.code][i].key = k)
  <2>1. /\ c \in referrals /\ c.who = s
        /\ job[j].cnt <= Cardinality(GrantsOf(grants, c))
    BY <1>6 DEF JobsKnow, Knows, RefKnown
  <2>2. c \in Claims /\ c.code # s
    BY <2>1 DEF InvitesOK
  <2>3. c.code \in Salons
    BY <2>2, JobsAssumption
  <2>4. <<c, k>> \notin grants
    BY <1>5, <2>2
  <2>5. ASSUME NEW i \in DOMAIN subs[c.code], subs[c.code][i].why = "reward",
               subs[c.code][i].key = k
        PROVE  FALSE
    <3>1. \E d \in referrals : <<d, k>> \in grants
      BY <2>3, <2>5 DEF LedgerInv, AccountsKnown, AccountKnown, RowKnown
    <3> QED BY <1>5, <3>1 DEF InvitesOK
  <2> QED BY <2>1, <2>2, <2>3, <2>4, <2>5
<1> QED BY <1>1, <1>2, <1>4, <1>6

\* The account of one salon with a new window.
LEMMA AccountGiven ==
  ASSUME LedgerInv, Grown, TimePasses, NEW s \in Salons, NEW at \in Nat, NEW days \in Nat \ {0},
         NEW why \in {"payment", "reward"}, NEW k \in Keys,
         why = "payment" => k \in processed'[s],
         why = "reward" =>
           \E c \in referrals' : c.code = s /\ <<c, k>> \in grants',
         \A i \in DOMAIN subs[s] : ~(subs[s][i].why = why /\ subs[s][i].key = k)
  PROVE  LET w == Window(s, at, days, why, k)
         IN  /\ Append(subs[s], w) \in Seq(Windows) /\ State(s, w) \in Account
             /\ AccountKnown(s, Append(subs[s], w), State(s, w), referrals',
                             processed', grants', now')
<1> DEFINE w == Window(s, at, days, why, k)
           a == State(s, w)
<1>1. /\ w \in Windows /\ w.from < w.to
      /\ billing[s].end <= w.from \/ billing[s].end <= w.authored
      /\ w.why = why /\ w.key = k /\ w.authored = now
      /\ a \in Account /\ a.cur = Len(subs[s]) + 1 /\ a.end = w.to
  BY WindowFacts DEF LedgerInv
<1> HIDE DEF w, a
<1>2. subs[s] \in Seq(Windows) /\ billing[s] \in Account
  BY DEF LedgerInv, LedgerOK
<1>3. AccountKnown(s, subs[s], billing[s], referrals', processed', grants', now')
  <2>1. AccountKnown(s, subs[s], billing[s], referrals, processed, grants, now)
    BY DEF LedgerInv, AccountsKnown
  <2> QED BY <2>1, AccountStays DEF Grown, TimePasses
<1>4. RowKnown(s, w, referrals', processed', grants', now')
  BY <1>1 DEF RowKnown, TimePasses
<1>5. \A i \in DOMAIN subs[s] : subs[s][i].authored <= w.authored
  BY <1>1 DEF LedgerInv, AccountsKnown, AccountKnown, RowKnown
<1>6. /\ Append(subs[s], w) \in Seq(Windows)
      /\ AccountKnown(s, Append(subs[s], w), a, referrals', processed', grants', now')
  BY <1>1, <1>2, <1>3, <1>4, <1>5, AccountAppends
<1> QED BY <1>1, <1>6 DEF w, a

LedgerNext == LedgerOK' /\ CountsCovered' /\ AccountsKnown' /\ ProcessedKnows'
              /\ GrantsKnow'

LEMMA GrantsCounted ==
  ASSUME LedgerInv, Grown, NEW c \in Claims, NEW k \in Keys, NEW n \in Nat,
         <<c, k>> \notin grants, n <= Cardinality(GrantsOf(grants, c)),
         grants' = grants \cup {<<c, k>>}, count' = [count EXCEPT ![c] = n + 1]
  PROVE  count' \in [Claims -> Nat] /\ CountsCovered'
<1>1. count' \in [Claims -> Nat]
  BY DEF LedgerInv, LedgerOK
<1>2. ASSUME NEW d \in Claims
      PROVE  count'[d] <= Cardinality(GrantsOf(grants', d))
  <2>1. IsFiniteSet(GrantsOf(grants, d))
    <3>1. GrantsOf(grants, d) \subseteq grants /\ IsFiniteSet(grants)
      BY DEF GrantsOf, LedgerInv, LedgerOK
    <3> QED BY <3>1, FS_Subset
  <2>2. Cardinality(GrantsOf(grants, d)) \in Nat
    BY <2>1, FS_CardinalityType
  <2>3. CASE d = c
    <3>1. GrantsOf(grants', d) = GrantsOf(grants, d) \cup {<<c, k>>}
      BY <2>3 DEF GrantsOf
    <3>2. <<c, k>> \notin GrantsOf(grants, d)
      BY DEF GrantsOf
    <3>3. Cardinality(GrantsOf(grants', d)) = Cardinality(GrantsOf(grants, d)) + 1
      BY <2>1, <3>1, <3>2, FS_AddElement
    <3>4. count'[d] = n + 1
      BY <2>3 DEF LedgerInv, LedgerOK
    <3> QED BY <2>2, <2>3, <3>3, <3>4
  <2>4. CASE d # c
    <3>1. GrantsOf(grants', d) = GrantsOf(grants, d)
      BY <2>4 DEF GrantsOf
    <3>2. count'[d] = count[d]
      BY <2>4 DEF LedgerInv, LedgerOK
    <3> QED BY <3>1, <3>2 DEF LedgerInv, CountsCovered
  <2> QED BY <2>3, <2>4
<1> QED BY <1>1, <1>2 DEF CountsCovered

LEMMA GrantLedger ==
  ASSUME JobsOK, JobsKnow, LedgerInv, InvitesOK, Grown, TimePasses,
         NEW j \in Jobs, GrantTx(j)
  PROVE  LedgerNext
<1> DEFINE s == job[j].to.salon
           k == Key(j)
           c == job[j].ref
<1>0. /\ job[j].st = "read" /\ referrals' = referrals /\ failures' = failures
      /\ job[j].cnt \in Nat /\ job[j].at \in Nat /\ job[j].ref \in Claims \cup {Nothing}
  BY DEF GrantTx, invites, JobsOK, JobState
<1>1. CASE Processed(s, k)
  <2>1. UNCHANGED <<billing, subs, processed, grants, count>>
    BY <1>1 DEF GrantTx
  <2>2. AccountsKnown'
    BY <2>1, AccountsStay DEF LedgerInv
  <2> QED BY <1>0, <2>1, <2>2 DEF LedgerInv, LedgerNext, LedgerOK, CountsCovered,
             ProcessedKnows, GrantsKnow
<1>2. CASE ~Processed(s, k)
  <2> DEFINE days == Days[job[j].to.plan]
             paid == Window(s, job[j].at, days, "payment", k)
             r == c.code
             reward == Window(r, job[j].at, RewardDays, "reward", k)
  <2>1. /\ s \in Salons /\ k \in Keys /\ KeySalon(k) = s
        /\ job[j].to.plan \in Plans
        /\ \A i \in DOMAIN subs[s] :
             ~(subs[s][i].why = "payment" /\ subs[s][i].key = k)
        /\ c # Nothing =>
             /\ c \in referrals /\ c \in Claims /\ c.who = s
             /\ r \in Salons /\ r # s /\ <<c, k>> \notin grants
             /\ job[j].cnt <= Cardinality(GrantsOf(grants, c))
             /\ \A i \in DOMAIN subs[r] :
                  ~(subs[r][i].why = "reward" /\ subs[r][i].key = k)
    BY <1>0, <1>2, NewKey
  <2>2. days \in Nat \ {0} /\ RewardDays \in Nat \ {0}
    BY <2>1, PlansAssumption, BoundsAssumption
  <2>3. Grant(j)
    BY <1>2 DEF GrantTx
  <2>4. processed' = [processed EXCEPT ![s] = @ \cup {k}]
    BY <2>3 DEF Grant
  <2>5. /\ processed' \in [Salons -> SUBSET Keys] /\ k \in processed'[s]
        /\ ProcessedKnows'
    BY <2>1, <2>4 DEF LedgerInv, LedgerOK, ProcessedKnows
  <2> DEFINE paidRows == Append(subs[s], paid)
             paidState == State(s, paid)
  <2>6. /\ paidRows \in Seq(Windows) /\ paidState \in Account
        /\ AccountKnown(s, paidRows, paidState, referrals', processed', grants', now')
    BY <1>0, <2>1, <2>2, <2>5, AccountGiven
  <2>7. ASSUME NEW i \in Salons
        PROVE  AccountKnown(i, subs[i], billing[i], referrals', processed', grants', now')
    <3>1. AccountKnown(i, subs[i], billing[i], referrals, processed, grants, now)
      BY DEF LedgerInv, AccountsKnown
    <3> QED BY <3>1, AccountStays DEF Grown, TimePasses
  <2>8. CASE c = Nothing
    <3>1. /\ subs' = [subs EXCEPT ![s] = paidRows]
          /\ billing' = [billing EXCEPT ![s] = paidState]
          /\ grants' = grants /\ count' = count
      BY <2>3, <2>8 DEF Grant, Rows
    <3> HIDE DEF paidRows, paidState
    <3>2. LedgerOK'
      BY <1>0, <2>1, <2>5, <2>6, <3>1 DEF LedgerInv, LedgerOK
    <3>3. AccountsKnown'
      BY <2>1, <2>6, <2>7, <3>1 DEF LedgerInv, LedgerOK, AccountsKnown
    <3>4. CountsCovered' /\ GrantsKnow'
      <4>1. \A i \in Salons : processed[i] \subseteq processed'[i]
        BY DEF Grown
      <4>2. \A d \in Claims : d.who \in Salons
        BY JobsAssumption
      <4> QED BY <1>0, <3>1, <4>1, <4>2 DEF LedgerInv, CountsCovered, GrantsKnow
    <3> QED BY <2>5, <3>2, <3>3, <3>4 DEF LedgerNext
  <2>9. CASE c # Nothing
    <3> DEFINE rewardRows == Append(subs[r], reward)
               rewardState == State(r, reward)
    <3>1. /\ c \in referrals' /\ c \in Claims /\ c.who = s
          /\ r \in Salons /\ r # s /\ <<c, k>> \notin grants
      BY <1>0, <2>1, <2>9
    <3>2. /\ subs' = [[subs EXCEPT ![s] = paidRows] EXCEPT ![r] =
                                                        Append(@, reward)]
          /\ billing' = [billing EXCEPT ![s] = paidState, ![r] = rewardState]
          /\ grants' = grants \cup {<<c, k>>}
          /\ count' = [count EXCEPT ![c] = job[j].cnt + 1]
      BY <2>3, <2>9, <3>1 DEF Grant, Rows
    <3>3. /\ rewardRows \in Seq(Windows) /\ rewardState \in Account
          /\ AccountKnown(r, rewardRows, rewardState, referrals', processed',
                          grants', now')
      <4>1. \E d \in referrals' : d.code = r /\ <<d, k>> \in grants'
        BY <3>1, <3>2
      <4> QED BY <1>0, <2>1, <2>2, <2>9, <4>1, AccountGiven
    <3> HIDE DEF paid, reward, paidState, rewardState
    <3>4. subs' = [subs EXCEPT ![s] = paidRows, ![r] = rewardRows]
      BY <2>1, <3>1, <3>2 DEF LedgerInv, LedgerOK
    <3> HIDE DEF paidRows, rewardRows
    <3>5. count' \in [Claims -> Nat] /\ CountsCovered'
      BY <1>0, <2>1, <2>9, <3>1, <3>2, GrantsCounted
    <3>6. LedgerOK'
      <4>1. grants' \subseteq Claims \X Keys /\ IsFiniteSet(grants')
        BY <2>1, <3>1, <3>2 DEF Grown, LedgerInv, LedgerOK
      <4>2. subs' \in [Salons -> Seq(Windows)]
        BY <2>6, <3>3, <3>4 DEF LedgerInv, LedgerOK
      <4>3. billing' \in [Salons -> Account]
        BY <2>6, <3>3, <3>2 DEF LedgerInv, LedgerOK
      <4> QED BY <1>0, <2>5, <3>5, <4>1, <4>2, <4>3 DEF LedgerInv, LedgerOK
    <3>7. AccountsKnown'
      <4> SUFFICES ASSUME NEW i \in Salons
                   PROVE  AccountKnown(i, subs'[i], billing'[i], referrals',
                                       processed', grants', now')
        BY DEF AccountsKnown
      <4>1. CASE i = s
        <5>1. subs'[i] = paidRows /\ billing'[i] = paidState
          BY <2>1, <3>1, <3>2, <3>4, <4>1 DEF LedgerInv, LedgerOK
        <5> QED BY <2>6, <4>1, <5>1
      <4>2. CASE i = r
        <5>1. subs'[i] = rewardRows /\ billing'[i] = rewardState
          BY <2>1, <3>1, <3>2, <3>4, <4>2 DEF LedgerInv, LedgerOK
        <5> QED BY <3>3, <4>2, <5>1
      <4>3. CASE i # s /\ i # r
        <5>1. subs'[i] = subs[i] /\ billing'[i] = billing[i]
          BY <2>1, <3>1, <3>2, <3>4, <4>3 DEF LedgerInv, LedgerOK
        <5> QED BY <2>7, <5>1
      <4> QED BY <4>1, <4>2, <4>3
    <3>8. GrantsKnow'
      <4> SUFFICES ASSUME NEW d \in Claims, NEW m \in Keys, <<d, m>> \in grants'
                   PROVE  d \in referrals' /\ m \in processed'[d.who]
        BY DEF GrantsKnow
      <4>1. CASE <<d, m>> \in grants
        <5>1. d.who \in Salons
          BY JobsAssumption
        <5> QED BY <4>1, <5>1 DEF LedgerInv, GrantsKnow, Grown
      <4>2. CASE <<d, m>> = <<c, k>>
        BY <2>5, <3>1, <4>2
      <4> QED BY <3>2, <4>1, <4>2
    <3> QED BY <2>5, <3>5, <3>6, <3>7, <3>8 DEF LedgerNext
  <2> QED BY <2>8, <2>9
<1> QED BY <1>1, <1>2

\* A subscription ends: the last row and the account change their status.
LEMMA EndLedger ==
  ASSUME JobsOK, JobsKnow, LedgerInv, Grown, TimePasses, NEW e \in Events,
         MarkEnded(e)
  PROVE  LedgerNext
<1> DEFINE s == job[e].to.salon
           status == IF e.kind = "cancelled" THEN "cancelled" ELSE "expired"
           end == IF billing[s].end = 0 /\ status = "expired" THEN now
                  ELSE billing[s].end
           a == [[billing[s] EXCEPT !.st = status] EXCEPT !.end = end]
           i == billing[s].cur
           q == subs[s]
           q2 == IF i = 0 THEN q ELSE [q EXCEPT ![i].st = status]
<1>1. s \in Salons
  BY EventFacts, JobFacts DEF MarkEnded, JobsKnow, Knows, ToKnown
<1>2. /\ billing' = [billing EXCEPT ![s].st = status,
                       ![s].end = IF @ = 0 /\ status = "expired"
                                  THEN now ELSE @]
      /\ subs' = IF billing[s].cur = 0 THEN subs
                 ELSE [subs EXCEPT ![s][billing[s].cur].st = status]
      /\ UNCHANGED <<processed, failures, grants, count>>
  BY DEF MarkEnded
<1>3. q \in Seq(Windows) /\ billing[s] \in Account /\ now \in Nat
  BY <1>1 DEF LedgerInv, LedgerOK
<1>4. status \in {"active", "cancelled", "expired"}
  OBVIOUS
<1>5. AccountKnown(s, q, billing[s], referrals', processed', grants', now')
  <2>1. AccountKnown(s, q, billing[s], referrals, processed, grants, now)
    BY <1>1 DEF LedgerInv, AccountsKnown
  <2> QED BY <1>1, <2>1, AccountStays DEF Grown, TimePasses
<1>6. Stacked(q, billing[s]) /\ \A n \in DOMAIN q : q[n].from < q[n].to
  BY <1>5 DEF AccountKnown, RowKnown
<1>7. i # 0 => i \in DOMAIN q /\ i = Len(q)
  BY <1>3, <1>6 DEF Stacked
<1>8. i = 0 => q = <<>>
  <2>1. i = Len(q)
    BY <1>6 DEF Stacked
  <2> QED BY <1>3, <2>1, EmptySeq
<1>9. i # 0 => end = billing[s].end
  <2> SUFFICES ASSUME i # 0 PROVE billing[s].end # 0
    OBVIOUS
  <2>1. q # <<>> /\ i \in DOMAIN q /\ i = Len(q)
    BY <1>3, <1>7
  <2>2. billing[s].end = q[i].to /\ q[i].from < q[i].to
    BY <1>6, <2>1 DEF Stacked
  <2>3. q[i] \in Windows
    BY <1>3, <2>1
  <2>4. q[i].from \in Nat /\ q[i].to \in Nat
    BY <2>3 DEF Windows
  <2> HIDE DEF q, i
  <2> QED BY <2>2, <2>4
<1>10. /\ a \in Account /\ a.cur = billing[s].cur /\ a.end = end
       /\ billing' = [billing EXCEPT ![s] = a]
  <2>1. end \in Nat
    BY <1>3 DEF Account
  <2>2. a \in Account /\ a.cur = billing[s].cur /\ a.end = end
    BY <1>3, <1>4, <2>1 DEF Account
  <2>3. billing' = [billing EXCEPT ![s] = a]
    BY <1>1, <1>2, <1>3 DEF LedgerInv, LedgerOK, Account
  <2> QED BY <2>2, <2>3
<1>11. subs' = [subs EXCEPT ![s] = q2]
  BY <1>1, <1>2 DEF LedgerInv, LedgerOK
<1>12. q2 \in Seq(Windows) /\ AccountKnown(s, q2, a, referrals', processed', grants', now')
  <2> HIDE DEF a, end, status
  <2>1. CASE i = 0
    BY <1>3, <1>5, <1>8, <1>10, <2>1 DEF AccountKnown, Stacked
  <2>2. CASE i # 0
    BY <1>1, <1>3, <1>4, <1>5, <1>7, <1>9, <1>10, <2>2, AccountEnds
  <2> QED BY <2>1, <2>2
<1> HIDE DEF a, q2, status, end
<1>13. LedgerOK'
  <2>1. billing' \in [Salons -> Account]
    BY <1>10 DEF LedgerInv, LedgerOK
  <2>2. subs' \in [Salons -> Seq(Windows)]
    BY <1>11, <1>12 DEF LedgerInv, LedgerOK
  <2> QED BY <1>2, <2>1, <2>2 DEF LedgerInv, LedgerOK
<1>14. AccountsKnown'
  <2> SUFFICES ASSUME NEW r \in Salons
               PROVE  AccountKnown(r, subs'[r], billing'[r], referrals',
                                   processed', grants', now')
    BY DEF AccountsKnown
  <2>1. CASE r = s
    BY <1>1, <1>10, <1>11, <1>12, <2>1 DEF LedgerInv, LedgerOK
  <2>2. CASE r # s
    <3>1. subs'[r] = subs[r] /\ billing'[r] = billing[r]
      BY <1>10, <1>11, <2>2 DEF LedgerInv, LedgerOK
    <3>2. AccountKnown(r, subs[r], billing[r], referrals, processed, grants, now)
      BY DEF LedgerInv, AccountsKnown
    <3> QED BY <3>1, <3>2, AccountStays DEF Grown, TimePasses
  <2> QED BY <2>1, <2>2
<1>15. CountsCovered' /\ ProcessedKnows'
  BY <1>2 DEF LedgerInv, CountsCovered, ProcessedKnows
<1>16. GrantsKnow'
  BY <1>2 DEF LedgerInv, GrantsKnow, Grown
<1> QED BY <1>13, <1>14, <1>15, <1>16 DEF LedgerNext

LEMMA LedgerPreserved ==
  ASSUME JobsOK, JobsKnow, LedgerInv, InvitesOK, [Next]_vars
  PROVE  LedgerInv'
<1>0. Grown /\ TimePasses /\ now' \in Nat
  BY AllGrows, NowGrows DEF LedgerInv, TimePasses
<1>1. ASSUME UNCHANGED <<billing, subs, processed, grants, count>>,
             failures' \in [Salons -> Nat]
      PROVE  LedgerNext
  <2>1. AccountsKnown'
    BY <1>0, <1>1, AccountsStay DEF LedgerInv
  <2>2. GrantsKnow'
    BY <1>0, <1>1 DEF LedgerInv, GrantsKnow, Grown
  <2> QED BY <1>1, <2>1, <2>2 DEF LedgerInv, LedgerNext, LedgerOK,
             CountsCovered, ProcessedKnows
<1>2. CASE UNCHANGED ledger
  <2>1. UNCHANGED <<billing, subs, processed, grants, count, failures>>
    BY <1>2 DEF ledger
  <2> QED BY <1>0, <1>1, <2>1 DEF LedgerInv, LedgerNext, LedgerOK
<1>3. ASSUME NEW e \in Events, MarkEnded(e) PROVE LedgerInv'
  BY <1>0, <1>3, EndLedger DEF LedgerNext, LedgerInv
<1>4. ASSUME NEW e \in Events, MarkFailed(e) PROVE LedgerInv'
  <2>1. /\ UNCHANGED <<billing, subs, processed, grants, count>>
        /\ failures' = [failures EXCEPT ![job[e].to.salon] = @ + 1]
    BY <1>4 DEF MarkFailed
  <2>2. failures' \in [Salons -> Nat]
    <3>1. job[e].to.salon \in Salons
      BY <1>4, EventFacts, JobFacts DEF MarkFailed, JobsKnow, Knows, ToKnown
    <3> QED BY <2>1, <3>1 DEF LedgerInv, LedgerOK
  <2> QED BY <1>0, <1>1, <2>1, <2>2 DEF LedgerNext, LedgerInv
<1>5. ASSUME NEW j \in Jobs, GrantTx(j) PROVE LedgerInv'
  BY <1>0, <1>5, GrantLedger DEF LedgerNext, LedgerInv
<1> QED BY <1>2, <1>3, <1>4, <1>5, LedgerEffects

(***************************************************************************)
(* What the app tells the owner.                                           *)
(***************************************************************************)
RequestStates == {"none", "queued", "processing", "succeeded", "failed"}
Paid(p) == p \in processed[SalonOf[SubOf[p]]]

ToldInv ==
  /\ verify \in [Payments -> RequestStates] /\ told \subseteq Payments
  /\ client \in [Salons -> Client]
  /\ \A s \in Salons : client[s].st = "verifying" => client[s].pay \in Payments
  /\ \A p \in Payments : verify[p] = "succeeded" \/ p \in told => Paid(p)

LEMMA ClientEffects ==
  ASSUME [Next]_vars
  PROVE  \/ UNCHANGED client
         \/ \E s \in Salons :
              \/ \E b \in Subs : Purchase(s, b)
              \/ \E p \in Payments : Pay(s, p)
              \/ SheetOpens(s) \/ Told(s) \/ GiveUp(s)
<1>1. CASE UNCHANGED vars
  BY <1>1 DEF vars, app
<1>2. ASSUME NEW s \in Salons, Publish(s) PROVE UNCHANGED client
  BY <1>2 DEF Publish, app
<1>3. CASE RazorpayStep \/ Tick
  BY <1>3 DEF RazorpayStep, Tick, Renew, Decline, End, app
<1>4. ASSUME NEW b \in Subs, CheckoutCreate(b) \/ CheckoutDone(b) \/ CheckoutFail(b)
      PROVE  UNCHANGED client
  BY <1>4 DEF CheckoutCreate, CheckoutDone, CheckoutFail, app
<1>5. ASSUME NEW e \in Events, Handle(e) \/ Fail(e) \/ Die(e)
      PROVE  UNCHANGED client
  BY <1>5 DEF Handle, Fail, Die, Deliver, Record, Resolve, MarkEnded,
     MarkFailed, Answer, Read, GrantTx, app
<1>6. ASSUME NEW v \in Verifies, VerifyStep(v) PROVE UNCHANGED client
  BY <1>6 DEF VerifyStep, VerifyStart, VerifyResolve, VerifyDone, VerifyFail,
     VerifyDie, Read, GrantTx, app
<1>7. ASSUME NEW c \in Claims, ClaimLook(c) \/ ClaimTx(c) \/ ClaimFail(c)
      PROVE  UNCHANGED client
  BY <1>7 DEF ClaimLook, ClaimTx, ClaimFail, app
<1> QED BY <1>1, <1>2, <1>3, <1>4, <1>5, <1>6, <1>7 DEF Next, AppStep

LEMMA ClientPreserved ==
  ASSUME ToldInv, [Next]_vars
  PROVE  /\ client' \in [Salons -> Client]
         /\ \A s \in Salons :
              client'[s].st = "verifying" => client'[s].pay \in Payments
<1> DEFINE Fits(x) == x \in Client /\ (x.st = "verifying" => x.pay \in Payments)
<1>0. \A s \in Salons : Fits(client[s])
  BY DEF ToldInv
<1>1. ASSUME NEW s \in Salons, NEW x, Fits(x), client' = [client EXCEPT ![s] = x]
      PROVE  /\ client' \in [Salons -> Client]
             /\ \A r \in Salons : Fits(client'[r])
  <2>1. client' \in [Salons -> Client]
    BY <1>1 DEF ToldInv
  <2>2. ASSUME NEW r \in Salons PROVE Fits(client'[r])
    <3>1. CASE r = s
      BY <1>1, <3>1 DEF ToldInv
    <3>2. CASE r # s
      BY <1>0, <1>1, <3>2 DEF ToldInv
    <3> QED BY <3>1, <3>2
  <2> QED BY <2>1, <2>2
<1>2. CASE UNCHANGED client
  BY <1>2 DEF ToldInv
<1>3. ASSUME NEW s \in Salons,
             \/ \E b \in Subs : Purchase(s, b)
             \/ \E p \in Payments : Pay(s, p)
             \/ SheetOpens(s) \/ Told(s) \/ GiveUp(s)
      PROVE  \E x : Fits(x) /\ client' = [client EXCEPT ![s] = x]
  <2>0. Fits(NoClient) /\ client[s] \in Client
    BY ConstFacts DEF NoClient, ToldInv
  <2>1. ASSUME NEW b \in Subs, Purchase(s, b)
        PROVE  \E x : Fits(x) /\ client' = [client EXCEPT ![s] = x]
    <3> DEFINE x == [NoClient EXCEPT !.st = "checkout", !.sub = b]
    <3>1. Fits(x)
      BY <2>0 DEF NoClient, Client
    <3>2. client' = [client EXCEPT ![s] = x]
      BY <2>1 DEF Purchase
    <3> HIDE DEF x
    <3> QED BY <3>1, <3>2
  <2>2. ASSUME NEW p \in Payments, Pay(s, p)
        PROVE  \E x : Fits(x) /\ client' = [client EXCEPT ![s] = x]
    <3> DEFINE x == [client[s] EXCEPT !.st = "verifying", !.pay = p]
    <3>1. Fits(x)
      BY <2>0 DEF Client
    <3>2. \/ client' = [client EXCEPT ![s] = x]
          \/ client' = [client EXCEPT ![s] = NoClient]
      BY <2>2 DEF Pay, ToldInv
    <3> HIDE DEF x, Fits
    <3> QED BY <2>0, <3>1, <3>2
  <2>3. ASSUME SheetOpens(s)
        PROVE  \E x : Fits(x) /\ client' = [client EXCEPT ![s] = x]
    <3> DEFINE x == [client[s] EXCEPT !.st = "paying"]
    <3>1. Fits(x)
      BY <2>0 DEF Client
    <3>2. client' = [client EXCEPT ![s] = x]
      BY <2>3 DEF SheetOpens
    <3> HIDE DEF x
    <3> QED BY <3>1, <3>2
  <2>4. ASSUME Told(s) \/ GiveUp(s)
        PROVE  \E x : Fits(x) /\ client' = [client EXCEPT ![s] = x]
    <3>1. client' = [client EXCEPT ![s] = NoClient]
      BY <2>4 DEF Told, GiveUp
    <3> HIDE DEF Fits
    <3> QED BY <2>0, <3>1
  <2> QED BY <1>3, <2>1, <2>2, <2>3, <2>4
<1>4. /\ client' \in [Salons -> Client]
      /\ \A s \in Salons : Fits(client'[s])
  <2>1. CASE UNCHANGED client
    BY <1>0, <2>1 DEF ToldInv
  <2> HIDE DEF Fits
  <2> QED BY <1>1, <1>3, <2>1, ClientEffects
<1> QED BY <1>4

LEMMA ToldPreserved ==
  ASSUME JobsOK, JobsKnow, LedgerOK, ToldInv, [Next]_vars
  PROVE  ToldInv'
<1>0. \A p \in Payments : Paid(p) => Paid(p)'
  <2>1. \A p \in Payments : SalonOf[SubOf[p]] \in Salons
    BY PlansAssumption
  <2> QED BY <2>1, AllGrows DEF Grown, Paid
<1>1. /\ client' \in [Salons -> Client]
      /\ \A s \in Salons :
           client'[s].st = "verifying" => client'[s].pay \in Payments
  BY ClientPreserved
<1> DEFINE Rest == /\ verify' \in [Payments -> RequestStates]
                   /\ told' \subseteq Payments
                   /\ \A p \in Payments :
                        verify'[p] = "succeeded" \/ p \in told' => Paid(p)'
<1>2. ASSUME UNCHANGED <<verify, told>> PROVE Rest
  BY <1>0, <1>2 DEF ToldInv
<1>3. ASSUME NEW s \in Salons, Told(s) PROVE Rest
  <2>1. /\ client[s].pay \in Payments /\ verify[client[s].pay] = "succeeded"
        /\ told' = told \cup {client[s].pay} /\ verify' = verify
    BY <1>3 DEF Told, ToldInv, requests
  <2> QED BY <1>0, <2>1 DEF ToldInv
<1>4. ASSUME NEW s \in Salons, NEW p \in Payments, Pay(s, p) PROVE Rest
  <2>1. /\ told' = told
        /\ verify' = verify \/ verify' = [verify EXCEPT ![p] = "queued"]
    BY <1>4 DEF Pay
  <2> QED BY <1>0, <2>1 DEF ToldInv, RequestStates
<1>5. ASSUME NEW v \in Verifies,
             VerifyStart(v) \/ VerifyResolve(v) \/ VerifyFail(v)
      PROVE  Rest
  <2>1. /\ told' = told
        /\ \/ verify' = verify
           \/ \E st \in {"processing", "failed"} :
                verify' = [verify EXCEPT ![v.pay] = st]
    BY <1>5 DEF VerifyStart, VerifyResolve, VerifyFail, Status, app
  <2> QED BY <1>0, <2>1 DEF ToldInv, RequestStates
<1>6. ASSUME NEW v \in Verifies, VerifyDone(v) PROVE Rest
  <2>1. /\ told' = told /\ verify' = [verify EXCEPT ![v.pay] = "succeeded"]
        /\ job[v].st = "granted"
    BY <1>6 DEF VerifyDone, Status, app
  <2>2. Paid(v.pay)
    <3>1. /\ v \in Jobs /\ Key(v) = v.pay /\ Grants(v) /\ SubOf[v.pay] = v.sub
          /\ KeySalon(Key(v)) = SalonOf[v.sub]
      BY VerifyFacts
    <3> QED BY <2>1, <3>1 DEF JobsKnow, Knows, ToKnown, GrantKnown, Paid
  <2> QED BY <1>0, <2>1, <2>2 DEF ToldInv, RequestStates
<1>7. Rest
  <2> HIDE DEF Rest
  <2> QED BY <1>2, <1>3, <1>4, <1>5, <1>6, ToldEffects
<1> QED BY <1>1, <1>7 DEF ToldInv

(***************************************************************************)
(* The inductive invariant and the theorems.                               *)
(***************************************************************************)
BillingInv ==
  /\ JobsOK /\ JobsKnow /\ MappingKnows
  /\ LedgerInv /\ InvitesOK /\ ToldInv

LEMMA BillingInvHolds == Spec => []BillingInv
<1>1. Init => BillingInv
  <2> SUFFICES ASSUME Init PROVE BillingInv
    OBVIOUS
  <2>1. JobsOK /\ MappingKnows
    BY ConstFacts DEF Init, JobsOK, MappingKnows
  <2>2. JobsKnow
    BY DEF Init, JobsKnow, NoJob, Knows, ToKnown, RefKnown, GrantKnown
  <2>3. LedgerOK
    <3>1. billing \in [Salons -> Account]
      BY DEF Init, Account
    <3>2. subs \in [Salons -> Seq(Windows)]
      BY EmptySeq DEF Init
    <3>3. IsFiniteSet(grants)
      BY FS_EmptySet DEF Init
    <3> QED BY <3>1, <3>2, <3>3 DEF Init, LedgerOK
  <2>4. CountsCovered
    <3> SUFFICES ASSUME NEW c \in Claims
                 PROVE  count[c] <= Cardinality(GrantsOf(grants, c))
      BY DEF CountsCovered
    <3>1. count[c] = 0 /\ GrantsOf(grants, c) = {}
      BY DEF Init, GrantsOf
    <3> QED BY <3>1, FS_EmptySet
  <2>5. AccountsKnown
    <3> SUFFICES ASSUME NEW s \in Salons
                 PROVE  AccountKnown(s, <<>>, billing[s], referrals, processed, grants, now)
      BY DEF Init, AccountsKnown
    <3>1. billing[s].cur = 0
      BY DEF Init
    <3> QED BY <3>1 DEF AccountKnown, NoneTwice, Stacked
  <2>6. ProcessedKnows /\ GrantsKnow /\ now \in Nat
    BY DEF Init, ProcessedKnows, GrantsKnow
  <2>7. InvitesOK
    BY DEF Init, InvitesOK, OneReferralPerSalon
  <2>8. ToldInv
    BY ConstFacts DEF Init, ToldInv, RequestStates, NoClient
  <2> QED BY <2>1, <2>2, <2>3, <2>4, <2>5, <2>6, <2>7, <2>8 DEF BillingInv, LedgerInv
<1>2. BillingInv /\ [Next]_vars => BillingInv'
  <2> SUFFICES ASSUME BillingInv, [Next]_vars PROVE BillingInv'
    OBVIOUS
  <2>1. JobsOK' /\ JobsKnow' /\ MappingKnows'
    BY JobsPreserved DEF BillingInv, LedgerInv
  <2>2. InvitesOK'
    BY InvitesPreserved DEF BillingInv
  <2>3. LedgerInv'
    BY LedgerPreserved DEF BillingInv
  <2>4. ToldInv'
    BY ToldPreserved DEF BillingInv, LedgerInv
  <2> QED BY <2>1, <2>2, <2>3, <2>4 DEF BillingInv
<1> QED BY <1>1, <1>2, PTL DEF Spec

\* However many webhook events, verify requests and records report a payment,
\* and however their handlers interleave, fail or are stopped, the salon gets
\* one window for it.  (grantPaidSubscription)
THEOREM GrantedOnce == Spec => []OneGrantPerPayment
<1>1. BillingInv => OneGrantPerPayment
  BY DEF BillingInv, LedgerInv, AccountsKnown, AccountKnown, NoneTwice,
     OneGrantPerPayment
<1> QED BY <1>1, BillingInvHolds, PTL

\* No window of a salon is written over days of another that are still to
\* come, and billing/state names the last one, whoever writes them.
\* (grantPaidSubscription, markSubscriptionCancelled, markSubscriptionExpired)
THEOREM WindowsAreStacked == Spec => []WindowsStack
<1>1. BillingInv => WindowsStack
  BY DEF BillingInv, LedgerInv, AccountsKnown, AccountKnown, Stacked, WindowsStack
<1> QED BY <1>1, BillingInvHolds, PTL

\* Every reward follows from a payment of a salon that was referred, there is
\* one for each, and reward_count never exceeds them: it is written from a
\* value that was read before the transaction.
THEOREM RewardsFollowPayments == Spec => []RewardsAreEarned
<1>1. BillingInv => RewardsAreEarned
  <2> SUFFICES ASSUME BillingInv PROVE RewardsAreEarned
    OBVIOUS
  <2>1. ASSUME NEW r \in Salons, NEW i \in DOMAIN subs[r],
               subs[r][i].why = "reward"
        PROVE  /\ \E c \in referrals : /\ c.code = r /\ c.who # r
                                       /\ subs[r][i].key \in processed[c.who]
               /\ \A n \in DOMAIN subs[r] :
                    subs[r][n].why = "reward" /\ subs[r][n].key = subs[r][i].key
                    => n = i
    <3>1. AccountKnown(r, subs[r], billing[r], referrals, processed, grants, now)
      BY DEF BillingInv, LedgerInv, AccountsKnown
    <3>2. PICK c \in referrals : c.code = r /\ <<c, subs[r][i].key>> \in grants
      BY <2>1, <3>1 DEF AccountKnown, RowKnown
    <3>3. c \in Claims /\ subs[r][i].key \in Keys
      BY <3>2 DEF BillingInv, LedgerInv, LedgerOK
    <3>4. c.who # r /\ subs[r][i].key \in processed[c.who]
      BY <3>2, <3>3 DEF BillingInv, LedgerInv, GrantsKnow, InvitesOK
    <3>5. \A n \in DOMAIN subs[r] :
            subs[r][n].why = "reward" /\ subs[r][n].key = subs[r][i].key => n = i
      BY <2>1, <3>1 DEF AccountKnown, NoneTwice
    <3> QED BY <3>2, <3>4, <3>5
  <2>2. \A c \in referrals : count[c] <= Cardinality({g \in grants : g[1] = c})
    BY DEF BillingInv, LedgerInv, CountsCovered, InvitesOK, GrantsOf
  <2> QED BY <2>1, <2>2 DEF RewardsAreEarned
<1> QED BY <1>1, BillingInvHolds, PTL

\* Whatever claims of a salon run at once, by either path, one referral comes
\* of them.  (processReferralClaimRequest, claimReferral)
THEOREM ReferredOnce == Spec => []OneReferralPerSalon
<1>1. BillingInv => OneReferralPerSalon
  BY DEF BillingInv, InvitesOK
<1> QED BY <1>1, BillingInvHolds, PTL

\* A payment the app has shown as active is in the ledger of its salon.
\* (handlePurchase, verifyBillingPayment, processBillingVerifyRequest)
THEOREM ToldTruly == Spec => []ToldIsGranted
<1>1. BillingInv => ToldIsGranted
  BY DEF BillingInv, ToldInv, ToldIsGranted, Paid
<1> QED BY <1>1, BillingInvHolds, PTL
=============================================================================
