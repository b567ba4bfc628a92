------------------------------- MODULE Billing -------------------------------
(***************************************************************************)
(* What a salon pays for and what it is given: functions/src/razorpay/*,   *)
(* the referral functions next to it, and the app's side of a purchase in  *)
(* src/cloud/razorpay-billing.ts.                                          *)
(*                                                                         *)
(* One payment is reported many times: by Razorpay's webhook events, which *)
(* are redelivered until one is answered with 200, and by the request the  *)
(* app writes after the checkout, whose trigger may be delivered twice.    *)
(* Each report is a job that runs through the stages of its handler, one   *)
(* database call at a time; jobs of one payment, of several payments and   *)
(* the claims of a referral interleave freely.                             *)
(*                                                                         *)
(* Covered: handlers that throw or die at any stage, the event marker that *)
(* cannot be deleted, duplicates answered while the first delivery runs.   *)
(* Not covered: forged requests (signatures are taken as genuine), edits   *)
(* of a referral code after it is published (the app has none).            *)
(***************************************************************************)
EXTENDS Integers, Sequences, FiniteSets

CONSTANTS
  Salons,
  Plans, Days,        \* the plans of config.ts and their durationDays
  Subs, SalonOf, PlanOf,  \* Razorpay subscriptions, the salon and plan of each
  Payments, SubOf,    \* payment ids, the subscription each is charged for
  Events,     \* webhook events and recordPaidSubscription calls: [kind, sub,
              \* pay, notes, nr], notes: the entity carries the salon's notes
  Verifies,   \* deliveries of a verify request, kind "verify"
  Claims,     \* claims of a code: [who, code, via, nr], code: its owner
  Nothing,
  RewardDays, \* REFERRAL_REWARD_DAYS
  LateReads,  \* a transaction may read after it has written; the server SDK
              \* that package.json names refuses it
  MaxDay, MaxFaults, MaxDeaths  \* bounds

Terms == [salon : Salons, plan : Plans]
GrantKinds == {"activated", "charged", "captured"}
EndKinds == {"completed", "cancelled"}
Kinds == GrantKinds \cup EndKinds \cup {"failed", "record"}
Jobs == Events \cup Verifies
Keys == Payments \cup Subs

ASSUME PlansAssumption ==
  /\ "monthly" \in Plans /\ Days \in [Plans -> Nat \ {0}]
  /\ SalonOf \in [Subs -> Salons] /\ PlanOf \in [Subs -> Plans]
  /\ SubOf \in [Payments -> Subs] /\ Payments \cap Subs = {}
  /\ Nothing \notin Keys \cup Salons \cup Claims \cup Terms
ASSUME JobsAssumption ==
  /\ Events \subseteq [kind : Kinds, sub : Subs, pay : Payments \cup {Nothing},
                       notes : BOOLEAN, nr : Nat]
  /\ Verifies \subseteq [kind : {"verify"}, sub : Subs, pay : Payments,
                         notes : {FALSE}, nr : Nat]
  /\ \A j \in Jobs : j.pay # Nothing => SubOf[j.pay] = j.sub
  /\ \A e \in Events :
       e.kind \in {"charged", "captured", "record"} => e.pay # Nothing
  /\ Claims \subseteq [who : Salons, code : Salons,
                       via : {"request", "callable"}, nr : Nat]
ASSUME BoundsAssumption ==
  /\ RewardDays \in Nat \ {0} /\ LateReads \in BOOLEAN
  /\ MaxDay \in Nat /\ MaxFaults \in Nat /\ MaxDeaths \in Nat

VARIABLES
  \* Razorpay:
  rzp,       \* [Subs -> status of the subscription]
  captured, declined,  \* payments taken, payments that failed
  acked,     \* events answered with 200
  \* Firestore:
  marker,    \* razorpay_webhook_events
  mapping,   \* razorpay_subscriptions: [Keys -> Terms or Nothing]
  billing,   \* [Salons -> billing/state: current row, end, status]
  subs,      \* [Salons -> the salon_subscriptions rows, in order of creation]
  processed, \* [Salons -> billing/payments/processed]
  failures,  \* [Salons -> how many failed subscription_payments]
  grants,    \* reward_grants: <<referral, payment>>
  published, \* referral_index: the salons whose code is there
  claimed,   \* referral_by_referred: [Salons -> the referral, or Nothing]
  referrals, \* the referrals documents, named by the claim that made them
  count,     \* [Claims -> reward_count]
  checkout,  \* [Subs -> status of its checkout request]
  verify,    \* [Payments -> status of its verify request]
  \* What is running:
  job,       \* [Jobs -> stage and what the handler has read]
  claim,     \* [Claims -> stage of the claim]
  client,    \* [Salons -> what handlePurchase waits for]
  told,      \* payments the app has reported as active
  excused,   \* history: events Razorpay believes handled and were not
  now, faults, deaths

razorpay == <<rzp, captured, declined, acked>>
ledger == <<billing, subs, processed, failures, grants, count>>
invites == <<published, claimed, referrals, claim>>
requests == <<checkout, verify>>
app == <<client, told>>
bounds == <<now, faults, deaths>>
vars == <<razorpay, marker, mapping, ledger, invites, requests, job, app,
          excused, bounds>>

NoJob == [st |-> "idle", to |-> Nothing, at |-> 0, ref |-> Nothing, cnt |-> 0]
NoClient == [st |-> "idle", sub |-> Nothing, pay |-> Nothing]
TermsOf(b) == [salon |-> SalonOf[b], plan |-> PlanOf[b]]
Running(j) == job[j].st \notin {"idle", "done"}

Init ==
  /\ rzp = [b \in Subs |-> "none"] /\ captured = {} /\ declined = {}
  /\ acked = {} /\ marker = {} /\ mapping = [k \in Keys |-> Nothing]
  /\ billing = [s \in Salons |-> [cur |-> 0, end |-> 0, st |-> "none"]]
  /\ subs = [s \in Salons |-> <<>>] /\ processed = [s \in Salons |-> {}]
  /\ failures = [s \in Salons |-> 0] /\ grants = {}
  /\ published = {} /\ claimed = [s \in Salons |-> Nothing]
  /\ referrals = {} /\ count = [c \in Claims |-> 0]
  /\ checkout = [b \in Subs |-> "none"] /\ verify = [p \in Payments |-> "none"]
  /\ job = [j \in Jobs |-> NoJob] /\ claim = [c \in Claims |-> "idle"]
  /\ client = [s \in Salons |-> NoClient] /\ told = {} /\ excused = {}
  /\ now = 0 /\ faults = 0 /\ deaths = 0

(***************************************************************************)
(* The app: handlePurchase, createBillingCheckout, verifyBillingPayment.   *)
(***************************************************************************)
\* One purchase at a time on a device; the request is queued.
Purchase(s, b) ==
  /\ client[s].st = "idle" /\ SalonOf[b] = s /\ checkout[b] = "none"
  /\ checkout' = [checkout EXCEPT ![b] = "queued"]
  /\ client' = [client EXCEPT ![s] = [NoClient EXCEPT !.st = "checkout",
                                                      !.sub = b]]
  /\ UNCHANGED <<razorpay, marker, mapping, ledger, invites, verify, job, told,
                 excused, bounds>>

\* A poll finds the checkout succeeded and Razorpay's sheet opens.
SheetOpens(s) ==
  /\ client[s].st = "checkout" /\ checkout[client[s].sub] = "succeeded"
  /\ client' = [client EXCEPT ![s].st = "paying"]
  /\ UNCHANGED <<razorpay, marker, mapping, ledger, invites, requests, job,
                 told, excused, bounds>>

\* The owner pays.  The verify request is written, or the phone is offline or
\* the app is gone and only the webhook will tell.
Pay(s, p) ==
  /\ client[s].st = "paying" /\ SubOf[p] = client[s].sub
  /\ p \notin captured \cup declined
  /\ captured' = captured \cup {p}
  /\ rzp' = [rzp EXCEPT ![client[s].sub] = "active"]
  /\ \/ /\ verify' = [verify EXCEPT ![p] = "queued"]
        /\ client' = [client EXCEPT ![s].st = "verifying", ![s].pay = p]
     \/ /\ client' = [client EXCEPT ![s] = NoClient]
        /\ UNCHANGED verify
  /\ UNCHANGED <<declined, acked, marker, mapping, ledger, invites, checkout,
                 job, told, excused, bounds>>

\* A request that is still worked on is taken for a success.
ToldEarly(s) ==
  /\ client[s].st = "verifying"
  /\ verify[client[s].pay] \in {"processing", "succeeded"}
  /\ told' = told \cup {client[s].pay}
  /\ client' = [client EXCEPT ![s] = NoClient]
  /\ UNCHANGED <<razorpay, marker, mapping, ledger, invites, requests, job,
                 excused, bounds>>

\* A poll finds the request succeeded: the screen says the plan is active.
Told(s) ==
  /\ client[s].st = "verifying" /\ verify[client[s].pay] = "succeeded"
  /\ told' = told \cup {client[s].pay}
  /\ client' = [client EXCEPT ![s] = NoClient]
  /\ UNCHANGED <<razorpay, marker, mapping, ledger, invites, requests, job,
                 excused, bounds>>

\* A failed status, 25 s without an answer, a dismissed sheet, a closed app.
GiveUp(s) ==
  /\ client[s].st # "idle"
  /\ client' = [client EXCEPT ![s] = NoClient]
  /\ UNCHANGED <<razorpay, marker, mapping, ledger, invites, requests, job,
                 told, excused, bounds>>

(***************************************************************************)
(* Razorpay.                                                               *)
(***************************************************************************)
\* The next charge of an active subscription succeeds ...
Renew(p) ==
  /\ rzp[SubOf[p]] = "active" /\ p \notin captured \cup declined
  /\ captured' = captured \cup {p}
  /\ UNCHANGED <<rzp, declined, acked, marker, mapping, ledger, invites,
                 requests, job, app, excused, bounds>>

\* ... or fails.
Decline(p) ==
  /\ rzp[SubOf[p]] \in {"created", "active"} /\ p \notin captured \cup declined
  /\ declined' = declined \cup {p}
  /\ UNCHANGED <<rzp, captured, acked, marker, mapping, ledger, invites,
                 requests, job, app, excused, bounds>>

\* Every charge is made, or the owner cancels.
End(b, how) ==
  /\ rzp[b] = "active" /\ rzp' = [rzp EXCEPT ![b] = how]
  /\ UNCHANGED <<captured, declined, acked, marker, mapping, ledger, invites,
                 requests, job, app, excused, bounds>>

\* What the event reports has happened.
Occurred(e) ==
  /\ e.pay # Nothing =>
       e.pay \in IF e.kind = "failed" THEN declined ELSE captured
  /\ e.kind = "activated" => rzp[e.sub] \in {"active"} \cup EndKinds
  /\ e.kind \in EndKinds => rzp[e.sub] = e.kind
  /\ e.kind = "failed" => \E p \in declined : SubOf[p] = e.sub

(***************************************************************************)
(* processBillingCheckoutRequest: the subscription is created at Razorpay, *)
(* then its mapping is written, then the request succeeds.                 *)
(***************************************************************************)
CheckoutCreate(b) ==
  /\ checkout[b] = "queued"
  /\ rzp' = [rzp EXCEPT ![b] = "created"]
  /\ checkout' = [checkout EXCEPT ![b] = "processing"]
  /\ UNCHANGED <<captured, declined, acked, marker, mapping, ledger, invites,
                 verify, job, app, excused, bounds>>

CheckoutDone(b) ==
  /\ checkout[b] = "processing"
  /\ mapping' = [mapping EXCEPT ![b] = TermsOf(b)]
  /\ checkout' = [checkout EXCEPT ![b] = "succeeded"]
  /\ UNCHANGED <<razorpay, marker, ledger, invites, verify, job, app, excused,
                 bounds>>

CheckoutFail(b) ==
  /\ checkout[b] \in {"queued", "processing"} /\ faults < MaxFaults
  /\ checkout' = [checkout EXCEPT ![b] = "failed"]
  /\ faults' = faults + 1
  /\ UNCHANGED <<razorpay, marker, mapping, ledger, invites, verify, job, app,
                 excused, now, deaths>>

\* The transaction trusts what was read before it.
ProcessedBefore(s, k) == FALSE

Processed(s, k) == k \in processed[s]

(***************************************************************************)
(* razorpayWebhook and recordPaidSubscription.                             *)
(***************************************************************************)
Move(j, stage) == job' = [job EXCEPT ![j].st = stage]

\* nestedEntity looks for the payment first, whatever it is asked for, and
\* then for the subscription: both ids of an event are the id of this entity.
Entity(e) == IF e.pay # Nothing THEN e.pay ELSE e.sub

\* The key of the grant; a verify request names its payment.
Key(j) == IF j.kind = "verify" THEN j.pay ELSE Entity(j)

\* A transaction with something to grant writes the salon's row and then reads
\* the payment's: without LateReads it always throws.
Refused(j) ==
  ~LateReads /\ job[j].st = "read" /\ ~Processed(job[j].to.salon, Key(j))

Throws(j) ==
  IF Refused(j) THEN UNCHANGED faults
  ELSE faults < MaxFaults /\ faults' = faults + 1

\* markWebhookEventProcessed is a transaction: one delivery goes on, the
\* others are answered 200 while it runs.
Deliver(e) ==
  /\ e.kind # "record" /\ Occurred(e) /\ e \notin acked
  /\ IF e \in marker
     THEN /\ acked' = acked \cup {e}
          /\ excused' = excused \cup (IF Running(e) THEN {e} ELSE {})
          /\ UNCHANGED <<marker, job>>
     ELSE /\ marker' = marker \cup {e} /\ Move(e, "marked")
          /\ UNCHANGED <<acked, excused>>
  /\ UNCHANGED <<rzp, captured, declined, mapping, ledger, invites, requests,
                 app, bounds>>

\* recordPaidSubscription has no marker and is told the salon.
Record(e) ==
  /\ e.kind = "record" /\ Occurred(e) /\ job[e].st = "idle"
  /\ job' = [job EXCEPT ![e].st = "resolved", ![e].to = TermsOf(e.sub)]
  /\ UNCHANGED <<razorpay, marker, mapping, ledger, invites, requests, app,
                 excused, bounds>>

\* The notes of the entity, or the mapping of its id.
Resolved(e) == IF e.notes THEN TermsOf(e.sub) ELSE mapping[Entity(e)]

\* An unmapped event is answered 200 and dropped; an activation writes the
\* mapping and goes on, since its entity has an id.
Resolve(e) ==
  /\ job[e].st = "marked" /\ e \in Events
  /\ LET to == Resolved(e) IN
     IF to = Nothing
     THEN /\ Move(e, "done") /\ acked' = acked \cup {e}
          /\ UNCHANGED mapping
     ELSE /\ job' = [job EXCEPT ![e].st = "resolved", ![e].to = to]
          /\ mapping' = IF e.kind = "activated"
                        THEN [mapping EXCEPT ![Entity(e)] = to] ELSE mapping
          /\ UNCHANGED acked
  /\ UNCHANGED <<rzp, captured, declined, marker, ledger, invites, requests,
                 app, excused, bounds>>

\* markSubscriptionCancelled and markSubscriptionExpired: the current row,
\* whatever subscription it was bought with, and billing/state.
MarkEnded(e) ==
  /\ job[e].st = "resolved" /\ e.kind \in EndKinds
  /\ LET s == job[e].to.salon
         status == IF e.kind = "cancelled" THEN "cancelled" ELSE "expired"
     IN /\ billing' = [billing EXCEPT ![s].st = status,
                         ![s].end = IF @ = 0 /\ status = "expired"
                                    THEN now ELSE @]
        /\ subs' = IF billing[s].cur = 0 THEN subs
                   ELSE [subs EXCEPT ![s][billing[s].cur].st = status]
  /\ Move(e, "granted")
  /\ UNCHANGED <<razorpay, marker, mapping, processed, failures, grants, count,
                 invites, requests, app, excused, bounds>>

\* recordFailedPayment: a new row each time.
MarkFailed(e) ==
  /\ job[e].st = "resolved" /\ e.kind = "failed"
  /\ failures' = [failures EXCEPT ![job[e].to.salon] = @ + 1]
  /\ Move(e, "granted")
  /\ UNCHANGED <<razorpay, marker, mapping, billing, subs, processed, grants,
                 count, invites, requests, app, excused, bounds>>

\* The mapping of the id after the work: the plan is the resolved one, except
\* that an ended subscription keeps the mapped one, "monthly" if there is none.
Remapped(e) ==
  LET k == Entity(e) to == job[e].to
  IN [mapping EXCEPT ![k] =
        IF e.kind \notin EndKinds THEN to
        ELSE [to EXCEPT !.plan = IF mapping[k] = Nothing THEN "monthly"
                                 ELSE mapping[k].plan]]

\* 200.
Answer(e) ==
  /\ job[e].st = "granted" /\ e \in Events
  /\ mapping' = IF e.kind = "record" THEN mapping ELSE Remapped(e)
  /\ Move(e, "done") /\ acked' = acked \cup {e}
  /\ UNCHANGED <<rzp, captured, declined, marker, ledger, invites, requests,
                 app, excused, bounds>>

\* A call throws.  The marker is deleted, best effort, and 500 is answered.
Fail(e) ==
  /\ e \in Events /\ Running(e) /\ Throws(e)
  /\ job' = [job EXCEPT ![e] = NoJob]
  /\ \/ marker' = marker \ {e} /\ UNCHANGED excused
     \/ excused' = excused \cup {e} /\ UNCHANGED marker
  /\ UNCHANGED <<razorpay, mapping, ledger, invites, requests, app, now,
                 deaths>>

\* The instance is stopped: the marker stays.
Die(e) ==
  /\ e \in Events /\ Running(e) /\ deaths < MaxDeaths
  /\ deaths' = deaths + 1 /\ job' = [job EXCEPT ![e] = NoJob]
  /\ excused' = excused \cup {e}
  /\ UNCHANGED <<razorpay, marker, mapping, ledger, invites, requests, app,
                 now, faults>>

(***************************************************************************)
(* processBillingVerifyRequest.  A second delivery of the trigger carries  *)
(* the document as it was created, so the status check does not stop it.   *)
(***************************************************************************)
Status(v, status) == verify' = [verify EXCEPT ![v.pay] = status]

VerifyStart(v) ==
  /\ verify[v.pay] # "none" /\ job[v].st = "idle"
  /\ Status(v, "processing") /\ Move(v, "marked")
  /\ UNCHANGED <<razorpay, marker, mapping, ledger, invites, checkout, app,
                 excused, bounds>>

\* The salon must be the mapped one; the mapped plan comes before the plan the
\* app has asked for.
VerifyResolve(v) ==
  /\ v \in Verifies /\ job[v].st = "marked"
  /\ LET mapped == mapping[v.sub]
         salon == SalonOf[v.sub]
         to == [salon |-> salon, plan |-> IF mapped = Nothing
                                          THEN PlanOf[v.sub] ELSE mapped.plan]
     IN IF mapped # Nothing /\ mapped.salon # salon
        THEN Status(v, "failed") /\ Move(v, "done")
        ELSE /\ job' = [job EXCEPT ![v].st = "resolved", ![v].to = to]
             /\ UNCHANGED verify
  /\ UNCHANGED <<razorpay, marker, mapping, ledger, invites, checkout, app,
                 excused, bounds>>

VerifyDone(v) ==
  /\ v \in Verifies /\ job[v].st = "granted"
  /\ mapping' = [mapping EXCEPT ![v.sub] = job[v].to]
  /\ Status(v, "succeeded") /\ Move(v, "done")
  /\ UNCHANGED <<razorpay, marker, ledger, invites, checkout, app, excused,
                 bounds>>

VerifyFail(v) ==
  /\ v \in Verifies /\ job[v].st \in {"resolved", "read", "granted"}
  /\ Throws(v) /\ Status(v, "failed") /\ Move(v, "done")
  /\ UNCHANGED <<razorpay, marker, mapping, ledger, invites, checkout, app,
                 excused, now, deaths>>

\* Nobody runs it again: the request stays "processing".
VerifyDie(v) ==
  /\ v \in Verifies /\ Running(v) /\ deaths < MaxDeaths
  /\ deaths' = deaths + 1 /\ Move(v, "done")
  /\ UNCHANGED <<razorpay, marker, mapping, ledger, invites, requests, app,
                 excused, now, faults>>

(***************************************************************************)
(* grantPaidSubscription.                                                  *)
(***************************************************************************)
\* The count that is read is off by one.
ReadOneMore(j) ==
  /\ job[j].st = "resolved" /\ j.kind \notin EndKinds \cup {"failed"}
  /\ LET s == job[j].to.salon
         mine == {c \in referrals : c.who = s}
     IN IF Key(j) \in processed[s]
        THEN Move(j, "granted")
        ELSE \E c \in IF mine = {} THEN {Nothing} ELSE mine :
               job' = [job EXCEPT ![j].st = "read", ![j].at = now, ![j].ref = c,
                         ![j].cnt = IF c = Nothing THEN 0 ELSE count[c] + 1]
  /\ UNCHANGED <<razorpay, marker, mapping, ledger, invites, requests, app,
                 excused, bounds>>

\* Before the transaction: the time is taken (nowIso), the payment may be
\* known, and the salon's referral is looked up with its reward_count.
Read(j) ==
  /\ job[j].st = "resolved" /\ j.kind \notin EndKinds \cup {"failed"}
  /\ LET s == job[j].to.salon
         mine == {c \in referrals : c.who = s}
     IN IF Key(j) \in processed[s]
        THEN Move(j, "granted")
        ELSE \E c \in IF mine = {} THEN {Nothing} ELSE mine :
               job' = [job EXCEPT ![j].st = "read", ![j].at = now, ![j].ref = c,
                         ![j].cnt = IF c = Nothing THEN 0 ELSE count[c]]
  /\ UNCHANGED <<razorpay, marker, mapping, ledger, invites, requests, app,
                 excused, bounds>>

\* The end of the last window is not looked at.
StartAtOnce(s, at) == at

\* A window starts where the salon's last one ends, unless that is over by the
\* time of the transaction: then it starts at nowIso, which is older.
Start(s, at) == IF billing[s].end > now THEN billing[s].end ELSE at

Window(s, at, days, why, k) ==
  [from |-> Start(s, at), to |-> Start(s, at) + days, authored |-> now,
   why |-> why, key |-> k, st |-> "active"]

\* The rows and the state of a salon with one more window.
Rows(s, w) == [subs EXCEPT ![s] = Append(@, w)]
State(s, w) == [cur |-> Len(subs[s]) + 1, end |-> w.to, st |-> "active"]

\* The transaction: the row, the payment, the state; the reward of the salon
\* that referred this one; the mark that the payment is processed.
Grant(j) ==
  LET s == job[j].to.salon
      k == Key(j)
      c == job[j].ref
      paid == Window(s, job[j].at, Days[job[j].to.plan], "payment", k)
      rewarded == c # Nothing /\ <<c, k>> \notin grants
      r == c.code
      reward == Window(r, job[j].at, RewardDays, "reward", k)
  IN /\ processed' = [processed EXCEPT ![s] = @ \cup {k}]
     /\ IF rewarded
        THEN /\ subs' = [Rows(s, paid) EXCEPT ![r] = Append(@, reward)]
             /\ billing' = [billing EXCEPT ![s] = State(s, paid),
                                           ![r] = State(r, reward)]
             /\ grants' = grants \cup {<<c, k>>}
             /\ count' = [count EXCEPT ![c] = job[j].cnt + 1]
        ELSE /\ subs' = Rows(s, paid)
             /\ billing' = [billing EXCEPT ![s] = State(s, paid)]
             /\ UNCHANGED <<grants, count>>

GrantTx(j) ==
  /\ job[j].st = "read" /\ ~Refused(j)
  /\ IF Processed(job[j].to.salon, Key(j))
     THEN UNCHANGED <<billing, subs, processed, grants, count>>
     ELSE Grant(j)
  /\ Move(j, "granted")
  /\ UNCHANGED <<razorpay, marker, mapping, failures, invites, requests, app,
                 excused, bounds>>

(***************************************************************************)
(* Referrals: syncReferralIndex, processReferralClaimRequest, which the    *)
(* app asks for, and claimReferral.                                        *)
(***************************************************************************)
\* The code a device has made is synced and its trigger publishes it (a code
\* nobody claims changes nothing).
Publish(s) ==
  /\ s \notin published /\ \E c \in Claims : c.code = s
  /\ published' = published \cup {s}
  /\ UNCHANGED <<razorpay, marker, mapping, ledger, claimed, referrals, claim,
                 requests, job, app, excused, bounds>>

\* The index is read: no such code, the salon's own, or its owner.  The
\* callable also looks for a referral of the salon.
ClaimLook(c) ==
  /\ claim[c] = "idle"
  /\ claim' = [claim EXCEPT ![c] =
       IF c.code \notin published \/ c.code = c.who THEN "failed"
       ELSE IF c.via = "callable" /\ \E d \in referrals : d.who = c.who
            THEN "already" ELSE "looked"]
  /\ UNCHANGED <<razorpay, marker, mapping, ledger, published, claimed,
                 referrals, requests, job, app, excused, bounds>>

\* The transaction does not read referral_by_referred.
AlreadyClaimedUnread(s) == FALSE

AlreadyClaimed(s) == claimed[s] # Nothing

ClaimTx(c) ==
  /\ claim[c] = "looked"
  /\ IF AlreadyClaimed(c.who)
     THEN /\ claim' = [claim EXCEPT ![c] = "already"]
          /\ UNCHANGED <<claimed, referrals>>
     ELSE /\ LateReads
          /\ claim' = [claim EXCEPT ![c] = "made"]
          /\ claimed' = [claimed EXCEPT ![c.who] = c]
          /\ referrals' = referrals \cup {c}
  /\ UNCHANGED <<razorpay, marker, mapping, ledger, published, requests, job,
                 app, excused, bounds>>

\* The transaction fails, or the instance stops: no second try.
ClaimFail(c) ==
  /\ claim[c] = "looked"
  /\ claim' = [claim EXCEPT ![c] = "failed"]
  /\ UNCHANGED <<razorpay, marker, mapping, ledger, published, claimed,
                 referrals, requests, job, app, excused, bounds>>

Tick ==
  /\ now < MaxDay /\ now' = now + 1
  /\ UNCHANGED <<razorpay, marker, mapping, ledger, invites, requests, job,
                 app, excused, faults, deaths>>

AppStep ==
  \E s \in Salons :
    \/ \E b \in Subs : Purchase(s, b)
    \/ \E p \in Payments : Pay(s, p)
    \/ SheetOpens(s) \/ Told(s) \/ GiveUp(s) \/ Publish(s)
RazorpayStep ==
  \/ \E p \in Payments : Renew(p) \/ Decline(p)
  \/ \E b \in Subs, how \in EndKinds : End(b, how)
Handle(e) ==
  \/ Deliver(e) \/ Record(e) \/ Resolve(e) \/ MarkEnded(e) \/ MarkFailed(e)
  \/ Answer(e) \/ Read(e) \/ GrantTx(e)
VerifyStep(v) ==
  \/ VerifyStart(v) \/ VerifyResolve(v) \/ VerifyDone(v) \/ Read(v)
  \/ GrantTx(v) \/ VerifyFail(v) \/ VerifyDie(v)
Next ==
  \/ AppStep \/ RazorpayStep \/ Tick
  \/ \E b \in Subs : CheckoutCreate(b) \/ CheckoutDone(b) \/ CheckoutFail(b)
  \/ \E e \in Events : Handle(e) \/ Fail(e) \/ Die(e)
  \/ \E v \in Verifies : VerifyStep(v)
  \/ \E c \in Claims : ClaimLook(c) \/ ClaimTx(c) \/ ClaimFail(c)

Spec == Init /\ [][Next]_vars

\* Razorpay redelivers what was not answered with 200, and a handler that runs
\* goes on or, where its transaction is refused, throws; nothing else is
\* promised.
FairSpec == Spec /\ \A e \in Events : WF_vars(Handle(e) \/ (Refused(e) /\ Fail(e)))

(***************************************************************************)
(* Properties.                                                             *)
(***************************************************************************)
Windows == [from : Nat, to : Nat, authored : Nat,
            why : {"payment", "reward"}, key : Keys,
            st : {"active", "cancelled", "expired"}]

\* Every variable has its type.
TypeOK ==
  /\ rzp \in [Subs -> {"none", "created", "active"} \cup EndKinds]
  /\ captured \subseteq Payments /\ declined \subseteq Payments
  /\ acked \subseteq Events /\ marker \subseteq Events
  /\ excused \subseteq Events /\ told \subseteq Payments
  /\ mapping \in [Keys -> Terms \cup {Nothing}]
  /\ billing \in [Salons -> [cur : Nat, end : Nat, st : {"none", "active",
                                                "cancelled", "expired"}]]
  /\ subs \in [Salons -> Seq(Windows)]
  /\ processed \in [Salons -> SUBSET Keys] /\ failures \in [Salons -> Nat]
  /\ grants \subseteq Claims \X Keys /\ count \in [Claims -> Nat]
  /\ published \subseteq Salons /\ referrals \subseteq Claims
  /\ claimed \in [Salons -> Claims \cup {Nothing}]
  /\ checkout \in [Subs -> {"none", "queued", "processing", "succeeded",
                            "failed"}]
  /\ verify \in [Payments -> {"none", "queued", "processing", "succeeded",
                              "failed"}]
  /\ job \in [Jobs -> [st : {"idle", "marked", "resolved", "read", "granted",
                             "done"},
                       to : Terms \cup {Nothing}, at : Nat,
                       ref : Claims \cup {Nothing}, cnt : Nat]]
  /\ claim \in [Claims -> {"idle", "looked", "made", "already", "failed"}]
  /\ client \in [Salons -> [st : {"idle", "checkout", "paying", "verifying"},
                            sub : Subs \cup {Nothing},
                            pay : Payments \cup {Nothing}]]
  /\ now \in Nat /\ faults \in Nat /\ deaths \in Nat

\* However often and at once a payment is reported, by the webhook, by both
\* deliveries of the verify request and by an administrator, the salon gets
\* one window for it.  (grant-paid-subscription.ts, "Idempotent on
\* externalPaymentId so webhooks / verify / retries are safe")
OneGrantPerPayment ==
  \A s \in Salons : \A i, j \in DOMAIN subs[s] :
    /\ subs[s][i].why = "payment" /\ subs[s][j].why = "payment"
    /\ subs[s][i].key = subs[s][j].key
    => i = j

\* No day of a salon that is still to come is covered twice, whoever writes
\* the windows: a payment and a reward that are processed at once are stacked,
\* and billing/state names the last row and its end.  A window that ended
\* while the handler ran may still be overlapped: the start is the time at
\* which the handler began (grant-paid-subscription.ts:103), the end is
\* compared with the time of the transaction (172-175, 292-296).
WindowsStack ==
  \A s \in Salons :
    /\ \A i, j \in DOMAIN subs[s] : i < j =>
         \/ subs[s][i].to <= subs[s][j].from
         \/ subs[s][i].to <= subs[s][j].authored
    /\ billing[s].cur = Len(subs[s])
    /\ subs[s] # <<>> => billing[s].end = subs[s][Len(subs[s])].to

\* A salon has a reward for a payment only if one it referred has made it, one
\* for each, and reward_count never exceeds them.
RewardsAreEarned ==
  /\ \A r \in Salons : \A i \in DOMAIN subs[r] :
       subs[r][i].why = "reward" =>
         /\ \E c \in referrals : /\ c.code = r /\ c.who # r
                                 /\ subs[r][i].key \in processed[c.who]
         /\ \A n \in DOMAIN subs[r] :
              subs[r][n].why = "reward" /\ subs[r][n].key = subs[r][i].key
              => n = i
  /\ \A c \in referrals :
       count[c] <= Cardinality({g \in grants : g[1] = c})

\* Two claims of one salon, sent at once with two codes and by two paths, make
\* one referral.  (referral_by_referred)
OneReferralPerSalon ==
  \A c, d \in referrals : c.who = d.who => c = d

\* What the app tells the owner is true, whenever it tells it: the payment is
\* in the ledger.  (That it is granted at all is PaidIsGranted.)
ToldIsGranted ==
  \A p \in told : p \in processed[SalonOf[SubOf[p]]]

\* A captured payment whose event carries the salon's notes is granted in the
\* end, unless Razorpay was told too early that the event is handled.
\* (grant-paid-subscription.ts:90-91, "When a salon pays, write paid
\* subscription + payment ledger")
PaidIsGranted ==
  \A e \in Events :
    (e.kind = "captured" /\ e.notes /\ e.pay \in captured)
      ~> (e.pay \in processed[SalonOf[e.sub]] \/ e \in excused)
=============================================================================
