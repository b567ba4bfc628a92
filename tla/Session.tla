------------------------------- MODULE Session -------------------------------
(***************************************************************************)
(* Who is signed in on an install, and what runs and is shown because of   *)
(* it: AppRoot.tsx and AuthProvider.tsx, the screens before the salon      *)
(* (features/auth, features/onboarding), the salon id kept for background  *)
(* work (session-storage.ts), and the subscription windows from which      *)
(* SubscriptionProvider.tsx decides what is unlocked.                      *)
(*                                                                         *)
(* Covered: the splash that gives up waiting for Firebase and the report   *)
(* that comes after it, a verification that ends after its screen is gone, *)
(* accounts that follow one another with no sign-out between them, an      *)
(* onboarding that throws or dies between two of its transactions, a       *)
(* process killed with writes to AsyncStorage pending, an install wiped.   *)
(* The sync cycle is one step here (SyncEngine has its parts), and the     *)
(* windows the server grants are given (Billing has how).                  *)
(***************************************************************************)
EXTENDS Integers, Sequences, FiniteSets

CONSTANTS
  Users,     \* Firebase uids; a salon's id is its owner's uid
  None,
  TrialDays, PaidDays, GraceDays,  \* of DEFAULT_PLANS
  MaxNow, MaxGrants, MaxSends,     \* bounds
  MaxVerifies, \* on the codes submitted
  MaxMishaps  \* on kills, faults and wipes together

ASSUME UsersAssumption == None \notin Users
ASSUME DaysAssumption ==
  TrialDays \in Nat \ {0} /\ PaidDays \in Nat \ {0} /\ GraceDays \in Nat
ASSUME BoundsAssumption ==
  /\ MaxNow \in Nat /\ MaxGrants \in Nat
  /\ MaxSends \in Nat /\ MaxVerifies \in Nat /\ MaxMishaps \in Nat

VARIABLES
  \* kept by the phone:
  fb,       \* the user Firebase has cached
  stored,   \* SalonKhata.session.currentSalonId
  prefs,    \* the screens before the sign-in that are done
  salons,   \* rows of `salons`, named by owner
  seeded,   \* [Users -> how often the owner and the services were added]
  rows,     \* [Users -> rows of `salon_subscriptions`]
  \* of the process:
  phase,    \* "down", "boot", "up", "failed"
  events,   \* auth states the SDK has still to hand over
  reported, \* the SDK has reported its cached state
  timer,    \* the splash timer is armed
  app,      \* AuthProvider: [status, user, salon]
  current,  \* current-salon.ts
  sync, backup,  \* the salon each scheduler serves
  writes,   \* calls to AsyncStorage not yet carried out, in order
  screen,
  otp,      \* OtpScreen: [who, code, busy, seen, sent, flight]
  late,     \* [Users -> verifications that outlive their screen]
  ent,      \* lifecycle SubscriptionProvider shows
  \* elsewhere:
  cloud,    \* [Users -> subscription rows in Firestore]
  now, bound

kept == <<fb, stored, prefs, salons, seeded, rows>>
session == <<app, current, sync, backup, screen, ent>>
pending == <<events, reported, timer, writes>>
verifying == <<otp, late>>
vars == <<kept, phase, session, pending, verifying, cloud, now, bound>>

(***************************************************************************)
(* Subscription windows: evaluate.ts and the repositories.                 *)
(***************************************************************************)
Window(kind, start) ==
  LET end == start + (IF kind = "trial" THEN TrialDays ELSE PaidDays)
  IN  [kind |-> kind, born |-> now, end |-> end,
       grace |-> end + (IF kind = "trial" THEN 0 ELSE GraceDays)]

\* The order is turned round.
LatestFirst(R) == CHOOSE r \in R : \A q \in R :
  r.end < q.end \/ (r.end = q.end /\ r.born <= q.born)

\* getLatest: by end, then by the time of creation.
Latest(R) == CHOOSE r \in R : \A q \in R :
  r.end > q.end \/ (r.end = q.end /\ r.born >= q.born)

Lifecycle(R) ==
  IF R = {} THEN "none"
  ELSE LET r == Latest(R) IN
    CASE now < r.end -> (IF r.kind = "trial" THEN "trial" ELSE "active")
      [] now >= r.end /\ now < r.grace -> "grace"
      [] OTHER -> "expired"

Unlocked == {"trial", "active", "grace"}

\* activateTrial: only for a salon with no row. The status the bootstrap then
\* stores is a cache nothing here reads, and is left out.
Bootstrapped(R) == IF R = {} THEN {Window("trial", now)} ELSE R

\* A paid window is stacked on the one in force.
Granted(R) ==
  R \cup {Window("paid", IF Lifecycle(R) \in Unlocked THEN Latest(R).end ELSE now)}

(***************************************************************************)
(* AuthProvider: resolveSalonFor.                                          *)
(***************************************************************************)
Mishap ==
  /\ bound.mishaps < MaxMishaps
  /\ bound' = [bound EXCEPT !.mishaps = @ + 1]

NoOtp == [who |-> None, code |-> "", busy |-> FALSE, seen |-> FALSE,
          sent |-> "", flight |-> 0]
Loading == [status |-> "loading", user |-> None, salon |-> None]

\* resolveAuthInitialRoute.
FirstScreen ==
  IF "language" \notin prefs THEN "language"
  ELSE IF "tour" \notin prefs THEN "tour" ELSE "phone"

\* A screen that goes leaves its verification running.
Abandoned ==
  IF otp.flight > 0 THEN [late EXCEPT ![otp.who] = @ + otp.flight] ELSE late

Routed(status, first) ==
  /\ screen' = IF app.status = status THEN screen ELSE first
  /\ IF app.status = status THEN UNCHANGED verifying
     ELSE otp' = NoOtp /\ late' = Abandoned

SignedOut ==
  /\ app' = [status |-> "signed-out", user |-> None, salon |-> None]
  /\ current' = None /\ sync' = None /\ backup' = None
  /\ writes' = Append(writes, None)
  /\ Routed("signed-out", FirstScreen) /\ ent' = "none"
  /\ UNCHANGED <<rows, bound>>

\* A bootstrap that throws is caught, and the user is let in without a trial.
LetIn(u, R) ==
  /\ app' = [status |-> "signed-in", user |-> u, salon |-> u]
  /\ current' = u /\ sync' = u /\ backup' = u
  /\ writes' = Append(writes, u)
  /\ \/ rows' = [R EXCEPT ![u] = Bootstrapped(@)] /\ UNCHANGED bound
     \/ rows' = R /\ Mishap
  /\ Routed("signed-in", "main") /\ ent' = Lifecycle(rows'[u])

\* Sync goes on for the account that was there before.
NotOnboardedSyncing(u, R) ==
  /\ app' = [status |-> "signed-in-no-salon", user |-> u, salon |-> None]
  /\ current' = None /\ UNCHANGED <<sync, backup>>
  /\ writes' = Append(writes, None)
  /\ Routed("signed-in-no-salon", "onboarding") /\ ent' = "none"
  /\ rows' = R /\ UNCHANGED bound

\* The stored salon id is not cleared.
NotOnboardedStored(u, R) ==
  /\ app' = [status |-> "signed-in-no-salon", user |-> u, salon |-> None]
  /\ current' = None /\ sync' = None /\ backup' = None
  /\ UNCHANGED writes
  /\ Routed("signed-in-no-salon", "onboarding") /\ ent' = "none"
  /\ rows' = R /\ UNCHANGED bound

NotOnboarded(u, R) ==
  /\ app' = [status |-> "signed-in-no-salon", user |-> u, salon |-> None]
  /\ current' = None /\ sync' = None /\ backup' = None
  /\ writes' = Append(writes, None)
  /\ Routed("signed-in-no-salon", "onboarding") /\ ent' = "none"
  /\ rows' = R /\ UNCHANGED bound

\* A salon without billing rows is not found (an inner join).
HasSalonJoined(u) == u \in salons /\ rows[u] # {}

\* findByOwnerUid.
HasSalon(u) == u \in salons

Resolve(u) ==
  \/ u = None /\ SignedOut
  \/ u # None /\ HasSalon(u) /\ LetIn(u, rows)
  \/ u # None /\ ~HasSalon(u) /\ NotOnboarded(u, rows)

(***************************************************************************)
(* The process.                                                            *)
(***************************************************************************)
Down ==
  /\ phase' = "down" /\ app' = Loading /\ current' = None
  /\ sync' = None /\ backup' = None /\ screen' = "none" /\ ent' = "none"
  /\ events' = <<>> /\ reported' = FALSE /\ timer' = FALSE
  /\ writes' = <<>> /\ otp' = NoOtp /\ late' = [u \in Users |-> 0]

Init ==
  /\ fb = None /\ stored = None /\ prefs = {}
  /\ salons = {} /\ seeded = [u \in Users |-> 0]
  /\ rows = [u \in Users |-> {}]
  /\ phase = "down" /\ app = Loading /\ current = None
  /\ sync = None /\ backup = None /\ screen = "none" /\ ent = "none"
  /\ events = <<>> /\ reported = FALSE /\ timer = FALSE
  /\ writes = <<>> /\ otp = NoOtp /\ late = [u \in Users |-> 0]
  /\ cloud = [u \in Users |-> {}] /\ now = 0
  /\ bound = [grants |-> 0, sends |-> 0, verifies |-> 0, mishaps |-> 0]

Launch ==
  /\ phase = "down" /\ phase' = "boot"
  /\ UNCHANGED <<kept, session, pending, verifying, cloud, now, bound>>

\* The boot ends; AuthProvider is mounted with its timer and subscription.
Ready ==
  /\ phase = "boot" /\ phase' = "up" /\ timer' = TRUE
  /\ UNCHANGED <<kept, session, events, reported, writes, verifying, cloud,
                 now, bound>>

\* Any step of the boot throws: only another launch helps.
StartupFails ==
  /\ phase = "boot" /\ phase' = "failed" /\ Mishap
  /\ UNCHANGED <<kept, session, pending, verifying, cloud, now>>

Kill ==
  /\ phase \in {"up", "failed"} /\ Down
  /\ IF phase = "failed" THEN UNCHANGED bound
     ELSE Mishap
  /\ UNCHANGED <<kept, cloud, now>>

\* The app is deleted and installed again, or its data is reset
\* (resetAppData); some platforms keep Firebase's user.
Wipe ==
  /\ phase = "down" /\ Mishap
  /\ fb' \in {fb, None} /\ stored' = None /\ prefs' = {}
  /\ salons' = {} /\ seeded' = [u \in Users |-> 0]
  /\ rows' = [u \in Users |-> {}]
  /\ UNCHANGED <<phase, session, pending, verifying, cloud, now>>

(***************************************************************************)
(* What Firebase tells, and what the calls left pending do.                *)
(***************************************************************************)
Report ==
  /\ phase = "up" /\ ~reported /\ reported' = TRUE
  /\ events' = Append(events, fb)
  /\ UNCHANGED <<kept, phase, session, timer, writes, verifying, cloud,
                 now, bound>>

HandleAuth ==
  /\ phase = "up" /\ events # <<>> /\ events' = Tail(events)
  /\ timer' = FALSE /\ Resolve(Head(events))
  /\ UNCHANGED <<fb, stored, prefs, salons, seeded, phase, reported,
                 cloud, now>>

SplashTimeout ==
  /\ phase = "up" /\ timer /\ timer' = FALSE
  /\ app' = IF app.status = "loading" THEN [app EXCEPT !.status = "signed-out"]
            ELSE app
  /\ screen' = IF app.status = "loading" THEN FirstScreen ELSE screen
  /\ UNCHANGED <<kept, phase, current, sync, backup, ent, events, reported,
                 writes, verifying, cloud, now, bound>>

\* AsyncStorage carries the calls out in their order.
WriteLands ==
  /\ writes # <<>> /\ stored' = Head(writes) /\ writes' = Tail(writes)
  /\ UNCHANGED <<fb, prefs, salons, seeded, rows, phase, session, events,
                 reported, timer, verifying, cloud, now, bound>>

\* The session is ended: by the user (sign out, delete account) or by Firebase.
SignOut ==
  /\ phase = "up" /\ fb # None /\ screen = "main"
  /\ fb' = None /\ events' = Append(events, None)
  /\ UNCHANGED <<stored, prefs, salons, seeded, rows, phase, session,
                 reported, timer, writes, verifying, cloud, now, bound>>
Revoke ==
  /\ phase = "up" /\ fb # None /\ Mishap
  /\ fb' = None /\ events' = Append(events, None)
  /\ UNCHANGED <<stored, prefs, salons, seeded, rows, phase, session,
                 reported, timer, writes, verifying, cloud, now>>

(***************************************************************************)
(* The screens before the sign-in.                                         *)
(***************************************************************************)
PassScreen(from, to) ==
  /\ phase = "up" /\ screen = from
  /\ prefs' = prefs \cup {from} /\ screen' = to
  /\ UNCHANGED <<fb, stored, salons, seeded, rows, phase, app, current,
                 sync, backup, ent, pending, verifying, cloud, now, bound>>

\* PhoneNumberScreen sends a code to the phone of u and goes to OtpScreen.
SendCode(u) ==
  /\ phase = "up" /\ screen = "phone" /\ bound.sends < MaxSends
  /\ bound' = [bound EXCEPT !.sends = @ + 1]
  /\ screen' = "otp" /\ otp' = [NoOtp EXCEPT !.who = u]
  /\ UNCHANGED <<kept, phase, app, current, sync, backup, ent, pending, late,
                 cloud, now>>

OtpStep(o) ==
  /\ phase = "up" /\ screen = "otp" /\ otp' = o
  /\ UNCHANGED <<kept, phase, session, pending, late, cloud, now, bound>>

\* handleCodeChange: what was sent is forgotten, and the field is editable until
\* a render has seen that a code is being checked.
TypeCode(c) ==
  /\ c # otp.code /\ ~otp.seen
  /\ OtpStep([otp EXCEPT !.code = c, !.sent = IF c = @ THEN @ ELSE ""])

\* handleSubmit, run by the effect of a full code and by the button. Both see
\* `submitting` as it was when they were rendered, so that a change of the code
\* before that render lets a second verification begin.
Submit ==
  /\ otp.code # "" /\ ~otp.seen /\ otp.sent # otp.code
  /\ phase = "up" /\ screen = "otp" /\ bound.verifies < MaxVerifies
  /\ bound' = [bound EXCEPT !.verifies = @ + 1]
  /\ otp' = [otp EXCEPT !.sent = otp.code, !.busy = TRUE, !.flight = @ + 1]
  /\ UNCHANGED <<kept, phase, session, pending, late, cloud, now>>

Render == otp.seen # otp.busy /\ OtpStep([otp EXCEPT !.seen = otp.busy])

VerifyFails ==
  /\ otp.flight > 0
  /\ OtpStep([otp EXCEPT !.busy = FALSE, !.flight = @ - 1])

\* A new code: the field is cleared, and what was sent is forgotten.
Resend ==
  /\ bound.sends < MaxSends /\ phase = "up" /\ screen = "otp"
  /\ bound' = [bound EXCEPT !.sends = @ + 1]
  /\ otp' = [otp EXCEPT !.code = "", !.sent = "", !.seen = otp.busy]
  /\ UNCHANGED <<kept, phase, session, pending, late, cloud, now>>

BackToPhone ==
  /\ phase = "up" /\ screen = "otp" /\ screen' = "phone"
  /\ otp' = NoOtp /\ late' = Abandoned
  /\ UNCHANGED <<kept, phase, app, current, sync, backup, ent, pending, cloud,
                 now, bound>>

SignsIn(u) ==
  /\ fb' = u /\ events' = Append(events, u)
  /\ UNCHANGED <<stored, prefs, salons, seeded, rows, phase, session,
                 reported, timer, writes, cloud, now, bound>>

\* `submitting` stays set: the screen is about to go.
VerifyOk ==
  /\ phase = "up" /\ screen = "otp" /\ otp.flight > 0
  /\ otp' = [otp EXCEPT !.flight = @ - 1] /\ SignsIn(otp.who)
  /\ UNCHANGED late
LateVerify(u) ==
  /\ phase = "up" /\ late[u] > 0 /\ late' = [late EXCEPT ![u] = @ - 1]
  /\ (SignsIn(u) \/ (UNCHANGED <<kept, phase, session, pending, cloud, now, bound>>))
  /\ UNCHANGED otp

(***************************************************************************)
(* Onboarding.                                                             *)
(***************************************************************************)
\* The three screens keep only what the user has entered: one screen here.
\* handleFinish is one transaction after another: the salon; the owner, if he
\* serves too, and the categories and services; the billing rows. `upTo` of
\* them are committed. SalonRepository.create fails for a salon that is there,
\* so a second Finish changes nothing.
All == 3

\* INSERT OR IGNORE.
CreatableAgain(u) == TRUE

Creatable(u) == u \notin salons
Seeded(u, upTo) ==
  /\ salons' = salons \cup {u}
  /\ seeded' = [seeded EXCEPT ![u] = IF upTo >= 2 THEN @ + 1 ELSE @]

\* The user is the one Firebase has now; the session resolved at the end is
\* that of the user AuthProvider knows.
Finish ==
  /\ phase = "up" /\ screen = "onboarding" /\ fb # None /\ Creatable(fb)
  /\ Seeded(fb, All)
  /\ LET u == app.user
         R == [rows EXCEPT ![fb] = Bootstrapped(@)]
     IN  IF u \in salons' THEN LetIn(u, R) ELSE NotOnboarded(u, R)
  /\ UNCHANGED <<fb, stored, prefs, phase, events, reported, timer,
                 cloud, now>>

\* A step throws, or the process dies: what is committed stays.
FinishFails(upTo) ==
  /\ phase = "up" /\ screen = "onboarding" /\ fb # None /\ Creatable(fb)
  /\ Mishap /\ Seeded(fb, upTo)
  /\ UNCHANGED <<fb, stored, prefs, rows, phase, session, pending,
                 verifying, cloud, now>>
FinishDies(upTo) ==
  /\ phase = "up" /\ screen = "onboarding" /\ fb # None /\ Creatable(fb)
  /\ Mishap /\ Down /\ Seeded(fb, upTo)
  /\ rows' = [rows EXCEPT ![fb] = IF upTo = All THEN Bootstrapped(@) ELSE @]
  /\ UNCHANGED <<fb, stored, prefs, cloud, now>>

(***************************************************************************)
(* With a salon: sync, background work, and what is unlocked.              *)
(***************************************************************************)
Exchange(u) ==
  /\ rows' = [rows EXCEPT ![u] = @ \cup cloud[u]]
  /\ cloud' = [cloud EXCEPT ![u] = @ \cup rows[u]]

\* A cycle reaches the server as the user Firebase has: the rules answer only
\* the salon's owner. Rows that are pulled are announced to nobody.
SyncCycle ==
  /\ phase = "up" /\ sync # None /\ fb = sync /\ Exchange(sync)
  /\ UNCHANGED <<fb, stored, prefs, salons, seeded, phase, session,
                 pending, verifying, now, bound>>

\* The worker knows the salon from AsyncStorage alone. Whether its task is
\* registered, and when the system runs it, is left open.
BackgroundSync ==
  /\ phase = "down" /\ stored # None /\ fb = stored /\ Exchange(stored)
  /\ UNCHANGED <<fb, stored, prefs, salons, seeded, phase, session,
                 pending, verifying, now, bound>>

\* SubscriptionProvider.refresh: on mount, and when SubscriptionScreen gets the
\* focus or ends a purchase. The refresh on "db:dirty" never gets here: the
\* event is sent inside the transaction of the write, ensureDefaults begins
\* another, SQLite refuses it and the event bus drops the error.
Refresh ==
  /\ phase = "up" /\ app.status = "signed-in"
  /\ rows' = [rows EXCEPT ![app.salon] = Bootstrapped(@)]
  /\ ent' = Lifecycle(rows'[app.salon])
  /\ UNCHANGED <<fb, stored, prefs, salons, seeded, phase, app, current,
                 sync, backup, screen, pending, verifying, cloud, now, bound>>

\* The server grants a window (Billing).
Grant(u) ==
  /\ cloud[u] # {} /\ bound.grants < MaxGrants
  /\ bound' = [bound EXCEPT !.grants = @ + 1]
  /\ cloud' = [cloud EXCEPT ![u] = Granted(@)]
  /\ UNCHANGED <<kept, phase, session, pending, verifying, now>>

\* Time counts from the first window.
Tick ==
  /\ \E u \in Users : rows[u] # {} \/ cloud[u] # {}
  /\ now < MaxNow /\ now' = now + 1
  /\ UNCHANGED <<kept, phase, session, pending, verifying, cloud, bound>>

\* All six digits, right or wrong, or fewer.
Codes == {"", "full"}
SignIn ==
  \/ PassScreen("language", "tour") \/ PassScreen("tour", "phone")
  \/ \E u \in Users : SendCode(u) \/ LateVerify(u)
  \/ \E c \in Codes : TypeCode(c)
  \/ Submit \/ Render \/ VerifyFails \/ Resend \/ BackToPhone \/ VerifyOk
Onboarding ==
  \/ Finish
  \/ \E upTo \in 1..(All - 1) : FinishFails(upTo)
  \/ \E upTo \in 1..All : FinishDies(upTo)
Next ==
  \/ Launch \/ Ready \/ StartupFails \/ Kill \/ Wipe
  \/ Report \/ HandleAuth \/ SplashTimeout \/ WriteLands
  \/ SignOut \/ Revoke \/ SignIn \/ Onboarding
  \/ SyncCycle \/ BackgroundSync \/ Refresh \/ Tick
  \/ \E u \in Users : Grant(u)

Spec == Init /\ [][Next]_vars

\* A boot ends one way or the other, Firebase reports what it has cached, and
\* the JavaScript thread runs what is queued. No user action is fair.
FairSpec ==
  /\ Spec /\ WF_vars(Ready \/ StartupFails) /\ WF_vars(Report)
  /\ WF_vars(HandleAuth) /\ WF_vars(SplashTimeout) /\ WF_vars(SyncCycle)

(***************************************************************************)
(* Properties.                                                             *)
(***************************************************************************)
\* What runs, and the salon id every query reads, are those of the session,
\* and the session is that of the user Firebase has as soon as it has been
\* told: however late, out of turn or without a sign-out an account comes.
SessionOnly ==
  /\ sync \in {None, current} /\ backup = sync
  /\ current # None <=> app.status = "signed-in"
  /\ current # None => current = app.salon /\ current = app.user
  /\ phase = "up" /\ reported /\ events = <<>> => app.user = fb

\* "The AuthProvider mirrors every setCurrentSalonId() call to this store so
\* the two never drift": once the calls made are carried out, background work
\* finds the salon of the session, and none when there is none.
StoredFollowsSession ==
  phase = "up" /\ app.status # "loading" /\ reported /\ events = <<>>
    /\ writes = <<>> => stored = current

\* However often an onboarding is cut short, retried or begun again, an
\* install never inserts the owner or the default services of a salon twice.
SeededOnce ==
  \A u \in Users : seeded[u] <= 1

\* The one row that is looked at speaks for all: while a window of the salon,
\* its grace included, is open, and no other row is a trial that ends as late,
\* the salon is unlocked. (A wiped install gives itself a trial before it hears
\* of the paid window; where it ends no earlier it has no grace of its own and
\* hides the window's, and the salon is locked in it.)
OpenWindowIsHonoured == \A u \in Users : \A r \in rows[u] :
  (now < r.grace /\ \A t \in rows[u] \ {r} : t.kind = "trial" => t.end < r.end)
    => Lifecycle(rows[u]) \in Unlocked

\* A user whose salon is on the phone, were his onboarding cut short or not, is
\* let in by the next launch: neither the splash nor the onboarding keeps him.
GetsIn == \A u \in Users :
  (phase = "boot" /\ fb = u /\ u \in salons)
    ~> (app.salon = u \/ fb # u \/ phase \in {"failed", "down"})
=============================================================================
