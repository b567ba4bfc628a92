---------------------------- MODULE SessionProofs ----------------------------
(***************************************************************************)
(* Theorems about Session, for any number of accounts, codes, kills,       *)
(* faults and wiped installs: what is seeded is seeded once, what runs     *)
(* and what is stored follows the session, and a window that no later      *)
(* trial hides unlocks.                                                    *)
(***************************************************************************)
EXTENDS Session, TLAPS, SequenceTheorems

(***************************************************************************)
(* Seeding.  An account whose salon is not on the phone was not seeded, and *)
(* every step that seeds creates the salon.                                 *)
(***************************************************************************)
SeedInv ==
  /\ seeded \in [Users -> Nat]
  /\ \A u \in Users : seeded[u] <= (IF u \in salons THEN 1 ELSE 0)

\* Only a wiped install and a Finish touch the salons and what is seeded.
LEMMA SeedEffects ==
  ASSUME [Next]_vars
  PROVE  \/ UNCHANGED <<salons, seeded>>
         \/ Wipe
         \/ \E upTo \in 1..All : Creatable(fb) /\ Seeded(fb, upTo)
<1>1. CASE UNCHANGED vars
  BY <1>1 DEF vars, kept
<1>2. CASE Launch \/ Ready \/ StartupFails \/ Kill
  BY <1>2 DEF Launch, Ready, StartupFails, Kill, kept
<1>3. CASE Report \/ HandleAuth \/ SplashTimeout \/ WriteLands
  BY <1>3 DEF Report, HandleAuth, SplashTimeout, WriteLands, kept
<1>4. CASE SignOut \/ Revoke
  BY <1>4 DEF SignOut, Revoke
<1>5. CASE SignIn
  BY <1>5 DEF SignIn, PassScreen, SendCode, LateVerify, SignsIn, TypeCode,
     Submit, Render, VerifyFails, Resend, BackToPhone, VerifyOk, OtpStep, kept
<1>6. CASE Onboarding
  <2>1. CASE Finish
    BY <2>1 DEF Finish, All
  <2>2. ASSUME NEW upTo \in 1..All, FinishFails(upTo) \/ FinishDies(upTo)
        PROVE  Creatable(fb) /\ Seeded(fb, upTo)
    BY <2>2 DEF FinishFails, FinishDies
  <2> QED BY <1>6, <2>1, <2>2 DEF Onboarding, All
<1>7. CASE SyncCycle \/ BackgroundSync \/ Refresh \/ Tick \/ \E u \in Users : Grant(u)
  BY <1>7 DEF SyncCycle, BackgroundSync, Refresh, Tick, Grant, kept
<1> QED BY <1>1, <1>2, <1>3, <1>4, <1>5, <1>6, <1>7 DEF Next

\* handleFinish (ServicesStep.tsx:109): cut short or retried, it inserts the
\* owner and the default services of a salon at most once on an install.
THEOREM SeedsOnce == Spec => []SeededOnce
<1>1. Init => SeedInv
  BY DEF Init, SeedInv
<1>2. SeedInv /\ [Next]_vars => SeedInv'
  <2> SUFFICES ASSUME SeedInv, [Next]_vars PROVE SeedInv'
    OBVIOUS
  <2>1. CASE UNCHANGED <<salons, seeded>>
    BY <2>1 DEF SeedInv
  <2>2. CASE Wipe
    BY <2>2 DEF Wipe, SeedInv
  <2>3. ASSUME NEW upTo \in 1..All, Creatable(fb), Seeded(fb, upTo)
        PROVE  SeedInv'
    <3>1. fb \in Users => seeded'[fb] = seeded[fb] \/ seeded'[fb] = seeded[fb] + 1
      <4>1. CASE upTo >= 2
        BY <2>3, <4>1 DEF Seeded, SeedInv
      <4>2. CASE ~(upTo >= 2)
        BY <2>3, <4>2 DEF Seeded, SeedInv
      <4> QED BY <4>1, <4>2
    <3>2. /\ seeded' \in [Users -> Nat]
          /\ \A u \in Users : u # fb => seeded'[u] = seeded[u]
      <4>1. CASE upTo >= 2
        <5>1. seeded' = [seeded EXCEPT ![fb] = seeded[fb] + 1]
          BY <2>3, <4>1 DEF Seeded
        <5>2. seeded \in [Users -> Nat]
          BY DEF SeedInv
        <5>3. seeded' \in [Users -> Nat]
          <6>1. CASE fb \in Users
            <7>1. seeded[fb] + 1 \in Nat
              BY <5>2, <6>1
            <7> QED BY <5>1, <5>2, <7>1
          <6>2. CASE fb \notin Users
            BY <5>1, <5>2, <6>2
          <6> QED BY <6>1, <6>2
        <5>4. \A u \in Users : u # fb => seeded'[u] = seeded[u]
          BY <5>1, <5>2
        <5> QED BY <5>3, <5>4
      <4>2. CASE ~(upTo >= 2)
        BY <2>3, <4>2 DEF Seeded, SeedInv
      <4> QED BY <4>1, <4>2
    <3>3. fb \notin salons /\ salons' = salons \cup {fb}
      BY <2>3 DEF Creatable, Seeded
    <3> QED BY <3>1, <3>2, <3>3 DEF SeedInv
  <2> QED BY <2>1, <2>2, <2>3, SeedEffects
<1>3. SeedInv => SeededOnce
  BY DEF SeedInv, SeededOnce
<1> QED BY <1>1, <1>2, <1>3, PTL DEF Spec

(***************************************************************************)
(* The form of the code keeps its fields.                                  *)
(***************************************************************************)
Otp == [who : Users \cup {None}, code : Codes, busy : BOOLEAN,
        seen : BOOLEAN, sent : Codes, flight : Nat]
OtpInv == otp \in Otp

LEMMA OtpFields ==
  ASSUME NEW o \in Otp, NEW c \in Codes, NEW t \in Codes, NEW n \in Nat,
         NEW b \in BOOLEAN
  PROVE  /\ [o EXCEPT !.code = c, !.sent = t] \in Otp
         /\ [o EXCEPT !.sent = t, !.busy = TRUE, !.flight = n] \in Otp
         /\ [o EXCEPT !.seen = b] \in Otp
         /\ [o EXCEPT !.busy = FALSE, !.flight = n] \in Otp
         /\ [o EXCEPT !.code = c, !.sent = t, !.seen = b] \in Otp
         /\ [o EXCEPT !.flight = n] \in Otp
  BY DEF Otp

\* Every other action keeps the form or leaves its screen.
LEMMA OtpEffects ==
  ASSUME [Next]_vars
  PROVE  \/ otp' = otp \/ otp' = NoOtp
         \/ \E u \in Users : SendCode(u)
         \/ \E c \in Codes : TypeCode(c)
         \/ Submit \/ Render \/ VerifyFails \/ Resend \/ VerifyOk
<1>1. CASE UNCHANGED vars
  BY <1>1 DEF vars, verifying
<1>2. CASE Launch \/ Ready \/ StartupFails \/ Kill \/ Wipe
  BY <1>2 DEF Launch, Ready, StartupFails, Kill, Down, Wipe, verifying
<1>3. ASSUME NEW u, NEW R, SignedOut \/ LetIn(u, R) \/ NotOnboarded(u, R)
      PROVE  otp' = otp \/ otp' = NoOtp
  BY <1>3 DEF SignedOut, LetIn, NotOnboarded, Routed, verifying
<1>4. CASE Report \/ SplashTimeout \/ WriteLands \/ SignOut \/ Revoke
  BY <1>4 DEF Report, SplashTimeout, WriteLands, SignOut, Revoke, verifying
<1>5. CASE HandleAuth
  BY <1>3, <1>5 DEF HandleAuth, Resolve
<1>6. CASE SignIn
  BY <1>6 DEF SignIn, PassScreen, LateVerify, BackToPhone, verifying
<1>7. CASE Onboarding
  <2>1. CASE Finish
    BY <1>3, <2>1 DEF Finish
  <2>2. ASSUME NEW upTo \in 1..All, FinishFails(upTo) \/ FinishDies(upTo)
        PROVE  otp' = otp \/ otp' = NoOtp
    BY <2>2 DEF FinishFails, FinishDies, Down, verifying
  <2> QED BY <1>7, <2>1, <2>2 DEF Onboarding, All
<1>8. CASE SyncCycle \/ BackgroundSync \/ Refresh \/ Tick \/ \E u \in Users : Grant(u)
  BY <1>8 DEF SyncCycle, BackgroundSync, Refresh, Tick, Grant, verifying
<1> QED BY <1>1, <1>2, <1>4, <1>5, <1>6, <1>7, <1>8 DEF Next

LEMMA OtpInvHolds == Spec => []OtpInv
<1>0. NoOtp \in Otp
  BY DEF NoOtp, Otp, Codes
<1>1. Init => OtpInv
  BY <1>0 DEF Init, OtpInv
<1>2. OtpInv /\ [Next]_vars => OtpInv'
  <2> SUFFICES ASSUME OtpInv, [Next]_vars PROVE OtpInv'
    OBVIOUS
  <2>0. /\ otp \in Otp /\ "" \in Codes /\ otp.code \in Codes /\ otp.sent \in Codes
        /\ otp.busy \in BOOLEAN
    BY DEF OtpInv, Otp, Codes
  <2>00. /\ otp.flight + 1 \in Nat
         /\ otp.flight > 0 => otp.flight - 1 \in Nat
    <3>1. otp.flight \in Nat
      BY DEF OtpInv, Otp
    <3> QED BY <3>1
  <2>1. CASE otp' = otp \/ otp' = NoOtp
    BY <1>0, <2>1 DEF OtpInv
  <2>2. ASSUME NEW u \in Users, SendCode(u) PROVE OtpInv'
    <3>1. otp' = [NoOtp EXCEPT !.who = u]
      BY <2>2 DEF SendCode
    <3> QED BY <1>0, <3>1 DEF OtpInv, Otp
  <2>3. ASSUME NEW c \in Codes, TypeCode(c) PROVE OtpInv'
    <3> DEFINE t == IF c = otp.sent THEN otp.sent ELSE ""
    <3>1. otp' = [otp EXCEPT !.code = c, !.sent = t]
      BY <2>3 DEF TypeCode, OtpStep
    <3>2. t \in Codes
      BY <2>0
    <3> HIDE DEF t
    <3> QED BY <2>0, <3>1, <3>2, OtpFields DEF OtpInv
  <2>4. CASE Submit
    <3>1. otp' = [otp EXCEPT !.sent = otp.code, !.busy = TRUE,
                             !.flight = otp.flight + 1]
      BY <2>4 DEF Submit, OtpStep
    <3> QED BY <2>0, <2>00, <3>1, OtpFields DEF OtpInv
  <2>5. CASE Render
    <3>1. otp' = [otp EXCEPT !.seen = otp.busy]
      BY <2>5 DEF Render, OtpStep
    <3> QED BY <2>0, <3>1, OtpFields DEF OtpInv
  <2>6. CASE VerifyFails
    <3>1. otp.flight > 0
          /\ otp' = [otp EXCEPT !.busy = FALSE, !.flight = otp.flight - 1]
      BY <2>6 DEF VerifyFails, OtpStep
    <3> QED BY <2>0, <2>00, <3>1, OtpFields DEF OtpInv
  <2>7. CASE Resend
    <3>1. otp' = [otp EXCEPT !.code = "", !.sent = "", !.seen = otp.busy]
      BY <2>7 DEF Resend
    <3> QED BY <2>0, <3>1, OtpFields DEF OtpInv
  <2>8. CASE VerifyOk
    <3>1. otp.flight > 0 /\ otp' = [otp EXCEPT !.flight = otp.flight - 1]
      BY <2>8 DEF VerifyOk
    <3> QED BY <2>0, <2>00, <3>1, OtpFields DEF OtpInv
  <2> QED BY <2>1, <2>2, <2>3, <2>4, <2>5, <2>6, <2>7, <2>8, OtpEffects
<1> QED BY <1>1, <1>2, PTL DEF Spec

(***************************************************************************)
(* The session.  What Firebase has is what was reported last, handled or   *)
(* not, and what is stored is what was last asked for, carried out or not. *)
(***************************************************************************)
Nobody == Users \cup {None}
Auth == [status : {"loading", "signed-out", "signed-in", "signed-in-no-salon"},
         user : Nobody, salon : Nobody]
LastOr(q, x) == IF q = <<>> THEN x ELSE q[Len(q)]

LEMMA LastOfAppend ==
  ASSUME NEW S, NEW q \in Seq(S), NEW x \in S, NEW y
  PROVE  /\ Append(q, x) \in Seq(S) /\ Append(q, x) # <<>>
         /\ LastOr(Append(q, x), y) = x
  BY DEF LastOr

LEMMA LastOfTail ==
  ASSUME NEW S, NEW q \in Seq(S), q # <<>>, NEW y
  PROVE  /\ Tail(q) \in Seq(S) /\ Head(q) \in S
         /\ LastOr(Tail(q), Head(q)) = LastOr(q, y)
<1>1. /\ Len(q) \in Nat \ {0} /\ Tail(q) \in Seq(S) /\ Head(q) = q[1]
      /\ Head(q) \in S /\ Len(Tail(q)) = Len(q) - 1
      /\ \A i \in 1..(Len(q) - 1) : Tail(q)[i] = q[i + 1]
  BY EmptySeq, HeadTailProperties
<1>0. /\ \A t \in Seq(S) : t # <<>> => Len(t) \in Nat \ {0}
      /\ Len(<<>>) = 0
  BY EmptySeq
<1>2. CASE Len(q) = 1
  <2>1. Tail(q) = <<>>
    <3>1. Len(Tail(q)) = 0
      BY <1>1, <1>2
    <3> QED BY <1>0, <1>1, <3>1
  <2> QED BY <1>1, <1>2, <2>1 DEF LastOr
<1>3. CASE Len(q) # 1
  <2>1. Tail(q) # <<>> /\ Len(Tail(q)) \in 1..(Len(q) - 1)
    <3>1. Len(Tail(q)) # 0 /\ Len(Tail(q)) \in 1..(Len(q) - 1)
      BY <1>1, <1>3
    <3> QED BY <1>0, <3>1
  <2>2. Tail(q)[Len(Tail(q))] = q[Len(q)]
    BY <1>1, <2>1
  <2> QED BY <1>1, <2>1, <2>2 DEF LastOr
<1> QED BY <1>2, <1>3

SessionTypes ==
  /\ fb \in Nobody /\ salons \subseteq Users /\ app \in Auth
  /\ events \in Seq(Nobody) /\ writes \in Seq(Nobody)
Serves ==
  /\ sync = current /\ backup = current
  /\ IF app.status = "signed-in"
     THEN current # None /\ current = app.salon /\ current = app.user
     ELSE current = None
\* `reported` only while the process is up.
Reported == reported
UpReported == Reported => phase = "up"
Follows ==
  Reported => /\ LastOr(events, app.user) = fb
              /\ events = <<>> => LastOr(writes, stored) = current
SessionInv == SessionTypes /\ Serves /\ UpReported /\ Follows

\* Nothing of the session changes.
LEMMA SessionStays ==
  ASSUME SessionInv,
         UNCHANGED <<app, current, sync, backup, events, writes, fb, stored,
                     salons, reported>>,
         Reported => phase' = "up"
  PROVE  SessionInv'
  BY DEF SessionInv, SessionTypes, Serves, UpReported, Reported, Follows

\* Firebase has another user, and will say so.
LEMMA SessionHears ==
  ASSUME SessionInv, NEW u \in Nobody, fb' = u, events' = Append(events, u),
         UNCHANGED <<app, current, sync, backup, writes, stored, salons,
                     reported, phase>>
  PROVE  SessionInv'
<1>1. /\ events' \in Seq(Nobody) /\ events' # <<>>
      /\ LastOr(events', app.user) = u
  BY LastOfAppend DEF SessionInv, SessionTypes
<1> QED BY <1>1 DEF SessionInv, SessionTypes, Serves, UpReported, Reported, Follows

\* The process is gone.
LEMMA SessionGone ==
  ASSUME SessionInv, Down, fb' = fb, salons' \subseteq Users
  PROVE  SessionInv'
<1>1. SessionTypes'
  BY EmptySeq DEF SessionInv, SessionTypes, Down, Loading, Auth, Nobody
<1>2. Serves' /\ ~Reported'
  BY DEF Down, Loading, Serves, Reported
<1> QED BY <1>1, <1>2 DEF SessionInv, UpReported, Follows

LEMMA SessionPreserved ==
  ASSUME SessionInv, OtpInv, [Next]_vars
  PROVE  SessionInv'
<1>1. CASE UNCHANGED vars
  <2>1. UNCHANGED <<app, current, sync, backup, events, writes, fb, stored,
                    salons, reported, phase>>
    BY <1>1 DEF vars, kept, session, pending
  <2> QED BY <2>1, SessionStays DEF SessionInv, UpReported
<1>2. CASE Launch \/ Ready \/ StartupFails
  <2>1. /\ UNCHANGED <<app, current, sync, backup, events, writes, fb, stored,
                       salons, reported>>
        /\ phase # "up"
    BY <1>2 DEF Launch, Ready, StartupFails, kept, session, pending
  <2> QED BY <2>1, SessionStays DEF SessionInv, UpReported
<1>3. CASE Kill
  <2>1. Down /\ fb' = fb /\ salons' = salons
    BY <1>3 DEF Kill, kept
  <2> QED BY <2>1, SessionGone DEF SessionInv, SessionTypes
<1>4. CASE Wipe
  <2>1. /\ phase = "down" /\ fb' \in Nobody /\ salons' = {}
        /\ UNCHANGED <<app, current, sync, backup, events, writes, reported, phase>>
    BY <1>4 DEF Wipe, session, pending, SessionInv, SessionTypes, Nobody
  <2>2. ~Reported /\ ~Reported'
    BY <2>1 DEF SessionInv, UpReported, Reported
  <2> QED BY <2>1, <2>2 DEF SessionInv, SessionTypes, Serves, UpReported, Follows
<1>5. CASE Report
  <2>1. /\ events' = Append(events, fb) /\ phase = "up"
        /\ UNCHANGED <<app, current, sync, backup, writes, fb, stored, salons,
                       phase>>
    BY <1>5 DEF Report, kept, session
  <2>2. /\ events' \in Seq(Nobody) /\ events' # <<>>
        /\ LastOr(events', app.user) = fb
    BY <2>1, LastOfAppend DEF SessionInv, SessionTypes
  <2> QED BY <2>1, <2>2 DEF SessionInv, SessionTypes, Serves, UpReported, Follows
<1>6. CASE HandleAuth
  <2> DEFINE u == Head(events)
  <2>1. /\ phase = "up" /\ events # <<>> /\ events' = Tail(events) /\ Resolve(u)
        /\ UNCHANGED <<fb, stored, salons, phase, reported>>
    BY <1>6 DEF HandleAuth
  <2>2. /\ events' \in Seq(Nobody) /\ u \in Nobody
        /\ LastOr(events', u) = LastOr(events, app.user)
    BY <2>1, LastOfTail DEF SessionInv, SessionTypes
  <2>3. /\ app' \in Auth /\ app'.user = u /\ Serves'
        /\ writes' = Append(writes, current') /\ current' \in Nobody
    <3> HIDE DEF u
    <3>1. \/ SignedOut /\ u = None
          \/ LetIn(u, rows) /\ u # None
          \/ NotOnboarded(u, rows)
      BY <2>1 DEF Resolve
    <3> QED BY <2>2, <3>1 DEF SignedOut, LetIn, NotOnboarded, Auth, Serves, Nobody
  <2>4. writes' \in Seq(Nobody) /\ LastOr(writes', stored) = current'
    BY <2>3, LastOfAppend DEF SessionInv, SessionTypes
  <2> HIDE DEF u
  <2> QED BY <2>1, <2>2, <2>3, <2>4
         DEF SessionInv, SessionTypes, UpReported, Reported, Follows
<1>7. CASE SplashTimeout
  <2>1. /\ UNCHANGED <<current, sync, backup, events, writes, fb, stored, salons,
                       reported, phase>>
        /\ app' = IF app.status = "loading" THEN [app EXCEPT !.status = "signed-out"]
                  ELSE app
    BY <1>7 DEF SplashTimeout, kept
  <2>2. /\ app' \in Auth /\ app'.user = app.user /\ app'.salon = app.salon
        /\ app'.status = "signed-in" <=> app.status = "signed-in"
    BY <2>1 DEF SessionInv, SessionTypes, Auth
  <2> QED BY <2>1, <2>2 DEF SessionInv, SessionTypes, Serves, UpReported,
             Reported, Follows
<1>8. CASE WriteLands
  <2>1. /\ writes # <<>> /\ stored' = Head(writes) /\ writes' = Tail(writes)
        /\ UNCHANGED <<app, current, sync, backup, events, fb, salons, reported,
                       phase>>
    BY <1>8 DEF WriteLands, session
  <2>2. writes' \in Seq(Nobody) /\ LastOr(writes', stored') = LastOr(writes, stored)
    BY <2>1, LastOfTail DEF SessionInv, SessionTypes
  <2> QED BY <2>1, <2>2 DEF SessionInv, SessionTypes, Serves, UpReported,
             Reported, Follows
<1>9. CASE SignOut \/ Revoke
  <2>1. /\ fb' = None /\ events' = Append(events, None)
        /\ UNCHANGED <<app, current, sync, backup, writes, stored, salons,
                       reported, phase>>
    BY <1>9 DEF SignOut, Revoke, session
  <2> QED BY <2>1, SessionHears DEF Nobody
<1>10. CASE SignIn
  <2>1. ASSUME NEW u \in Nobody, SignsIn(u) PROVE SessionInv'
    <3>1. /\ fb' = u /\ events' = Append(events, u)
          /\ UNCHANGED <<app, current, sync, backup, writes, stored, salons,
                         reported, phase>>
      BY <2>1 DEF SignsIn, session
    <3> QED BY <3>1, SessionHears
  <2>2. ASSUME UNCHANGED <<app, current, sync, backup, events, writes, fb,
                           stored, salons, reported, phase>>
        PROVE  SessionInv'
    BY <2>2, SessionStays DEF SessionInv, UpReported
  <2>3. CASE PassScreen("language", "tour") \/ PassScreen("tour", "phone")
    BY <2>2, <2>3 DEF PassScreen, pending
  <2>4. ASSUME NEW u \in Users, SendCode(u) PROVE SessionInv'
    BY <2>2, <2>4 DEF SendCode, kept, pending
  <2>5. ASSUME NEW u \in Users, LateVerify(u) PROVE SessionInv'
    <3>1. CASE SignsIn(u)
      BY <2>1, <3>1 DEF Nobody
    <3>2. CASE UNCHANGED <<kept, phase, session, pending>>
      BY <2>2, <3>2 DEF kept, session, pending
    <3> QED BY <2>5, <3>1, <3>2 DEF LateVerify
  <2>6. ASSUME NEW o, OtpStep(o) PROVE SessionInv'
    BY <2>2, <2>6 DEF OtpStep, kept, session, pending
  <2>7. CASE (\E c \in Codes : TypeCode(c)) \/ Render \/ VerifyFails
    BY <2>6, <2>7 DEF TypeCode, Render, VerifyFails
  <2>8. CASE Submit \/ Resend \/ BackToPhone
    BY <2>2, <2>8 DEF Submit, Resend, BackToPhone, kept, session, pending
  <2>9. CASE VerifyOk
    <3>1. otp.who \in Nobody
      BY DEF OtpInv, Otp, Nobody
    <3> QED BY <2>1, <2>9, <3>1 DEF VerifyOk
  <2> QED BY <1>10, <2>3, <2>4, <2>5, <2>7, <2>8, <2>9 DEF SignIn
<1>11. CASE Finish
  <2> DEFINE u == app.user
             R == [rows EXCEPT ![fb] = Bootstrapped(@)]
  <2>1. /\ phase = "up" /\ fb # None /\ Seeded(fb, All)
        /\ IF u \in salons' THEN LetIn(u, R) ELSE NotOnboarded(u, R)
        /\ UNCHANGED <<fb, stored, phase, events, reported>>
    BY <1>11 DEF Finish
  <2>2. salons' \subseteq Users /\ u \in Nobody
    BY <2>1 DEF Seeded, SessionInv, SessionTypes, Auth, Nobody
  <2>3. /\ app' \in Auth /\ app'.user = u /\ Serves'
        /\ writes' = Append(writes, current') /\ current' \in Nobody
    <3> HIDE DEF u, R
    <3>1. (LetIn(u, R) /\ u # None) \/ NotOnboarded(u, R)
      BY <2>1, <2>2, UsersAssumption
    <3> QED BY <2>2, <3>1 DEF LetIn, NotOnboarded, Auth, Serves, Nobody
  <2>4. writes' \in Seq(Nobody) /\ LastOr(writes', stored) = current'
    BY <2>3, LastOfAppend DEF SessionInv, SessionTypes
  <2>5. LastOr(events, app'.user) = LastOr(events, app.user)
    BY <2>3
  <2> QED BY <2>1, <2>2, <2>3, <2>4, <2>5
         DEF SessionInv, SessionTypes, UpReported, Reported, Follows
<1>12. ASSUME NEW upTo \in 1..All, FinishFails(upTo) PROVE SessionInv'
  <2>1. /\ salons' \subseteq Users
        /\ UNCHANGED <<app, current, sync, backup, events, writes, fb, stored,
                       reported, phase>>
    BY <1>12 DEF FinishFails, Seeded, session, pending, SessionInv,
       SessionTypes, Nobody
  <2> QED BY <2>1 DEF SessionInv, SessionTypes, Serves, UpReported, Reported, Follows
<1>13. ASSUME NEW upTo \in 1..All, FinishDies(upTo) PROVE SessionInv'
  <2>1. Down /\ fb' = fb /\ salons' \subseteq Users
    BY <1>13 DEF FinishDies, Seeded, SessionInv, SessionTypes, Nobody
  <2> QED BY <2>1, SessionGone
<1>14. CASE SyncCycle \/ BackgroundSync \/ Refresh \/ Tick \/ \E u \in Users : Grant(u)
  <2>1. UNCHANGED <<app, current, sync, backup, events, writes, fb, stored,
                    salons, reported, phase>>
    BY <1>14 DEF SyncCycle, BackgroundSync, Refresh, Tick, Grant, kept, session,
       pending
  <2> QED BY <2>1, SessionStays DEF SessionInv, UpReported
<1>15. CASE Onboarding
  BY <1>11, <1>12, <1>13, <1>15 DEF Onboarding, All
<1> QED BY <1>1, <1>2, <1>3, <1>4, <1>5, <1>6, <1>7, <1>8, <1>9, <1>10, <1>14,
           <1>15 DEF Next

LEMMA SessionInvHolds == Spec => []SessionInv
<1>1. Init => SessionInv
  <2> SUFFICES ASSUME Init PROVE SessionInv
    OBVIOUS
  <2>1. SessionTypes
    BY EmptySeq DEF Init, SessionTypes, Loading, Auth, Nobody
  <2>2. Serves /\ ~Reported
    BY DEF Init, Loading, Serves, Reported
  <2> QED BY <2>1, <2>2 DEF SessionInv, UpReported, Follows
<1>2. SessionInv /\ OtpInv /\ [Next]_vars => SessionInv'
  BY SessionPreserved
<1> QED BY <1>1, <1>2, OtpInvHolds, PTL DEF Spec

\* AuthProvider.tsx: what runs and the salon every query reads are those of
\* the session, and the session is that of the user Firebase has once it has
\* been told, in whatever order sign-ins, sign-outs, late verifications,
\* timeouts, onboardings and kills come.
THEOREM SessionIsServed == Spec => []SessionOnly
<1>1. SessionInv => SessionOnly
  BY DEF SessionInv, Serves, Follows, Reported, LastOr, SessionOnly
<1> QED BY <1>1, SessionInvHolds, PTL

\* session-storage.ts: once the calls made are carried out, the salon that
\* background work finds is that of the session.
THEOREM StoredIsCurrent == Spec => []StoredFollowsSession
<1>1. SessionInv => StoredFollowsSession
  BY DEF SessionInv, Follows, Reported, LastOr, StoredFollowsSession
<1> QED BY <1>1, SessionInvHolds, PTL

(***************************************************************************)
(* The windows of a salon.  The latest of them exists because the rows of  *)
(* a salon grow by one window or by those of another such set.             *)
(***************************************************************************)
Row == [kind : {"trial", "paid"}, born : Nat, end : Nat, grace : Nat]
Sound(r) == r.grace = r.end + (IF r.kind = "trial" THEN 0 ELSE GraceDays)
Over(r, q) == r.end > q.end \/ (r.end = q.end /\ r.born >= q.born)
Ranked(R) ==
  /\ R \subseteq Row /\ \A r \in R : Sound(r)
  /\ R # {} => \E r \in R : \A q \in R : Over(r, q)

LEMMA OverAll ==
  ASSUME NEW r \in Row, NEW q \in Row
  PROVE  /\ Over(r, r) /\ (Over(r, q) \/ Over(q, r))
         /\ \A p \in Row : Over(r, q) /\ Over(q, p) => Over(r, p)
  BY DEF Row, Over

LEMMA RankedUnion ==
  ASSUME NEW R, NEW Q, Ranked(R), Ranked(Q)
  PROVE  Ranked(R \cup Q)
<1>1. R \cup Q \subseteq Row /\ \A r \in R \cup Q : Sound(r)
  BY DEF Ranked
<1>2. ASSUME R # {}, Q # {}
      PROVE  \E r \in R \cup Q : \A q \in R \cup Q : Over(r, q)
  <2>1. PICK r \in R : \A q \in R : Over(r, q)
    BY <1>2 DEF Ranked
  <2>2. PICK p \in Q : \A q \in Q : Over(p, q)
    BY <1>2 DEF Ranked
  <2>3. r \in Row /\ p \in Row
    BY <1>1
  <2>4. CASE Over(r, p)
    <3>1. \A q \in Q : Over(r, q)
      BY <1>1, <2>2, <2>3, <2>4, OverAll
    <3> QED BY <2>1, <3>1
  <2>5. CASE Over(p, r)
    <3>1. \A q \in R : Over(p, q)
      BY <1>1, <2>1, <2>3, <2>5, OverAll
    <3> QED BY <2>2, <3>1
  <2> QED BY <2>3, <2>4, <2>5, OverAll
<1>3. CASE R = {} \/ Q = {}
  BY <1>3 DEF Ranked
<1> QED BY <1>1, <1>2, <1>3 DEF Ranked

LEMMA WindowRanked ==
  ASSUME now \in Nat, NEW kind \in {"trial", "paid"}, NEW start \in Nat
  PROVE  Ranked({Window(kind, start)})
<1> DEFINE w == Window(kind, start)
<1>1. w \in Row /\ Sound(w)
  BY DaysAssumption DEF Window, Row, Sound
<1> HIDE DEF w
<1>2. Over(w, w)
  BY <1>1, OverAll
<1> QED BY <1>1, <1>2 DEF Ranked, w

LEMMA LatestFacts ==
  ASSUME NEW R, Ranked(R), R # {}
  PROVE  Latest(R) \in R /\ \A q \in R : Over(Latest(R), q)
  BY DEF Ranked, Latest, Over

LEMMA BootstrappedRanked ==
  ASSUME now \in Nat, NEW R, Ranked(R)
  PROVE  Ranked(Bootstrapped(R))
  BY WindowRanked DEF Bootstrapped

LEMMA GrantedRanked ==
  ASSUME now \in Nat, NEW R, Ranked(R), R # {}
  PROVE  Ranked(Granted(R))
<1> DEFINE start == IF Lifecycle(R) \in Unlocked THEN Latest(R).end ELSE now
<1>1. start \in Nat
  <2>1. Latest(R) \in Row
    BY LatestFacts DEF Ranked
  <2> QED BY <2>1 DEF Row
<1> HIDE DEF start
<1>2. Ranked(R \cup {Window("paid", start)})
  BY <1>1, WindowRanked, RankedUnion
<1> QED BY <1>2 DEF Granted, start

AllRanked(f) == f \in [Users -> SUBSET Row] /\ \A u \in Users : Ranked(f[u])
WindowInv == AllRanked(rows) /\ AllRanked(cloud) /\ now \in Nat

LEMMA OneSalon ==
  ASSUME NEW f, AllRanked(f), NEW x, NEW R, x \in Users => Ranked(R)
  PROVE  AllRanked([f EXCEPT ![x] = R])
<1> DEFINE g == [f EXCEPT ![x] = R]
<1>1. CASE x \in Users
  <2>1. R \subseteq Row
    BY <1>1 DEF Ranked
  <2>2. g \in [Users -> SUBSET Row]
    BY <1>1, <2>1 DEF AllRanked
  <2>3. \A u \in Users : g[u] = IF u = x THEN R ELSE f[u]
    BY <1>1 DEF AllRanked
  <2> QED BY <1>1, <2>2, <2>3 DEF AllRanked
<1>2. CASE x \notin Users
  <2>1. g = f
    BY <1>2 DEF AllRanked
  <2> QED BY <2>1
<1> QED BY <1>1, <1>2

LEMMA BootstrappedSalon ==
  ASSUME now \in Nat, NEW f, AllRanked(f), NEW x
  PROVE  AllRanked([f EXCEPT ![x] = Bootstrapped(@)])
<1>1. x \in Users => Ranked(Bootstrapped(f[x]))
  BY BootstrappedRanked DEF AllRanked
<1> QED BY <1>1, OneSalon

\* The rows of the phone change when the trial is given, by an exchange with
\* the cloud, and when the install is wiped; those of the cloud by an exchange
\* and by a grant.
LEMMA RowEffects ==
  ASSUME WindowInv, [Next]_vars
  PROVE  WindowInv'
<1>0. /\ AllRanked(rows) /\ AllRanked(cloud) /\ now \in Nat
      /\ \A f, x : AllRanked(f) => AllRanked([f EXCEPT ![x] = Bootstrapped(@)])
  BY BootstrappedSalon DEF WindowInv
<1>1. ASSUME UNCHANGED <<rows, cloud>>, now' = now \/ now' = now + 1
      PROVE  WindowInv'
  BY <1>1 DEF WindowInv, AllRanked
<1>2. ASSUME AllRanked(rows'), cloud' = cloud, now' = now
      PROVE  WindowInv'
  BY <1>2 DEF WindowInv
<1>3. CASE UNCHANGED vars
  BY <1>1, <1>3 DEF vars, kept
<1>4. CASE Launch \/ Ready \/ StartupFails \/ Kill
  BY <1>1, <1>4 DEF Launch, Ready, StartupFails, Kill, kept
<1>5. CASE Wipe
  <2>1. rows' = [u \in Users |-> {}] /\ cloud' = cloud /\ now' = now
    BY <1>5 DEF Wipe
  <2>2. AllRanked(rows')
    BY <2>1 DEF AllRanked, Ranked
  <2> QED BY <1>2, <2>1, <2>2
<1>6. CASE Report \/ SplashTimeout \/ WriteLands \/ SignOut \/ Revoke
  BY <1>1, <1>6 DEF Report, SplashTimeout, WriteLands, SignOut, Revoke, kept
<1>7. CASE HandleAuth
  <2>1. /\ cloud' = cloud /\ now' = now
        /\ rows' = rows
           \/ rows' = [rows EXCEPT ![Head(events)] = Bootstrapped(@)]
    BY <1>7 DEF HandleAuth, Resolve, SignedOut, LetIn, NotOnboarded
  <2>2. AllRanked(rows')
    BY <1>0, <2>1
  <2> QED BY <1>2, <2>1, <2>2
<1>8. CASE SignIn
  BY <1>1, <1>8 DEF SignIn, PassScreen, SendCode, LateVerify, SignsIn, TypeCode,
     Submit, Render, VerifyFails, Resend, BackToPhone, VerifyOk, OtpStep, kept
<1>9. CASE Finish
  <2> DEFINE R == [rows EXCEPT ![fb] = Bootstrapped(@)]
  <2>1. AllRanked(R)
    BY <1>0
  <2>2. /\ cloud' = cloud /\ now' = now
        /\ rows' = R \/ rows' = [R EXCEPT ![app.user] = Bootstrapped(@)]
    BY <1>9 DEF Finish, LetIn, NotOnboarded
  <2> HIDE DEF R
  <2>3. AllRanked(rows')
    BY <1>0, <2>1, <2>2
  <2> QED BY <1>2, <2>2, <2>3
<1>10. ASSUME NEW upTo \in 1..All, FinishFails(upTo) PROVE WindowInv'
  BY <1>1, <1>10 DEF FinishFails
<1>11. ASSUME NEW upTo \in 1..All, FinishDies(upTo) PROVE WindowInv'
  <2>1. cloud' = cloud /\ now' = now
        /\ rows' = [rows EXCEPT ![fb] = IF upTo = All THEN Bootstrapped(@) ELSE @]
    BY <1>11 DEF FinishDies
  <2>2. AllRanked(rows')
    <3>1. CASE upTo = All
      BY <1>0, <2>1, <3>1
    <3>2. CASE upTo # All
      <4>1. rows' = rows
        BY <1>0, <2>1, <3>2 DEF AllRanked
      <4> QED BY <1>0, <4>1
    <3> QED BY <3>1, <3>2
  <2> QED BY <1>2, <2>1, <2>2
<1>12. ASSUME NEW u, Exchange(u), now' = now PROVE WindowInv'
  <2>1. /\ rows' = [rows EXCEPT ![u] = @ \cup cloud[u]]
        /\ cloud' = [cloud EXCEPT ![u] = @ \cup rows[u]]
    BY <1>12 DEF Exchange
  <2>2. u \in Users => Ranked(rows[u] \cup cloud[u]) /\ Ranked(cloud[u] \cup rows[u])
    BY <1>0, RankedUnion DEF AllRanked
  <2>3. AllRanked(rows') /\ AllRanked(cloud')
    BY <1>0, <2>1, <2>2, OneSalon
  <2> QED BY <1>0, <1>12, <2>3 DEF WindowInv
<1>13. CASE SyncCycle \/ BackgroundSync
  BY <1>12, <1>13 DEF SyncCycle, BackgroundSync
<1>14. CASE Refresh
  <2>1. /\ cloud' = cloud /\ now' = now
        /\ rows' = [rows EXCEPT ![app.salon] = Bootstrapped(@)]
    BY <1>14 DEF Refresh
  <2>2. AllRanked(rows')
    BY <1>0, <2>1
  <2> QED BY <1>2, <2>1, <2>2
<1>15. CASE Tick
  BY <1>1, <1>15 DEF Tick, kept
<1>16. ASSUME NEW u \in Users, Grant(u) PROVE WindowInv'
  <2>1. /\ cloud[u] # {} /\ cloud' = [cloud EXCEPT ![u] = Granted(@)]
        /\ rows' = rows /\ now' = now
    BY <1>16 DEF Grant, kept
  <2>2. Ranked(Granted(cloud[u]))
    BY <1>0, <2>1, GrantedRanked DEF AllRanked
  <2>3. AllRanked(cloud')
    BY <1>0, <2>1, <2>2, OneSalon
  <2> QED BY <1>0, <2>1, <2>3 DEF WindowInv
<1>17. CASE Onboarding
  BY <1>9, <1>10, <1>11, <1>17 DEF Onboarding, All
<1> QED BY <1>3, <1>4, <1>5, <1>6, <1>7, <1>8, <1>13, <1>14, <1>15, <1>16, <1>17
       DEF Next

\* evaluate.ts and SubscriptionRepository.getLatest: the one row that is
\* looked at speaks for all: whatever was granted, exchanged, wiped or
\* bootstrapped, an open window unlocks its salon unless another row of it is a
\* trial that ends as late.
THEOREM OpenWindowUnlocks == Spec => []OpenWindowIsHonoured
<1>1. Init => WindowInv
  BY DEF Init, WindowInv, AllRanked, Ranked
<1>2. WindowInv /\ [Next]_vars => WindowInv'
  BY RowEffects
<1>3. WindowInv => OpenWindowIsHonoured
  <2> SUFFICES ASSUME WindowInv, NEW u \in Users, NEW r \in rows[u], now < r.grace,
                      \A t \in rows[u] \ {r} : t.kind = "trial" => t.end < r.end
               PROVE  Lifecycle(rows[u]) \in Unlocked
    BY DEF OpenWindowIsHonoured
  <2> DEFINE R == rows[u]
             l == Latest(R)
  <2>1. Ranked(R) /\ R # {} /\ now \in Nat
    BY DEF WindowInv, AllRanked
  <2>2. l \in R /\ Over(l, r)
    BY <2>1, LatestFacts
  <2>3. l \in Row /\ r \in Row /\ Sound(l) /\ Sound(r)
    BY <2>1, <2>2 DEF Ranked
  <2>4. now < l.grace
    <3>1. CASE l = r
      BY <3>1
    <3>2. CASE l # r
      <4>1. l.kind = "paid" /\ l.end >= r.end
        BY <2>2, <2>3, <3>2 DEF Over, Row
      <4>2. l.grace >= r.grace
        BY <2>3, <4>1, DaysAssumption DEF Sound, Row
      <4> HIDE DEF l
      <4> QED BY <2>1, <2>3, <4>2 DEF Row
    <3> QED BY <3>1, <3>2
  <2>5. Lifecycle(R) \in {"trial", "active", "grace"}
    <3>1. now < l.end \/ now >= l.end
      BY <2>1, <2>3 DEF Row
    <3> QED BY <2>1, <2>4, <3>1 DEF Lifecycle
  <2> QED BY <2>5 DEF Unlocked
<1> QED BY <1>1, <1>2, <1>3, PTL DEF Spec
=============================================================================
