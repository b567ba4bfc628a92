------------------------- MODULE SyncSchedulerProofs -------------------------
(***************************************************************************)
(* Theorems about SyncScheduler, for any number of salons, starts, faults  *)
(* and timers and for batches and drains of any size.                      *)
(***************************************************************************)
EXTENDS SyncScheduler, TLAPS, FiniteSetTheorems

Queues == ready \in [Salons -> Nat] /\ unseen \in [Salons -> BOOLEAN]
Cycles == /\ runs \in [Slots -> Run] /\ current \in Slots \cup {0}
          /\ pending \in Kinds \cup {"none"} /\ drainCount \in 0..MaxDrain
Switches == /\ salon \in Salons \cup {0} /\ app \in AppStates
            /\ online \in BOOLEAN /\ debounce \in BOOLEAN /\ periodic \in BOOLEAN
            /\ timers \in [Kinds -> Nat] /\ resting \in [Salons -> Nat]
Counters == starts \in Nat /\ writes \in Nat /\ faults \in Nat /\ flips \in Nat

LEMMA TypeParts == TypeOK <=> Queues /\ Cycles /\ Switches /\ Counters
  BY DEF TypeOK, Queues, Cycles, Switches, Counters

LEMMA KindFacts ==
  /\ \A trigger : Kind(trigger) \in Kinds
  /\ "none" \notin Kinds
  BY DEF Kind, Kinds

LEMMA LeastFacts ==
  ASSUME NEW m \in Nat, NEW n \in Nat
  PROVE  Least(m, n) \in Nat /\ Least(m, n) <= m /\ Least(m, n) <= n
  BY DEF Least

(***************************************************************************)
(* What a cycle does to the types when it begins, goes on and ends.        *)
(***************************************************************************)
\* The slot of a new cycle was free, and no other slot changes.
Begun(r) ==
  /\ r \in Slots \ Live /\ current' = r /\ Live' = Live \cup {r}

LEMMA BeginEffects ==
  ASSUME TypeOK, NEW r \in Slots \ Live, NEW s \in Salons, NEW kind \in Kinds,
         Begin(r, s, kind)
  PROVE  /\ Queues'
         /\ runs' \in [Slots -> Run] /\ current' \in Slots \cup {0}
         /\ drainCount' \in 0..MaxDrain
         /\ Begun(r) \/ (Live' = Live /\ current' = 0)
<1> DEFINE n == IF Pushing = {} THEN Least(ready[s], Batch) ELSE 0
           pulls == kind = "full" /\ Pulling = {}
           run == [Free EXCEPT !.salon = s, !.kind = kind]
           push == [run EXCEPT !.st = "push", !.claimed = n]
           pull == [run EXCEPT !.st = "pull"]
<1>1. ready[s] \in Nat /\ n \in Nat /\ n <= ready[s]
  <2>1. ready[s] \in Nat /\ Batch \in Nat
    BY LimitsAssumption DEF TypeOK
  <2>2. Least(ready[s], Batch) \in Nat /\ Least(ready[s], Batch) <= ready[s]
    BY <2>1, LeastFacts
  <2> QED BY <2>1, <2>2
<1>2. push \in Run /\ pull \in Run /\ push.st = "push" /\ pull.st = "pull"
  BY <1>1 DEF Run, Free
<1>3. \/ /\ runs' = [runs EXCEPT ![r] = push] /\ current' = r
         /\ ready' = [ready EXCEPT ![s] = @ - n]
         /\ unseen' = unseen /\ drainCount' = drainCount
      \/ /\ runs' = [runs EXCEPT ![r] = pull] /\ current' = r
         /\ unseen' = [unseen EXCEPT ![s] = FALSE]
         /\ ready' = ready /\ drainCount' = drainCount
      \/ /\ current' = 0 /\ drainCount' = 0
         /\ runs' = runs /\ ready' = ready /\ unseen' = unseen
  BY DEF Begin
<1> HIDE DEF n, push, pull
<1>4. Queues'
  <2>1. ready' \in [Salons -> Nat]
    BY <1>1, <1>3 DEF TypeOK
  <2>2. unseen' \in [Salons -> BOOLEAN]
    BY <1>3, Zenon DEF TypeOK
  <2> QED BY <2>1, <2>2 DEF Queues
<1>5. drainCount' \in 0..MaxDrain
  BY <1>3, LimitsAssumption DEF TypeOK
<1>6. ASSUME NEW x \in Run, x.st # "free", runs' = [runs EXCEPT ![r] = x]
      PROVE  runs' \in [Slots -> Run] /\ Live' = Live \cup {r}
  BY <1>6 DEF TypeOK, Live
<1>7. CASE runs' = runs
  BY <1>3, <1>4, <1>5, <1>7, <1>2, <1>6 DEF TypeOK, Live, Begun
<1>8. CASE runs' # runs
  BY <1>2, <1>3, <1>4, <1>5, <1>6, <1>8 DEF Begun
<1> QED BY <1>7, <1>8

\* An attempt is coalesced into the current cycle, does nothing, or begins one.
Attempted ==
  \/ current # 0 /\ Live' = Live /\ current' = current
  \/ current = 0 /\ Live' = Live /\ current' = 0 /\ pending' = pending
  \/ /\ salon # 0 /\ current = 0 /\ pending' = pending
     /\ \E r \in Slots : Begun(r)

LEMMA AttemptEffects ==
  ASSUME TypeOK, NEW kind \in Kinds, Attempt(kind, salon, current)
  PROVE  Queues' /\ Cycles' /\ Attempted
<1>1. CASE current # 0
  <2>1. /\ pending' = kind /\ current' = current
        /\ UNCHANGED <<runs, ready, unseen, drainCount>>
    BY <1>1 DEF Attempt
  <2> QED BY <1>1, <2>1 DEF TypeOK, Queues, Cycles, Attempted, Live
<1>2. CASE UNCHANGED <<pending, runs, ready, unseen, drainCount>> /\ current = 0
           /\ current' = 0
  BY <1>2 DEF TypeOK, Queues, Cycles, Attempted, Live
<1>3. ASSUME current = 0, salon # 0, NEW r \in NextSlot, Begin(r, salon, kind),
             pending' = pending
      PROVE  Queues' /\ Cycles' /\ Attempted
  <2>1. r \in Slots \ Live /\ salon \in Salons
    BY <1>3 DEF NextSlot, TypeOK
  <2>2. /\ Queues'
        /\ runs' \in [Slots -> Run] /\ current' \in Slots \cup {0}
        /\ drainCount' \in 0..MaxDrain
        /\ Begun(r) \/ (Live' = Live /\ current' = 0)
    BY <1>3, <2>1, BeginEffects
  <2> QED BY <1>3, <2>1, <2>2 DEF TypeOK, Cycles, Attempted
<1> QED BY <1>1, <1>2, <1>3 DEF Attempt

\* The end of a cycle frees its slot and nobody is tracked.
Ended(r) ==
  r \in Live /\ Live' = Live \ {r} /\ current' = 0 /\ pending' = "none"

LEMMA FinishEffects ==
  ASSUME TypeOK, NEW r \in Live, NEW more \in BOOLEAN, Finish(r, more)
  PROVE  Cycles' /\ timers' \in [Kinds -> Nat] /\ Ended(r)
<1> DEFINE drains == more /\ drainCount < MaxDrain
           due == [k \in Kinds |-> timers[k]
                     + (IF k = Kind("drain") /\ drains THEN 1 ELSE 0)
                     + (IF k = pending THEN 1 ELSE 0)]
<1>1. /\ runs' = [runs EXCEPT ![r] = Free]
      /\ drainCount' = IF drains THEN drainCount + 1 ELSE 0
      /\ timers' = [k \in Kinds |-> Least(due[k], MaxTimers)]
      /\ current' = 0 /\ pending' = "none"
  BY DEF Finish
<1>2. Free \in Run /\ Free.st = "free"
  BY DEF Free, Run
<1>3. runs' \in [Slots -> Run] /\ Live' = Live \ {r}
  BY <1>1, <1>2 DEF TypeOK, Live
<1>4. drainCount' \in 0..MaxDrain
  BY <1>1, LimitsAssumption DEF TypeOK
<1>5. timers' \in [Kinds -> Nat]
  <2>1. ASSUME NEW k \in Kinds PROVE Least(due[k], MaxTimers) \in Nat
    <3>1. timers[k] \in Nat
      BY DEF TypeOK
    <3>2. due[k] \in Nat
      BY <3>1
    <3> QED BY <3>2, LimitsAssumption, LeastFacts
  <2> HIDE DEF due
  <2> QED BY <1>1, <2>1
<1> QED BY <1>1, <1>3, <1>4, <1>5 DEF Cycles, Ended

\* A cycle goes from its push to its pull in its slot.
GoesOn == Live' = Live /\ current' = current /\ pending' = pending

LEMMA OnToPull ==
  ASSUME NEW run \in Run, NEW more \in BOOLEAN
  PROVE  LET x == [run EXCEPT !.st = "pull", !.claimed = 0, !.more = more]
         IN  x \in Run /\ x.st = "pull"
<1>1. 0 \in Nat
  OBVIOUS
<1> QED BY <1>1, Zenon DEF Run

LEMMA PushEffects ==
  ASSUME TypeOK, NEW r \in Slots, NEW fails \in BOOLEAN, PushDone(r, fails)
  PROVE  TypeOK' /\ (GoesOn \/ Ended(r))
<1> DEFINE run == runs[r]
           s == run.salon
           more == ready[s] > 0
<1>1. r \in Live /\ run \in Run
  BY DEF PushDone, Live, TypeOK
<1>2. more \in BOOLEAN
  OBVIOUS
<1>3. resting' \in [Salons -> Nat] /\ faults' \in Nat
  <2>1. /\ resting' = [resting EXCEPT ![s] = IF fails THEN @ + run.claimed ELSE @]
        /\ faults' = IF fails THEN faults + 1 ELSE faults
    BY DEF PushDone
  <2>2. run.claimed \in Nat
    BY <1>1 DEF Run
  <2>3. faults' \in Nat
    BY <2>1 DEF TypeOK
  <2>4. resting' \in [Salons -> Nat]
    <3>1. resting \in [Salons -> Nat]
      BY <2>2 DEF TypeOK
    <3>2. resting' = [resting EXCEPT ![s] = IF fails THEN @ + run.claimed ELSE @]
      BY <2>1
    <3> HIDE DEF run, s
    <3>3. \A t \in Salons : resting'[t] \in Nat
      BY <2>2, <3>1, <3>2
    <3>4. resting' = [t \in Salons |-> resting'[t]]
      BY <3>1, <3>2
    <3> QED BY <3>3, <3>4
  <2> QED BY <2>3, <2>4
<1>4. UNCHANGED <<salon, app, online, debounce, periodic, ready, starts,
                  writes, flips>>
  BY DEF PushDone
<1>5. CASE run.kind = "full" /\ Pulling = {}
  <2> DEFINE x == [run EXCEPT !.st = "pull", !.claimed = 0, !.more = more]
  <2>1. /\ runs' = [runs EXCEPT ![r] = x]
        /\ unseen' = [unseen EXCEPT ![s] = FALSE]
        /\ UNCHANGED <<current, pending, timers, drainCount>>
    BY <1>5 DEF PushDone
  <2>2. x \in Run /\ x.st = "pull"
    <3> HIDE DEF run, more
    <3> QED BY <1>1, <1>2, OnToPull
  <2> HIDE DEF x
  <2>3. runs' \in [Slots -> Run] /\ Live' = Live
    BY <1>1, <2>1, <2>2 DEF TypeOK, Live
  <2>4. unseen' \in [Salons -> BOOLEAN]
    BY <2>1, Zenon DEF TypeOK
  <2> QED BY <1>3, <1>4, <2>1, <2>3, <2>4 DEF TypeOK, GoesOn
<1>6. CASE ~(run.kind = "full" /\ Pulling = {})
  <2>1. Finish(r, more) /\ unseen' = unseen
    BY <1>6 DEF PushDone
  <2> HIDE DEF more
  <2>2. Cycles' /\ timers' \in [Kinds -> Nat] /\ Ended(r)
    BY <1>1, <1>2, <2>1, FinishEffects
  <2> QED BY <1>3, <1>4, <2>1, <2>2 DEF TypeOK, Cycles
<1> QED BY <1>5, <1>6

LEMMA PullEffects ==
  ASSUME TypeOK, NEW r \in Slots, NEW fails \in BOOLEAN, PullDone(r, fails)
  PROVE  TypeOK' /\ Ended(r)
<1> DEFINE run == runs[r]
<1>1. r \in Live /\ run \in Run /\ run.more \in BOOLEAN
  BY DEF PullDone, Live, TypeOK, Run
<1>2. Finish(r, run.more)
  BY DEF PullDone
<1>3. Cycles' /\ timers' \in [Kinds -> Nat] /\ Ended(r)
  BY <1>1, <1>2, FinishEffects
<1>4. faults' \in Nat
  BY DEF PullDone, TypeOK
<1>5. unseen' \in [Salons -> BOOLEAN]
  <2>1. unseen' = [unseen EXCEPT ![run.salon] = @ \/ fails]
    BY DEF PullDone
  <2>2. ASSUME NEW s \in Salons PROVE unseen'[s] \in BOOLEAN
    <3>1. unseen[s] \in BOOLEAN
      BY DEF TypeOK
    <3> QED BY <2>1, <3>1, Zenon DEF TypeOK
  <2>3. DOMAIN unseen' = Salons /\ unseen' = [s \in Salons |-> unseen'[s]]
    BY <2>1, Zenon DEF TypeOK
  <2> QED BY <2>2, <2>3, Zenon
<1>6. UNCHANGED <<salon, app, online, debounce, periodic, ready, resting,
                  starts, writes, flips>>
  BY DEF PullDone
<1> QED BY <1>3, <1>4, <1>5, <1>6 DEF TypeOK, Cycles

(***************************************************************************)
(* Every step as the cycles and the salon see it.                          *)
(***************************************************************************)
\* Nobody starts or stops, and no cycle begins or ends.
Quiet ==
  /\ Live' = Live /\ current' = current
  /\ pending' = pending \/ current # 0
  /\ salon' = salon /\ starts' = starts
Begins ==
  /\ salon # 0 /\ current = 0 /\ \E r \in Slots : Begun(r)
  /\ pending' = pending /\ salon' = salon /\ starts' = starts
Ends == (\E r \in Slots : Ended(r)) /\ salon' = salon /\ starts' = starts
Stops ==
  /\ Live' = Live /\ current' = 0 /\ pending' = "none"
  /\ salon' = 0 /\ starts' = starts
Restarts ==
  /\ (Live' = Live /\ current' = 0) \/ \E r \in Slots : Begun(r)
  /\ pending' = "none" /\ salon' # 0 /\ starts' = starts + 1
Shapes == Quiet \/ Begins \/ Ends \/ Stops \/ Restarts

\* A trigger: an attempt, whatever is done to the timers.
LEMMA TriggerStep ==
  ASSUME TypeOK, NEW kind \in Kinds, Attempt(kind, salon, current),
         UNCHANGED <<salon, counters>>, Switches'
  PROVE  TypeOK' /\ Shapes
<1>1. Queues' /\ Cycles' /\ Attempted
  BY AttemptEffects
<1>2. Counters' /\ salon' = salon /\ starts' = starts
  BY DEF TypeOK, Counters, counters
<1>3. TypeOK'
  BY <1>1, <1>2, TypeParts DEF TypeOK, Queues, Cycles, Switches, Counters
<1> QED BY <1>1, <1>2, <1>3 DEF Attempted, Shapes, Quiet, Begins

LEMMA StartStep ==
  ASSUME TypeOK, NEW s \in Salons, Start(s)
  PROVE  TypeOK' /\ Shapes
<1>1. /\ starts' = starts + 1 /\ salon' = s /\ s # 0 /\ pending' = "none"
      /\ debounce' = FALSE /\ periodic' = (app = "active")
      /\ UNCHANGED <<app, online, timers, resting, writes, faults, flips>>
  BY SalonsAssumption DEF Start, AttemptAfterStop
<1>2. Counters'
  BY <1>1 DEF TypeOK, Counters
<1>3. Switches'
  BY <1>1 DEF TypeOK, Switches
<1>4. CASE current' = 0 /\ UNCHANGED <<runs, ready, unseen, drainCount>>
  <2>1. Queues' /\ Cycles' /\ Live' = Live
    BY <1>1, <1>4 DEF TypeOK, Queues, Cycles, Live
  <2> QED BY <1>1, <1>2, <1>3, <1>4, <2>1
         DEF TypeOK, Queues, Cycles, Switches, Counters, Shapes, Restarts
<1>5. ASSUME NEW r \in NextSlot, Begin(r, s, Kind("app-foreground"))
      PROVE  TypeOK' /\ Shapes
  <2>1. r \in Slots \ Live
    BY <1>5 DEF NextSlot
  <2>2. /\ Queues'
        /\ runs' \in [Slots -> Run] /\ current' \in Slots \cup {0}
        /\ drainCount' \in 0..MaxDrain
        /\ Begun(r) \/ (Live' = Live /\ current' = 0)
    BY <1>5, <2>1, KindFacts, BeginEffects
  <2>3. Cycles'
    BY <1>1, <2>2 DEF Cycles
  <2>4. TypeOK'
    BY <1>2, <1>3, <2>2, <2>3 DEF TypeOK, Queues, Cycles, Switches, Counters
  <2> QED BY <1>1, <2>1, <2>2, <2>4 DEF Shapes, Restarts
<1> QED BY <1>4, <1>5 DEF Start, AttemptAfterStop

LEMMA Steps ==
  ASSUME TypeOK, [Next]_vars
  PROVE  TypeOK' /\ Shapes
<1>0. ASSUME Queues', Switches', Counters',
             UNCHANGED <<runs, current, pending, drainCount, salon, starts>>
      PROVE  TypeOK' /\ Shapes
  BY <1>0 DEF TypeOK, Queues, Switches, Counters, Shapes, Quiet, Live
<1>1. CASE UNCHANGED vars
  BY <1>1 DEF vars, TypeOK, Shapes, Quiet, Live
<1>2. ASSUME NEW r \in Slots, CycleStep(r) PROVE TypeOK' /\ Shapes
  <2>1. ASSUME NEW fails \in BOOLEAN, PushDone(r, fails) PROVE TypeOK' /\ Shapes
    <3>1. TypeOK' /\ (GoesOn \/ Ended(r)) /\ salon' = salon /\ starts' = starts
      BY <2>1, PushEffects DEF PushDone
    <3> QED BY <3>1 DEF Shapes, GoesOn, Quiet, Ends
  <2>2. ASSUME NEW fails \in BOOLEAN, PullDone(r, fails) PROVE TypeOK' /\ Shapes
    <3>1. TypeOK' /\ Ended(r) /\ salon' = salon /\ starts' = starts
      BY <2>2, PullEffects DEF PullDone
    <3> QED BY <3>1 DEF Shapes, Ends
  <2> QED BY <1>2, <2>1, <2>2 DEF CycleStep
<1>3. ASSUME NEW s \in Salons, Start(s) PROVE TypeOK' /\ Shapes
  BY <1>3, StartStep
<1>4. ASSUME NEW s \in Salons, RemoteWrite(s) PROVE TypeOK' /\ Shapes
  <2>1. unseen' \in [Salons -> BOOLEAN]
    BY <1>4, Zenon DEF RemoteWrite, TypeOK
  <2>2. Queues' /\ Switches' /\ Counters'
    BY <1>4, <2>1 DEF RemoteWrite, TypeOK, Queues, Switches, Counters
  <2> QED BY <1>0, <1>4, <2>2 DEF RemoteWrite
<1>5. ASSUME NEW s \in Salons, BackoffElapsed(s) PROVE TypeOK' /\ Shapes
  <2>1. Queues' /\ Switches' /\ Counters'
    BY <1>5 DEF BackoffElapsed, TypeOK, Queues, Switches, Counters, counters
  <2> QED BY <1>0, <1>5, <2>1 DEF BackoffElapsed, counters
<1>6. CASE Stop
  <2>1. TypeOK'
    BY <1>6 DEF Stop, TypeOK, counters
  <2> QED BY <1>6, <2>1 DEF Stop, Shapes, Stops, Live, counters
<1>7. ASSUME NEW next \in AppStates, AppUnheard(next) PROVE TypeOK' /\ Shapes
  <2>1. Queues' /\ Switches' /\ Counters'
    BY <1>7 DEF AppUnheard, TypeOK, Queues, Switches, Counters, counters
  <2> QED BY <1>0, <1>7, <2>1 DEF AppUnheard, counters
<1>8. CASE AppInactive
  <2>1. Queues' /\ Switches' /\ Counters'
    BY <1>8 DEF AppInactive, AppStates, TypeOK, Queues, Switches, Counters, counters
  <2> QED BY <1>0, <1>8, <2>1 DEF AppInactive, counters
<1>9. CASE LocalWrite
  <2>1. Queues' /\ Switches' /\ Counters'
    BY <1>9 DEF LocalWrite, TypeOK, Queues, Switches, Counters
  <2> QED BY <1>0, <1>9, <2>1 DEF LocalWrite
<1>10. CASE NetworkLost
  <2>1. Queues' /\ Switches'
    BY <1>10 DEF NetworkLost, TypeOK, Queues, Switches
  <2>2. Counters'
    BY <1>10 DEF NetworkLost, TypeOK, Counters
  <2> QED BY <1>0, <1>10, <2>1, <2>2 DEF NetworkLost
<1>11. CASE NetworkBack
  <2>0. /\ online' = TRUE
        /\ UNCHANGED <<salon, app, debounce, periodic, timers, resting, counters>>
    BY <1>11 DEF NetworkBack
  <2>1. Switches' /\ Counters' /\ starts' = starts
    BY <2>0 DEF TypeOK, Switches, Counters, counters
  <2>2. CASE UNCHANGED <<runs, current, pending, ready, unseen, drainCount>>
    BY <1>0, <2>0, <2>1, <2>2 DEF TypeOK, Queues
  <2>3. CASE /\ current # 0 /\ pending' = Kind("network-reconnect")
             /\ UNCHANGED <<runs, current, ready, unseen, drainCount>>
    <3>1. TypeOK'
      BY <2>0, <2>1, <2>3, KindFacts DEF TypeOK, Switches, Counters
    <3> QED BY <2>0, <2>1, <2>3, <3>1 DEF Shapes, Quiet, Live
  <2>4. ASSUME salon # 0, current = 0, NEW r \in NextSlot,
               Begin(r, salon, Kind("network-reconnect")), pending' = pending
        PROVE  TypeOK' /\ Shapes
    <3>1. r \in Slots \ Live /\ salon \in Salons
      BY <2>4 DEF NextSlot, TypeOK
    <3>2. /\ Queues'
          /\ runs' \in [Slots -> Run] /\ current' \in Slots \cup {0}
          /\ drainCount' \in 0..MaxDrain
          /\ Begun(r) \/ (Live' = Live /\ current' = 0)
      BY <2>4, <3>1, KindFacts, BeginEffects
    <3>3. Cycles'
      BY <2>4, <3>2 DEF Cycles, TypeOK
    <3>4. TypeOK'
      BY <2>1, <3>2, <3>3 DEF TypeOK, Queues, Cycles, Switches, Counters
    <3> QED BY <2>0, <2>1, <2>4, <3>1, <3>2, <3>4 DEF Shapes, Quiet, Begins
  <2> QED BY <1>11, <2>2, <2>3, <2>4 DEF NetworkBack
<1>12. CASE AppBackground
  <2>1. /\ Attempt(Kind("app-background"), salon, current)
        /\ UNCHANGED <<salon, counters>> /\ Switches'
    BY <1>12 DEF AppBackground, TypeOK, Switches, AppStates
  <2> QED BY <2>1, KindFacts, TriggerStep
<1>13. CASE AppActive
  <2>1. /\ Attempt(Kind("app-foreground"), salon, current)
        /\ UNCHANGED <<salon, counters>> /\ Switches'
    BY <1>13 DEF AppActive, TypeOK, Switches, AppStates
  <2> QED BY <2>1, KindFacts, TriggerStep
<1>14. CASE DebounceFires
  <2>1. /\ Attempt(Kind("post-write-debounce"), salon, current)
        /\ UNCHANGED <<salon, counters>> /\ Switches'
    BY <1>14 DEF DebounceFires, TypeOK, Switches
  <2> QED BY <2>1, KindFacts, TriggerStep
<1>15. CASE PeriodicFires
  <2>1. /\ Attempt(Kind("periodic"), salon, current)
        /\ UNCHANGED <<salon, counters>> /\ Switches'
    BY <1>15 DEF PeriodicFires, TypeOK, Switches
  <2> QED BY <2>1, KindFacts, TriggerStep
<1>16. CASE RunNow
  <2>1. /\ Attempt(Kind("manual"), salon, current)
        /\ UNCHANGED <<salon, counters>> /\ Switches'
    BY <1>16 DEF RunNow, TypeOK, Switches
  <2> QED BY <2>1, KindFacts, TriggerStep
<1>17. ASSUME NEW k \in Kinds, TimerFires(k) PROVE TypeOK' /\ Shapes
  <2>1. Attempt(k, salon, current) /\ UNCHANGED <<salon, counters>> /\ Switches'
    BY <1>17 DEF TimerFires, TypeOK, Switches
  <2> QED BY <2>1, TriggerStep
<1> QED BY <1>1, <1>2, <1>3, <1>4, <1>5, <1>6, <1>7, <1>8, <1>9, <1>10, <1>11,
           <1>12, <1>13, <1>14, <1>15, <1>16, <1>17 DEF Next

(***************************************************************************)
(* Cycles nobody tracks.  A start or a stop leaves at most one behind, and *)
(* the end of one of them untracks the cycle that runs then but is one     *)
(* less itself.                                                            *)
(***************************************************************************)
Untracked == Cardinality(Live \ {current})

CycleInv ==
  /\ TypeOK
  /\ current # 0 => current \in Live
  /\ pending # "none" => current # 0
  /\ salon = 0 => current = 0
  /\ Untracked + (IF salon = 0 THEN 0 ELSE 1) <= starts

LEMMA WithoutOne ==
  ASSUME NEW L, IsFiniteSet(L), NEW c
  PROVE  /\ Cardinality(L) \in Nat /\ Cardinality(L \ {c}) \in Nat
         /\ Cardinality(L \ {c}) <= Cardinality(L)
         /\ Cardinality(L) <= Cardinality(L \ {c}) + 1
         /\ c \in L => Cardinality(L) = Cardinality(L \ {c}) + 1
<1>1. Cardinality(L) \in Nat
  BY FS_CardinalityType
<1>2. Cardinality(L \ {c}) = IF c \in L THEN Cardinality(L) - 1 ELSE Cardinality(L)
  BY FS_RemoveElement
<1>3. Cardinality(L \ {c}) \in Nat
  BY FS_RemoveElement, FS_CardinalityType
<1> QED BY <1>1, <1>2, <1>3

LEMMA StillBelow ==
  ASSUME NEW m \in Nat, NEW n \in Nat, NEW d \in Nat, NEW most \in Nat,
         m <= n, n + d <= most
  PROVE  m + d <= most
  OBVIOUS

LEMMA CycleInvHolds == Spec => []CycleInv
<1>1. Init => CycleInv
  <2> SUFFICES ASSUME Init PROVE CycleInv
    OBVIOUS
  <2>1. Live = {} /\ current = 0
    BY DEF Init, Live, Free
  <2>2. TypeOK
    <3>1. Free \in Run
      BY DEF Free, Run
    <3>2. Cycles /\ Counters
      BY <3>1, LimitsAssumption DEF Init, Cycles, Counters
    <3>3. Queues /\ Switches
      BY DEF Init, Queues, Switches, AppStates
    <3> QED BY <3>2, <3>3, TypeParts
  <2>3. Live \ {current} = {}
    BY <2>1
  <2>4. Untracked = 0
    BY <2>3, FS_EmptySet DEF Untracked
  <2> QED BY <2>2, <2>4 DEF Init, CycleInv
<1>2. CycleInv /\ [Next]_vars => CycleInv'
  <2> SUFFICES ASSUME CycleInv, [Next]_vars PROVE CycleInv'
    OBVIOUS
  <2>1. TypeOK' /\ Shapes /\ starts \in Nat
    BY Steps DEF CycleInv, TypeOK
  <2>2. 0 \notin Live /\ Live \subseteq Slots /\ IsFiniteSet(Live)
    BY SlotsAssumption, FS_Subset DEF Live
  <2>3. /\ Cardinality(Live) \in Nat /\ Untracked \in Nat
        /\ Cardinality(Live) <= Untracked + 1
        /\ current = 0 => Cardinality(Live) = Untracked
        /\ current # 0 => Cardinality(Live) = Untracked + 1
    <3>1. current = 0 => Live \ {current} = Live
      BY <2>2
    <3> QED BY <2>2, <3>1, WithoutOne DEF Untracked, CycleInv
  <2>4. Untracked' = Cardinality(Live' \ {current'})
    BY DEF Untracked
  <2>5. ASSUME Live' = Live, current' = 0 PROVE Untracked' = Cardinality(Live)
    <3>1. Live' \ {current'} = Live
      BY <2>2, <2>5
    <3> QED BY <2>4, <3>1
  <2>6. ASSUME NEW r \in Slots, Begun(r)
        PROVE  Untracked' = Cardinality(Live) /\ current' \in Live' /\ current' # 0
    <3>1. Live' \ {current'} = Live
      BY <2>6 DEF Begun
    <3> QED BY <2>4, <2>6, <3>1, SlotsAssumption DEF Begun
  <2>7. CASE Quiet
    <3>1. Untracked' = Untracked
      BY <2>7 DEF Quiet, Untracked
    <3> QED BY <2>1, <2>7, <3>1 DEF Quiet, CycleInv
  <2>8. CASE Begins
    <3>1. Untracked' = Untracked /\ current' \in Live' /\ current' # 0
      BY <2>3, <2>6, <2>8 DEF Begins
    <3> QED BY <2>1, <2>8, <3>1 DEF Begins, CycleInv
  <2>9. CASE Ends
    <3>1. PICK r \in Slots : Ended(r)
      BY <2>9 DEF Ends
    <3>2. Live' \ {current'} = Live \ {r}
      BY <2>2, <3>1 DEF Ended
    <3>3. Cardinality(Live) = Cardinality(Live \ {r}) + 1 /\ Cardinality(Live \ {r}) \in Nat
      BY <2>2, <3>1, WithoutOne DEF Ended
    <3>4. Untracked' <= Untracked
      BY <2>3, <2>4, <3>2, <3>3
    <3>5. Untracked' \in Nat
      BY <2>4, <3>2, <3>3
    <3>6. salon' = salon /\ starts' = starts /\ current' = 0 /\ pending' = "none"
      BY <2>9, <3>1 DEF Ends, Ended
    <3>7. Untracked + (IF salon = 0 THEN 0 ELSE 1) <= starts
      BY DEF CycleInv
    <3>8. Untracked' + (IF salon = 0 THEN 0 ELSE 1) <= starts
      <4>1. Untracked \in Nat /\ starts \in Nat
        BY <2>1, <2>3
      <4> DEFINE d == IF salon = 0 THEN 0 ELSE 1
      <4>2. d \in Nat /\ Untracked + d <= starts
        BY <3>7
      <4> HIDE DEF d
      <4>3. Untracked' + d <= starts
        BY <3>4, <3>5, <4>1, <4>2, StillBelow
      <4> QED BY <4>3 DEF d
    <3> QED BY <2>1, <3>6, <3>8 DEF CycleInv
  <2>10. CASE Stops
    BY <2>1, <2>3, <2>5, <2>10 DEF Stops, CycleInv
  <2>11. CASE Restarts
    <3>1. Untracked' = Cardinality(Live) /\ (current' # 0 => current' \in Live')
      BY <2>5, <2>6, <2>11 DEF Restarts
    <3>2. Cardinality(Live) <= starts
      BY <2>1, <2>3 DEF CycleInv
    <3> QED BY <2>1, <2>3, <2>11, <3>1, <3>2 DEF Restarts, CycleInv
  <2> QED BY <2>1, <2>7, <2>8, <2>9, <2>10, <2>11 DEF Shapes
<1> QED BY <1>1, <1>2, PTL DEF Spec

\* Every variable keeps its type.
THEOREM SchedulerTypeCorrect == Spec => []TypeOK
<1>1. CycleInv => TypeOK
  BY DEF CycleInv
<1> QED BY <1>1, CycleInvHolds, PTL

\* The cycles in flight never outnumber the starts: a sign-out, a switch of
\* account and the finally of a cycle that is not the tracked one each lose
\* track of one at most.  (attempt, start and stop of sync-scheduler.ts)
THEOREM CyclesAreBounded == Spec => []NoMoreCyclesThanStarts
<1>1. CycleInv => NoMoreCyclesThanStarts
  <2> SUFFICES ASSUME CycleInv PROVE Cardinality(Live) <= starts
    BY DEF NoMoreCyclesThanStarts
  <2>1. 0 \notin Live /\ IsFiniteSet(Live) /\ starts \in Nat
    <3>1. Live \subseteq Slots
      BY DEF Live
    <3> QED BY <3>1, SlotsAssumption, FS_Subset DEF CycleInv, TypeOK
  <2>2. Cardinality(Live) <= Untracked + 1 /\ Untracked \in Nat
        /\ Cardinality(Live) \in Nat
    BY <2>1, WithoutOne DEF Untracked
  <2>3. CASE salon = 0
    <3>1. Live \ {current} = Live
      BY <2>1, <2>3 DEF CycleInv
    <3> QED BY <2>1, <2>2, <2>3, <3>1 DEF CycleInv, Untracked
  <2>4. CASE salon # 0
    BY <2>1, <2>2, <2>4 DEF CycleInv
  <2> QED BY <2>3, <2>4
<1> QED BY <1>1, CycleInvHolds, PTL

\* A trigger that was coalesced has a live cycle whose end serves it, through
\* sign-outs, restarts and ends of cycles nobody tracks.
THEOREM RerunsAreServed == Spec => []RerunIsServed
<1>1. CycleInv => RerunIsServed
  BY DEF CycleInv, RerunIsServed
<1> QED BY <1>1, CycleInvHolds, PTL
=============================================================================
