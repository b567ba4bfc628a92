---------------------------- MODULE SyncScheduler ----------------------------
(***************************************************************************)
(* When the sync engine runs: src/sync/sync-scheduler.ts on one device,    *)
(* from the sign-in that starts it to the sign-out that stops it.          *)
(*                                                                         *)
(* A cycle is one runCycle: pushOnce, then pullOnce for the triggers that  *)
(* pull.  What a push and a pull do is SyncEngine; here a push takes up to *)
(* Batch ready queue rows and a pull takes what the cloud held when it     *)
(* began.  A promise that is already resolved continues within the same    *)
(* turn of the event loop, so a cycle with nothing to wait for starts and  *)
(* ends in one step.                                                       *)
(*                                                                         *)
(* Covered: every trigger and timer, coalescing, draining, sign-out and    *)
(* account switch while a cycle is in flight, failed pushes and pulls.     *)
(* Not covered: a cycle that throws, the operating system's own task, and  *)
(* the suspension of timers in the background.                             *)
(***************************************************************************)
EXTENDS Integers, FiniteSets

CONSTANTS
  Salons,       \* salons that sign in on the device
  Slots,        \* names for the cycles in flight
  Batch,        \* DEFAULT_BATCH_SIZE
  MaxDrain,     \* MAX_DRAIN
  MaxWrites,    \* bound on local writes and on changes made elsewhere
  MaxFaults,    \* bound on failed pushes and pulls
  MaxStarts,    \* bound on calls of start() that start
  MaxFlips,     \* bound on losses of the network
  MaxTimers     \* outstanding drains and reruns of one kind that are counted

ASSUME SalonsAssumption == Salons \subseteq Nat \ {0}
ASSUME SlotsAssumption == Slots \subseteq Nat \ {0} /\ IsFiniteSet(Slots)
ASSUME LimitsAssumption ==
  /\ Batch \in Nat \ {0} /\ MaxDrain \in Nat /\ MaxTimers \in Nat
  /\ MaxWrites \in Nat /\ MaxFaults \in Nat /\ MaxStarts \in Nat
  /\ MaxFlips \in Nat

\* A periodic timer that only pushes.
PullTriggersNoPeriodic ==
  {"manual", "app-foreground", "network-reconnect", "background-task"}

\* PULL_TRIGGERS.  Of a trigger only the membership in it is told apart: a
\* cycle and a rerun are "full" (push and pull) or "push" (push alone).
PullTriggers ==
  {"manual", "app-foreground", "network-reconnect", "periodic",
   "background-task"}
Kinds == {"push", "full"}
Kind(trigger) == IF trigger \in PullTriggers THEN "full" ELSE "push"
AppStates == {"active", "inactive", "background"}

VARIABLES
  salon,       \* salonId, 0 when the scheduler is stopped
  app,         \* AppState
  online,      \* isOnline()
  runs,        \* [Slots -> Run]  the cycles in flight
  current,     \* the slot of currentRun, or 0
  pending,     \* kind of pendingTrigger, "none" when pendingRerun is false
  debounce,    \* debounceTimer is set
  periodic,    \* periodicTimer is set
  timers,      \* [Kinds -> Nat]  drains and reruns: stop() does not clear them
  drainCount,
  ready,       \* [Salons -> Nat]  queue rows that claimNext would return
  resting,     \* [Salons -> Nat]  queue rows waiting for their backoff
  unseen,      \* [Salons -> BOOLEAN]  the cloud has changes to pull
  starts, writes, faults, flips  \* counters for the bounds

vars == <<salon, app, online, runs, current, pending, debounce, periodic,
          timers, drainCount, ready, resting, unseen, starts, writes, faults,
          flips>>
counters == <<starts, writes, faults, flips>>

Run == [st : {"free", "push", "pull"}, salon : Salons \cup {0},
        kind : Kinds \cup {"none"}, claimed : Nat, more : BOOLEAN]

Free == [st |-> "free", salon |-> 0, kind |-> "none", claimed |-> 0,
         more |-> FALSE]

Live == {r \in Slots : runs[r].st # "free"}
Pushing == {r \in Slots : runs[r].st = "push"}
Pulling == {r \in Slots : runs[r].st = "pull"}
\* Any free slot would do: the least, to keep the state space small.
NextSlot == {r \in Slots \ Live : \A q \in Slots \ Live : r <= q}
Least(m, n) == IF m < n THEN m ELSE n

Init ==
  /\ salon = 0 /\ app = "active" /\ online = TRUE
  /\ runs = [r \in Slots |-> Free]
  /\ current = 0 /\ pending = "none"
  /\ debounce = FALSE /\ periodic = FALSE
  /\ timers = [k \in Kinds |-> 0]
  /\ drainCount = 0
  /\ ready = [s \in Salons |-> 0]
  /\ resting = [s \in Salons |-> 0]
  /\ unseen = [s \in Salons |-> FALSE]
  /\ starts = 0 /\ writes = 0 /\ faults = 0 /\ flips = 0

(***************************************************************************)
(* attempt and runCycle.                                                   *)
(***************************************************************************)
\* runCycle up to its first wait, as cycle r of salon s: the claim of the
\* push, or the start of the pull, or nothing to wait for at all.
Begin(r, s, kind) ==
  LET n == IF Pushing = {} THEN Least(ready[s], Batch) ELSE 0
      pulls == kind = "full" /\ Pulling = {}
      run == [Free EXCEPT !.salon = s, !.kind = kind]
  IN  \/ /\ n > 0
         /\ runs' = [runs EXCEPT ![r] = [run EXCEPT !.st = "push", !.claimed = n]]
         /\ current' = r
         /\ ready' = [ready EXCEPT ![s] = @ - n]
         /\ UNCHANGED <<unseen, drainCount>>
      \/ /\ n = 0 /\ pulls
         /\ runs' = [runs EXCEPT ![r] = [run EXCEPT !.st = "pull"]]
         /\ current' = r
         /\ unseen' = [unseen EXCEPT ![s] = FALSE]
         /\ UNCHANGED <<ready, drainCount>>
      \/ /\ n = 0 /\ ~pulls
         /\ current' = 0 /\ drainCount' = 0
         /\ UNCHANGED <<runs, ready, unseen>>

\* An attempt that does not look at currentRun.
AttemptAnyway(kind, s, cur) ==
  /\ UNCHANGED pending
  /\ \/ /\ s = 0 \/ ~online
        /\ current' = 0
        /\ UNCHANGED <<runs, ready, unseen, drainCount>>
     \/ /\ s # 0 /\ online
        /\ \E r \in NextSlot : Begin(r, s, kind)

\* attempt with currentRun cur: coalesced into the cycle in flight, skipped,
\* or a cycle of its own.
Attempt(kind, s, cur) ==
  \/ /\ cur # 0
     /\ pending' = kind /\ current' = cur
     /\ UNCHANGED <<runs, ready, unseen, drainCount>>
  \/ /\ cur = 0
     /\ s = 0 \/ ~online
     /\ current' = 0
     /\ UNCHANGED <<pending, runs, ready, unseen, drainCount>>
  \/ /\ cur = 0
     /\ s # 0 /\ online
     /\ \E r \in NextSlot : Begin(r, s, kind)
     /\ UNCHANGED pending

\* attempt of a cycle of its own from a stop() that cleared the rerun.
AttemptAfterStop(kind, s) ==
  /\ pending' = "none"
  /\ \/ /\ ~online
        /\ current' = 0
        /\ UNCHANGED <<runs, ready, unseen, drainCount>>
     \/ /\ online
        /\ \E r \in NextSlot : Begin(r, s, kind)

\* The end of a cycle: drainCount, scheduleDrain, and attempt's finally.
\* The finally clears currentRun even when it is another cycle's.
Finish(r, more) ==
  LET drains == more /\ drainCount < MaxDrain
      due == [k \in Kinds |-> timers[k]
                + (IF k = Kind("drain") /\ drains THEN 1 ELSE 0)
                + (IF k = pending THEN 1 ELSE 0)]
  IN  /\ runs' = [runs EXCEPT ![r] = Free]
      /\ drainCount' = IF drains THEN drainCount + 1 ELSE 0
      /\ timers' = [k \in Kinds |-> Least(due[k], MaxTimers)]
      /\ current' = 0 /\ pending' = "none"

\* pushOnce returns; failed rows rest.  pullOnce starts in the same turn.
PushDone(r, fails) ==
  LET run == runs[r]
      s == run.salon
      more == ready[s] > 0
  IN  /\ run.st = "push"
      /\ fails => faults < MaxFaults
      /\ faults' = IF fails THEN faults + 1 ELSE faults
      /\ resting' = [resting EXCEPT ![s] = IF fails THEN @ + run.claimed ELSE @]
      /\ IF run.kind = "full" /\ Pulling = {}
         THEN /\ runs' = [runs EXCEPT ![r] = [run EXCEPT !.st = "pull",
                                        !.claimed = 0, !.more = more]]
              /\ unseen' = [unseen EXCEPT ![s] = FALSE]
              /\ UNCHANGED <<current, pending, timers, drainCount>>
         ELSE Finish(r, more) /\ UNCHANGED unseen
      /\ UNCHANGED <<salon, app, online, debounce, periodic, ready, starts,
                     writes, flips>>

\* pullOnce returns; an entity that failed is still to be pulled.
PullDone(r, fails) ==
  LET run == runs[r] IN
  /\ run.st = "pull"
  /\ fails => faults < MaxFaults
  /\ faults' = IF fails THEN faults + 1 ELSE faults
  /\ unseen' = [unseen EXCEPT ![run.salon] = @ \/ fails]
  /\ Finish(r, run.more)
  /\ UNCHANGED <<salon, app, online, debounce, periodic, ready, resting,
                 starts, writes, flips>>

(***************************************************************************)
(* start, stop and the triggers.                                           *)
(***************************************************************************)
\* start: nothing for the salon that runs already, otherwise stop() first.
Start(s) ==
  /\ salon # s
  /\ starts < MaxStarts /\ starts' = starts + 1
  /\ salon' = s
  /\ debounce' = FALSE
  /\ periodic' = (app = "active")
  /\ AttemptAfterStop(Kind("app-foreground"), s)
  /\ UNCHANGED <<app, online, timers, resting, writes, faults, flips>>

\* A stop that leaves a rerun behind.
StopKeepsRerun ==
  /\ salon # 0
  /\ salon' = 0
  /\ debounce' = FALSE /\ periodic' = FALSE
  /\ current' = 0
  /\ UNCHANGED <<app, online, runs, pending, timers, drainCount, ready, resting,
                 unseen, counters>>

\* stop leaves the cycle in flight, the drain and the rerun timers alone.
Stop ==
  /\ salon # 0
  /\ salon' = 0
  /\ debounce' = FALSE /\ periodic' = FALSE
  /\ current' = 0 /\ pending' = "none"
  /\ UNCHANGED <<app, online, runs, timers, drainCount, ready, resting, unseen,
                 counters>>

\* AppState changes while nobody listens.
AppUnheard(next) ==
  /\ salon = 0 /\ next # app
  /\ app' = next
  /\ UNCHANGED <<salon, online, runs, current, pending, debounce, periodic,
                 timers, drainCount, ready, resting, unseen, counters>>

\* handleAppStateChange: the app leaves the foreground for good.
AppBackground ==
  /\ salon # 0 /\ app # "background"
  /\ app' = "background"
  /\ debounce' = FALSE /\ periodic' = FALSE
  /\ Attempt(Kind("app-background"), salon, current)
  /\ UNCHANGED <<salon, online, timers, resting, counters>>

\* handleAppStateChange: back in the foreground.
AppActive ==
  /\ salon # 0 /\ app # "active"
  /\ app' = "active"
  /\ periodic' = TRUE
  /\ Attempt(Kind("app-foreground"), salon, current)
  /\ UNCHANGED <<salon, online, debounce, timers, resting, counters>>

AppInactive ==
  /\ salon # 0 /\ app # "inactive"
  /\ app' = "inactive"
  /\ UNCHANGED <<salon, online, runs, current, pending, debounce, periodic,
                 timers, drainCount, ready, resting, unseen, counters>>

\* A repository's write: a queue row, and db:dirty for whoever listens.
LocalWrite ==
  /\ salon # 0 /\ writes < MaxWrites
  /\ writes' = writes + 1
  /\ ready' = [ready EXCEPT ![salon] = @ + 1]
  /\ debounce' = TRUE
  /\ UNCHANGED <<salon, app, online, runs, current, pending, periodic, timers,
                 drainCount, resting, unseen, starts, faults, flips>>

\* Another device of the salon pushes.
RemoteWrite(s) ==
  /\ writes < MaxWrites
  /\ writes' = writes + 1
  /\ unseen' = [unseen EXCEPT ![s] = TRUE]
  /\ UNCHANGED <<salon, app, online, runs, current, pending, debounce,
                 periodic, timers, drainCount, ready, resting, starts, faults,
                 flips>>

NetworkLost ==
  /\ online /\ flips < MaxFlips
  /\ online' = FALSE /\ flips' = flips + 1
  /\ UNCHANGED <<salon, app, runs, current, pending, debounce, periodic,
                 timers, drainCount, ready, resting, unseen, starts, writes,
                 faults>>

\* handleNetworkChanged, heard only while the scheduler is started.
NetworkBack ==
  /\ ~online
  /\ online' = TRUE
  /\ \/ /\ salon = 0
        /\ UNCHANGED <<runs, current, pending, ready, unseen, drainCount>>
     \/ /\ salon # 0 /\ current # 0
        /\ pending' = Kind("network-reconnect")
        /\ UNCHANGED <<runs, current, ready, unseen, drainCount>>
     \/ /\ salon # 0 /\ current = 0
        /\ \E r \in NextSlot : Begin(r, salon, Kind("network-reconnect"))
        /\ UNCHANGED pending
  /\ UNCHANGED <<salon, app, debounce, periodic, timers, resting, counters>>

DebounceFires ==
  /\ debounce
  /\ debounce' = FALSE
  /\ Attempt(Kind("post-write-debounce"), salon, current)
  /\ UNCHANGED <<salon, app, online, periodic, timers, resting, counters>>

PeriodicFires ==
  /\ periodic
  /\ Attempt(Kind("periodic"), salon, current)
  /\ UNCHANGED <<salon, app, online, debounce, periodic, timers, resting,
                 counters>>

\* A drain or a rerun comes due, stopped or not.
TimerFires(k) ==
  /\ timers[k] > 0
  /\ timers' = [timers EXCEPT ![k] = @ - 1]
  /\ Attempt(k, salon, current)
  /\ UNCHANGED <<salon, app, online, debounce, periodic, resting, counters>>

\* runNow; a change of Wi-Fi or metering while online makes the same attempts.
RunNow ==
  /\ salon # 0
  /\ Attempt(Kind("manual"), salon, current)
  /\ UNCHANGED <<salon, app, online, debounce, periodic, timers, resting,
                 counters>>

BackoffElapsed(s) ==
  /\ resting[s] > 0
  /\ ready' = [ready EXCEPT ![s] = @ + resting[s]]
  /\ resting' = [resting EXCEPT ![s] = 0]
  /\ UNCHANGED <<salon, app, online, runs, current, pending, debounce,
                 periodic, timers, drainCount, unseen, counters>>

(***************************************************************************)
(* The specification.                                                      *)
(***************************************************************************)
CycleStep(r) == \E fails \in BOOLEAN : PushDone(r, fails) \/ PullDone(r, fails)

Next ==
  \/ \E r \in Slots : CycleStep(r)
  \/ \E s \in Salons : Start(s) \/ RemoteWrite(s) \/ BackoffElapsed(s)
  \/ Stop
  \/ \E next \in AppStates : AppUnheard(next)
  \/ AppBackground \/ AppActive \/ AppInactive
  \/ LocalWrite \/ NetworkLost \/ NetworkBack
  \/ DebounceFires \/ PeriodicFires \/ RunNow
  \/ \E k \in Kinds : TimerFires(k)

Spec == Init /\ [][Next]_vars

\* Requests are answered, timers fire and backoffs end.  Nothing is assumed
\* of the user, of the network or of the lifecycle of the app.
Fairness ==
  /\ \A r \in Slots : WF_vars(CycleStep(r))
  /\ WF_vars(PeriodicFires)
  /\ WF_vars(DebounceFires)
  /\ \A k \in Kinds : WF_vars(TimerFires(k))
  /\ \A s \in Salons : WF_vars(BackoffElapsed(s))

FairSpec == Spec /\ Fairness

(***************************************************************************)
(* Properties.                                                             *)
(***************************************************************************)
TypeOK ==
  /\ salon \in Salons \cup {0} /\ app \in AppStates /\ online \in BOOLEAN
  /\ runs \in [Slots -> Run]
  /\ current \in Slots \cup {0} /\ pending \in Kinds \cup {"none"}
  /\ debounce \in BOOLEAN /\ periodic \in BOOLEAN
  /\ timers \in [Kinds -> Nat] /\ drainCount \in 0..MaxDrain
  /\ ready \in [Salons -> Nat] /\ resting \in [Salons -> Nat]
  /\ unseen \in [Salons -> BOOLEAN]
  /\ starts \in Nat /\ writes \in Nat /\ faults \in Nat /\ flips \in Nat

\* sync-scheduler.ts:41 promises one attempt at a time.  Each start() after
\* a stop() may leave one more cycle behind that nobody tracks, and its end
\* untracks the one that runs then: the cycles in flight never outnumber the
\* starts, and before the first restart there is at most one.
NoMoreCyclesThanStarts == Cardinality(Live) <= starts

\* A coalesced trigger always has a cycle whose end will serve it.
RerunIsServed == pending # "none" => current \in Live

\* Once the app stays signed in, in the foreground and online, everything
\* written here or elsewhere is pushed and pulled, whatever was coalesced,
\* skipped, drained or failed before.
CatchesUp == \A s \in Salons :
  <>[](salon = s /\ app = "active" /\ online) =>
    <>[](ready[s] = 0 /\ resting[s] = 0 /\ ~unseen[s])
=============================================================================
