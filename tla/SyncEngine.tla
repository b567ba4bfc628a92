----------------------------- MODULE SyncEngine -----------------------------
(***************************************************************************)
(* The offline-first sync engine of src/sync: devices that keep business   *)
(* rows in SQLite, a per-device push queue, and the Firestore documents    *)
(* they converge through.                                                  *)
(*                                                                         *)
(*   user edit   row write + trackChange, one SQLite transaction           *)
(*   push        claim -> build ops -> pushBatch (await) -> reconcile      *)
(*   pull        per entity: query page (await) -> apply page -> cursor    *)
(*   cloud       one optimistic transaction per op                         *)
(*                                                                         *)
(* JavaScript is single-threaded: another handler runs only where the code *)
(* awaits, so the synchronous stretches of pushOnce (push.st "build" and   *)
(* "reconcile") exclude every other step of that device but not a crash.   *)
(*                                                                         *)
(* Covered: lost replies, transient and permanent errors, backoff, dead    *)
(* letters, crashes between any two durable writes, clock skew, two        *)
(* devices creating one id, stale dead-letter lists, edits of a row whose  *)
(* op is in flight, the migrations every start runs again, commits that    *)
(* share a server stamp.  Not covered: an op whose request outlives the    *)
(* process that sent it; more than one salon; queues longer than one claim *)
(* (DEFAULT_BATCH_SIZE rows).                                              *)
(***************************************************************************)
EXTENDS Integers, FiniteSets, ConflictResolver

CONSTANTS
  Devices,       \* install ids, as ranks in their lexicographic order
  Keys,          \* entity ids, as ranks in the order of document names
  SharedIds,     \* ids that two devices may both create (the salon row)
  NumEntities,   \* entity types, numbered in ENTITY_PULL_ORDER
  EntityOf,      \* Keys -> entity type
  PageSize,      \* pullEntity's pageSize
  MaxAttempts,   \* MAX_ATTEMPTS
  Skew,          \* Devices -> error of the device's clock
  Overlap,       \* the OS runs the background tasks beside the app
  MaxEdits,      \* bound on user edits
  MaxCrashes,    \* bound on process deaths and migrations beside the app
  MaxFaults      \* bound on failed requests and lost replies

ASSUME DevicesAssumption == Devices \subseteq Nat \ {0}
ASSUME KeysAssumption ==
  Keys \subseteq Nat /\ IsFiniteSet(Keys) /\ SharedIds \subseteq Keys
ASSUME EntityAssumption ==
  NumEntities \in Nat \ {0} /\ EntityOf \in [Keys -> 1..NumEntities]
ASSUME SizesAssumption == PageSize \in Nat \ {0} /\ MaxAttempts \in Nat \ {0}
ASSUME SkewAssumption == Skew \in [Devices -> Int]
ASSUME OverlapAssumption == Overlap \in BOOLEAN
ASSUME BoundsAssumption ==
  MaxEdits \in Nat /\ MaxCrashes \in Nat /\ MaxFaults \in Nat

VARIABLES
  row,        \* [Devices -> [Keys -> Row]]      the business tables
  queue,      \* [Devices -> [Keys -> Entry]]    sync_queue
  cursor,     \* [Devices -> [entity -> stamp]]  sync_state
  push,       \* [Devices -> Push]               the pushOnce in flight
  pull,       \* [Devices -> Pull]               the pullOnce in flight
  up,         \* [Devices -> BOOLEAN]            the process runs
  doc,        \* [Keys -> Doc]                   the Firestore documents
  tick,       \* the last serverTimestamp given out
  asked,      \* the tick of the last query: later commits are stamped after
  edits, crashes, faults,  \* counters for the bounds
  log,        \* history: contents ever committed to the cloud, by identity
  seen,       \* history: contents the cloud showed or acked to a device
  winner,     \* history: the last-write-wins maximum of all edits of a key
  tied,       \* history: keys whose document shares its stamp with another
  stray,      \* history: keys whose last edit on a device went astray: it was
              \* discarded by the user, lost its entry to the migrations, or
              \* was taken for pushed by the answer to an older edit
  dropped,    \* history: keys of which any edit ever went astray
  discarded   \* history: keys of which the user ever discarded an edit

local == <<row, queue, cursor>>
cloud == <<doc, tick, asked, log, tied>>
bounds == <<edits, crashes, faults>>
history == <<seen, winner, stray, dropped, discarded>>
vars == <<row, queue, cursor, push, pull, up, doc, tick, asked, edits, crashes,
          faults, log, tied, seen, winner, stray, dropped, discarded>>

(***************************************************************************)
(* State.                                                                  *)
(***************************************************************************)
Row == [st : {"absent", "pending", "synced", "failed"},
        c : Content, ver : Nat]

Entry == [st : {"none", "queued", "processing", "dead"},
          id : Nat, tries : Nat, wait : BOOLEAN,
          fatal : BOOLEAN, listed : BOOLEAN]

OpStates == {"none", "claimed", "sent", "applied", "conflict", "gone",
             "transient", "fatal"}

Op == [st : OpStates, qid : Nat, c : Content, base : Nat,
       rc : Content, rv : Nat]

Push == [st : {"idle", "build", "await", "reconcile"}, ops : [Keys -> Op]]

Doc == [c : Content, ver : Nat, ts : Nat]

Pull == [st : {"idle", "due", "query", "page"}, e : 1..NumEntities,
         page : [Keys -> Doc]]

NoRow == [st |-> "absent", c |-> NoContent, ver |-> 0]
NoEntry == [st |-> "none", id |-> 0, tries |-> 0, wait |-> FALSE,
            fatal |-> FALSE, listed |-> FALSE]
NoOp == [st |-> "none", qid |-> 0, c |-> NoContent, base |-> 0,
         rc |-> NoContent, rv |-> 0]
NoDoc == [c |-> NoContent, ver |-> 0, ts |-> 0]
IdlePush == [st |-> "idle", ops |-> [k \in Keys |-> NoOp]]
NoPage == [k \in Keys |-> NoDoc]
IdlePull == [st |-> "idle", e |-> 1, page |-> NoPage]

\* The device is inside a synchronous stretch of pushOnce.
Busy(d) == push[d].st \in {"build", "reconcile"}

\* The device can run a handler of the application.
CanRun(d) == up[d] /\ ~Busy(d)

Exists(r) == r.st # "absent"

\* Nothing is owed for k: the cloud has acked or sent what d holds.
Acked(d, k) ==
  row[d][k].st \in {"absent", "synced"} /\ row[d][k].c.n \in seen[d][k]
Replied(op) == op.st \notin {"none", "claimed", "sent"}
Ready(d) == {k \in Keys : queue[d][k].st = "queued" /\ ~queue[d][k].wait}

Init ==
  /\ row = [d \in Devices |-> [k \in Keys |-> NoRow]]
  /\ queue = [d \in Devices |-> [k \in Keys |-> NoEntry]]
  /\ cursor = [d \in Devices |-> [e \in 1..NumEntities |-> 0]]
  /\ push = [d \in Devices |-> IdlePush]
  /\ pull = [d \in Devices |-> IdlePull]
  /\ up = [d \in Devices |-> TRUE]
  /\ doc = [k \in Keys |-> NoDoc]
  /\ tick = 0 /\ asked = 0 /\ tied = {}
  /\ edits = 0 /\ crashes = 0 /\ faults = 0
  /\ log = [k \in Keys |-> {0}]
  /\ seen = [d \in Devices |-> [k \in Keys |-> {0}]]
  /\ winner = [k \in Keys |-> NoContent]
  /\ stray = [d \in Devices |-> {}]
  /\ dropped = {} /\ discarded = {}

(***************************************************************************)
(* The queue, one operator per queue-manager / change-tracker statement.   *)
(***************************************************************************)
\* reopenWithFreshBase, and the DO UPDATE half of trackChange's upsert.
Reopened(q) == [q EXCEPT !.st = "queued", !.tries = 0, !.wait = FALSE,
                         !.fatal = FALSE]

\* trackChange: an existing entry is reset and keeps its id.
Enqueued(q, id) == Reopened([q EXCEPT !.id = IF q.st = "none" THEN id ELSE @])

\* A transient failure that forgets to put the entry back to queued.
FailedStuck(q, transient) ==
  [q EXCEPT !.st = IF transient THEN "processing" ELSE "dead",
            !.tries = q.tries + 1, !.fatal = ~transient]

\* markFailure.
Failed(q, transient) ==
  LET dead == ~transient \/ q.tries + 1 >= MaxAttempts
  IN  [q EXCEPT !.st = IF dead THEN "dead" ELSE "queued",
                !.tries = q.tries + 1,
                !.wait = ~dead,
                !.fatal = ~transient,
                !.listed = q.listed \/ dead]

(***************************************************************************)
(* User edits: the repositories write the row and call trackChange in one  *)
(* transaction.                                                            *)
(***************************************************************************)
NewContent(d, del) ==
  [n |-> edits + 1, by |-> d, at |-> edits + 1 + Skew[d], del |-> del]

\* The maximum of an edit and the edits before it, if there were any.
Best(c, w) == IF w.n = 0 THEN c ELSE Resolve(c, w)

\* A row may be edited whatever its queue entry and its op are up to.
CanEdit(d) == CanRun(d) /\ edits < MaxEdits

\* A repository that writes its row and forgets trackChange.
WriteUntracked(d, k, c) ==
  /\ row' = [row EXCEPT ![d][k] =
       [@ EXCEPT !.c = c, !.st = IF @ = "absent" THEN "pending" ELSE @]]
  /\ queue' = [queue EXCEPT ![d][k] =
       IF row[d][k].st = "absent" THEN Enqueued(@, c.n) ELSE @]
  /\ edits' = edits + 1
  /\ winner' = [winner EXCEPT ![k] = Best(c, @)]
  /\ UNCHANGED <<cursor, push, pull, up, cloud, crashes, faults, seen, stray,
                 dropped, discarded>>

Write(d, k, c) ==
  /\ row' = [row EXCEPT ![d][k] = [@ EXCEPT !.c = c, !.st = "pending"]]
  /\ queue' = [queue EXCEPT ![d][k] = Enqueued(@, c.n)]
  /\ edits' = edits + 1
  /\ winner' = [winner EXCEPT ![k] = Best(c, @)]
  /\ stray' = [stray EXCEPT ![d] = @ \ {k}]
  /\ UNCHANGED <<cursor, push, pull, up, cloud, crashes, faults, seen,
                 dropped, discarded>>

\* An id is fresh, except the shared ones, which each device makes up alone.
Create(d, k) ==
  /\ CanEdit(d)
  /\ ~Exists(row[d][k])
  /\ winner[k].n = 0 \/ k \in SharedIds
  /\ Write(d, k, NewContent(d, FALSE))

\* An update leaves deleted_at alone, and does not look at it.
Update(d, k) ==
  /\ CanEdit(d)
  /\ Exists(row[d][k])
  /\ Write(d, k, NewContent(d, row[d][k].c.del))

SoftDelete(d, k) ==
  /\ CanEdit(d)
  /\ Exists(row[d][k])
  /\ Write(d, k, NewContent(d, TRUE))

(***************************************************************************)
(* The scheduler's cycle: pushOnce, then pullOnce for the triggers that    *)
(* pull.  An empty claim ends the push at once.                            *)
(***************************************************************************)
\* claimNext.
Claim(d) ==
  /\ queue' = [queue EXCEPT ![d] =
       [k \in Keys |-> IF k \in Ready(d)
                       THEN [queue[d][k] EXCEPT !.st = "processing"]
                       ELSE queue[d][k]]]
  /\ push' = [push EXCEPT ![d] =
       [st |-> IF Ready(d) = {} THEN "idle" ELSE "build",
        ops |-> [k \in Keys |->
                   IF k \in Ready(d)
                   THEN [NoOp EXCEPT !.st = "claimed", !.qid = queue[d][k].id]
                   ELSE NoOp]]]

CycleStart(d, withPull) ==
  /\ up[d] /\ push[d].st = "idle" /\ pull[d].st = "idle"
  /\ Claim(d)
  /\ pull' = [pull EXCEPT ![d].st = IF withPull THEN "due" ELSE "idle"]
  /\ UNCHANGED <<row, cursor, up, cloud, bounds, history>>

\* runAllMigrations on an up-to-date schema: 014 drops sync_queue and the
\* sync_status columns, 016 adds the column again with its default 'pending',
\* 017 makes an empty queue.  Versions and cursors survive.
Migrated(d) ==
  LET rows == {k \in Keys : Exists(row[d][k])} IN
  /\ row' = [row EXCEPT ![d] = [k \in Keys |->
       IF k \in rows THEN [row[d][k] EXCEPT !.st = "pending"]
       ELSE row[d][k]]]
  /\ queue' = [queue EXCEPT ![d] = [k \in Keys |-> NoEntry]]
  /\ stray' = [stray EXCEPT ![d] = rows]
  /\ dropped' = dropped \cup {k \in rows : row[d][k].c.n \notin seen[d][k]}

\* background-sync-task and backup/background-task migrate first, whatever
\* the application in the foreground is doing with the queue.
BackgroundMigrates(d) ==
  /\ Overlap /\ CanRun(d) /\ crashes < MaxCrashes
  /\ Migrated(d)
  /\ crashes' = crashes + 1
  /\ UNCHANGED <<cursor, push, pull, up, cloud, edits, faults, seen, winner,
                 discarded>>

\* The OS runs background-sync-task beside a cycle of the scheduler: its
\* pushOnce returns at once when a push is in flight, and so does its
\* pullOnce when a pull is.
BackgroundPush(d) ==
  /\ Overlap /\ up[d] /\ push[d].st = "idle" /\ pull[d].st \in {"query", "page"}
  /\ Ready(d) # {}
  /\ Claim(d)
  /\ UNCHANGED <<row, cursor, pull, up, cloud, bounds, history>>

BackgroundPull(d) ==
  /\ Overlap /\ up[d] /\ push[d].st = "await" /\ pull[d].st \in {"idle", "due"}
  /\ pull' = [pull EXCEPT ![d] = [IdlePull EXCEPT !.st = "query"]]
  /\ UNCHANGED <<local, push, up, cloud, bounds, history>>

(***************************************************************************)
(* Push.                                                                   *)
(***************************************************************************)
Claimed(d) == {k \in Keys : push[d].ops[k].st = "claimed"}

\* buildOp: the op carries the live row, not the row that was claimed.
BuiltOp(d, k) ==
  IF Exists(row[d][k])
  THEN [push[d].ops[k] EXCEPT !.st = "sent", !.c = row[d][k].c,
                              !.base = row[d][k].ver]
  ELSE NoOp

\* One turn of pushOnce's loop up to its await: the ops of one entity type.
\* A row that is gone drops its queue entry; a group with no op left is
\* skipped.
PushBuild(d, e) ==
  LET group == {k \in Claimed(d) : EntityOf[k] = e}
      lost == {k \in group : ~Exists(row[d][k])}
      ops == [k \in Keys |-> IF k \in group THEN BuiltOp(d, k)
                             ELSE push[d].ops[k]]
  IN  /\ up[d] /\ push[d].st = "build" /\ group # {}
      /\ push' = [push EXCEPT ![d] =
           [st |-> IF group # lost THEN "await"
                   ELSE IF Claimed(d) = group THEN "idle" ELSE "build",
            ops |-> ops]]
      /\ queue' = [queue EXCEPT ![d] =
           [k \in Keys |->
              IF k \in lost /\ queue[d][k].id = push[d].ops[k].qid
              THEN NoEntry ELSE queue[d][k]]]
      /\ UNCHANGED <<row, cursor, pull, up, cloud, bounds, history>>

\* The answer of pushOne to the op of d for k.
Answered(d, k, st, c, ver) ==
  push' = [push EXCEPT ![d].ops[k] =
             [@ EXCEPT !.st = st, !.rc = c, !.rv = ver]]

\* The documents of k's collection, but k's own, stamped ts.
Twins(k, ts) ==
  {j \in Keys \ {k} : /\ EntityOf[j] = EntityOf[k]
                      /\ doc[j].ver > 0 /\ doc[j].ts = ts}

\* The transaction writes op and is stamped: two that run at once may get the
\* same serverTimestamp, unless a query was answered in between.
Stored(op, k) ==
  \E ts \in {tick, tick + 1} :
    /\ ts > asked /\ ts > doc[k].ts
    /\ doc' = [doc EXCEPT ![k] = [c |-> op.c, ver |-> op.base + 1, ts |-> ts]]
    /\ tick' = ts
    /\ log' = [log EXCEPT ![k] = @ \cup {op.c.n}]
    /\ tied' = IF Twins(k, ts) = {} THEN tied \ {k}
               ELSE tied \cup {k} \cup Twins(k, ts)

\* The version check left out.
CommitBlind(d, k) ==
  push[d].ops[k].st = "sent" /\ Stored(push[d].ops[k], k)

\* A missing document is written whatever the base version.
CommitRecreates(d, k) ==
  LET op == push[d].ops[k]
  IN  op.st = "sent" /\ doc[k].ver \in {0, op.base} /\ Stored(op, k)

\* runOccWrite lets the op through.
Commit(d, k) ==
  LET op == push[d].ops[k]
  IN  op.st = "sent" /\ doc[k].ver = op.base /\ Stored(op, k)

CloudApply(d, k) ==
  /\ Commit(d, k)
  /\ Answered(d, k, "applied", NoContent, 0)
  /\ UNCHANGED <<local, pull, up, asked, bounds, history>>

\* The transaction commits and the answer is lost.
CloudLoseReply(d, k) ==
  /\ faults < MaxFaults
  /\ Commit(d, k)
  /\ Answered(d, k, "transient", NoContent, 0)
  /\ faults' = faults + 1
  /\ UNCHANGED <<local, pull, up, asked, edits, crashes, history>>

CloudReject(d, k) ==
  LET op == push[d].ops[k] IN
  /\ op.st = "sent"
  /\ doc[k].ver # op.base
  /\ IF doc[k].ver = 0 THEN Answered(d, k, "gone", NoContent, 0)
     ELSE Answered(d, k, "conflict", doc[k].c, doc[k].ver)
  /\ UNCHANGED <<local, pull, up, cloud, bounds, history>>

\* The request fails before it commits anything.
CloudFault(d, k, st) ==
  /\ faults < MaxFaults
  /\ push[d].ops[k].st = "sent"
  /\ Answered(d, k, st, NoContent, 0)
  /\ faults' = faults + 1
  /\ UNCHANGED <<local, pull, up, cloud, edits, crashes, history>>

\* Promise.all settles once every op of the group has its answer.
PushReply(d) ==
  /\ push[d].st = "await"
  /\ \A k \in Keys : push[d].ops[k].st # "sent"
  /\ push' = [push EXCEPT ![d].st = "reconcile"]
  /\ UNCHANGED <<local, pull, up, cloud, bounds, history>>

\* The resolver reduced to the newer stamp.
KeepsLocalByStamp(own, r) == Exists(own) /\ own.c.at > r.at

\* The local row exists and the resolver keeps it against r.
KeepsLocal(own, r) == Exists(own) /\ LocalWins(own.c, r)

Synced(c, ver) == [st |-> "synced", c |-> c, ver |-> ver]

\* What reconcile does to the business row: stampSynced, stampFailed,
\* handlePushConflict.
RowAfter(own, op) ==
  CASE op.st = "gone" -> NoRow
    [] op.st = "conflict" ->
         IF KeepsLocal(own, op.rc) THEN [own EXCEPT !.ver = op.rv]
         ELSE Synced(op.rc, op.rv)
    [] op.st = "applied" /\ Exists(own) ->
         [own EXCEPT !.st = "synced", !.ver = op.base + 1]
    [] op.st \in {"transient", "fatal"} /\ Exists(own) ->
         [own EXCEPT !.st = "failed"]
    [] OTHER -> own

\* A permanent error deletes the entry instead of burying it.
EntryAfterForgets(own, q, op) ==
  IF q.id # op.qid THEN q ELSE
  CASE op.st = "conflict" /\ KeepsLocal(own, op.rc) -> Reopened(q)
    [] op.st = "transient" -> Failed(q, TRUE)
    [] OTHER -> NoEntry

\* What it does to the queue, after the row: markSuccess, markFailure,
\* reopenWithFreshBase, all by queue row id.
EntryAfter(own, q, op) ==
  IF q.id # op.qid THEN q ELSE
  CASE op.st = "conflict" /\ KeepsLocal(own, op.rc) -> Reopened(q)
    [] op.st \in {"transient", "fatal"} -> Failed(q, op.st = "transient")
    [] OTHER -> NoEntry

\* The content an answer proves the cloud to hold or to have held.
Shown(op) == CASE op.st = "applied" -> {op.c.n}
               [] op.st = "conflict" -> {op.rc.n}
               [] OTHER -> {}

\* The row was edited while the op that has been applied was on its way: the
\* edit is taken for pushed.
Overtaken(own, op) == op.st = "applied" /\ Exists(own) /\ own.c # op.c

ReconcileRow(d, k) ==
  LET op == push[d].ops[k]
      late == IF Overtaken(row[d][k], op) THEN {k} ELSE {}
  IN  /\ push[d].st = "reconcile" /\ Replied(op)
      /\ row' = [row EXCEPT ![d][k] = RowAfter(@, op)]
      /\ seen' = [seen EXCEPT ![d][k] = @ \cup Shown(op)]
      /\ stray' = [stray EXCEPT ![d] = IF Acked(d, k)' THEN @ \ {k}
                                       ELSE @ \cup late]
      /\ dropped' = dropped \cup late

\* pushOnce returns after the first group that had an op.
ReconcileFirstGroup(d, k) ==
  LET op == push[d].ops[k]
      others == {j \in Keys \ {k} : Replied(push[d].ops[j])}
  IN  /\ ReconcileRow(d, k)
      /\ queue' = [queue EXCEPT ![d][k] = EntryAfter(row[d][k], @, op)]
      /\ push' = [push EXCEPT ![d] =
           IF others = {} THEN IdlePush
           ELSE [@ EXCEPT !.ops[k] = NoOp]]
      /\ UNCHANGED <<cursor, pull, up, cloud, bounds, winner, discarded>>

\* reconcile() of one result; after the last one of the group pushOnce goes
\* on to the next group or returns.
Reconcile(d, k) ==
  LET op == push[d].ops[k]
      others == {j \in Keys \ {k} : push[d].ops[j].st # "none"}
  IN  /\ ReconcileRow(d, k)
      /\ queue' = [queue EXCEPT ![d][k] = EntryAfter(row[d][k], @, op)]
      /\ push' = [push EXCEPT ![d] =
           [st |-> IF others = {} THEN "idle"
                   ELSE IF others \subseteq Claimed(d) THEN "build"
                   ELSE "reconcile",
            ops |-> [push[d].ops EXCEPT ![k] = NoOp]]]
      /\ UNCHANGED <<cursor, pull, up, cloud, bounds, winner, discarded>>

(***************************************************************************)
(* Pull.                                                                   *)
(***************************************************************************)
\* pullOnce begins once the cycle's push has returned.
PullStart(d) ==
  /\ up[d] /\ pull[d].st = "due" /\ push[d].st = "idle"
  /\ pull' = [pull EXCEPT ![d].st = "query"]
  /\ UNCHANGED <<local, push, up, cloud, bounds, history>>

\* pullOnce's loop moves to the next entity type, or returns.
NextEntity(d) ==
  pull' = [pull EXCEPT ![d] =
             IF @.e = NumEntities THEN IdlePull
             ELSE [IdlePull EXCEPT !.st = "query", !.e = pull[d].e + 1]]

\* The documents of the entity type after the cursor.
Fresh(d) == {k \in Keys : /\ EntityOf[k] = pull[d].e
                          /\ doc[k].ver > 0
                          /\ doc[k].ts > cursor[d][pull[d].e]}

\* The page taken from the wrong end of the order.
FirstPageNewest(d) == {k \in Fresh(d) :
  Cardinality({j \in Fresh(d) : doc[j].ts > doc[k].ts}) < PageSize}

\* The order of the query: by serverUpdatedAt, equal stamps by document name.
Before(j, k) == doc[j].ts < doc[k].ts \/ (doc[j].ts = doc[k].ts /\ j < k)

\* The first PageSize of them.
FirstPage(d) == {k \in Fresh(d) :
  Cardinality({j \in Fresh(d) : Before(j, k)}) < PageSize}

\* pullChanges; an empty page ends the entity.
PullQuery(d) ==
  /\ up[d] /\ pull[d].st = "query"
  /\ IF Fresh(d) = {} THEN NextEntity(d)
     ELSE pull' = [pull EXCEPT ![d] = [@ EXCEPT !.st = "page", !.page =
            [k \in Keys |-> IF k \in FirstPage(d) THEN doc[k] ELSE NoDoc]]]
  /\ asked' = tick
  /\ UNCHANGED <<local, push, up, doc, tick, log, tied, bounds, history>>

\* pullOnce catches the error of one entity and goes on.
PullFail(d) ==
  /\ up[d] /\ pull[d].st = "query" /\ faults < MaxFaults
  /\ faults' = faults + 1
  /\ NextEntity(d)
  /\ UNCHANGED <<local, push, up, cloud, edits, crashes, history>>

OnPage(d) == {k \in Keys : pull[d].page[k].ver > 0}

\* The resolver never runs on a pull.
PullKeepsLocalNever(d, k) == FALSE

\* applyRemote: the resolver runs only when the record has a queue entry, of
\* whatever status.
PullKeepsLocal(d, k) ==
  /\ queue[d][k].st # "none"
  /\ KeepsLocal(row[d][k], pull[d].page[k].c)

\* The page transaction: every record of the page through applyRemote.
ApplyPage(d) ==
  LET rec == pull[d].page IN
  /\ CanRun(d) /\ pull[d].st = "page"
  /\ row' = [row EXCEPT ![d] = [k \in Keys |->
       IF k \notin OnPage(d) THEN row[d][k]
       ELSE IF PullKeepsLocal(d, k) THEN [row[d][k] EXCEPT !.ver = rec[k].ver]
       ELSE Synced(rec[k].c, rec[k].ver)]]
  /\ queue' = [queue EXCEPT ![d] = [k \in Keys |->
       IF k \notin OnPage(d) THEN queue[d][k]
       ELSE IF PullKeepsLocal(d, k) THEN Reopened(queue[d][k])
       ELSE NoEntry]]
  /\ seen' = [seen EXCEPT ![d] = [k \in Keys |->
       IF k \in OnPage(d) THEN seen[d][k] \cup {rec[k].c.n}
       ELSE seen[d][k]]]
  /\ stray' = [stray EXCEPT ![d] = {k \in @ : k \notin OnPage(d)
                                             \/ ~Acked(d, k)'}]

\* The cursor moves to the last record of the page; a full page asks for
\* the next one.
PullApply(d, last) ==
  LET rec == pull[d].page
      e == pull[d].e
  IN  /\ last \in OnPage(d)
      /\ \A k \in OnPage(d) : rec[k].ts <= rec[last].ts
      /\ ApplyPage(d)
      /\ cursor' = [cursor EXCEPT ![d][e] = rec[last].ts]
      /\ IF Cardinality(OnPage(d)) = PageSize
         THEN pull' = [pull EXCEPT ![d] = [@ EXCEPT !.st = "query",
                                                    !.page = NoPage]]
         ELSE NextEntity(d)
      /\ UNCHANGED <<push, up, cloud, bounds, winner, dropped, discarded>>

(***************************************************************************)
(* Process death, relaunch, time, and the sync status screen.              *)
(***************************************************************************)
\* A fresh screen lists the entries that are dead now.
Relisted(q) == [q EXCEPT !.listed = (q.st = "dead")]

\* Everything in memory is lost; requests that did not commit never will.
Die(d) ==
  /\ up[d] /\ crashes < MaxCrashes
  /\ crashes' = crashes + 1
  /\ up' = [up EXCEPT ![d] = FALSE]
  /\ push' = [push EXCEPT ![d] = IdlePush]
  /\ pull' = [pull EXCEPT ![d] = IdlePull]

Crash(d) ==
  /\ Die(d)
  /\ UNCHANGED <<local, cloud, edits, faults, history>>

\* Death between the two statements of reconcile: the business row is
\* written, the queue entry is not.
CrashInReconcile(d, k) ==
  /\ Die(d)
  /\ ReconcileRow(d, k)
  /\ UNCHANGED <<queue, cursor, cloud, edits, faults, winner, discarded>>

\* Death between the page transaction and setCursor.
CrashInPull(d) ==
  /\ Die(d)
  /\ ApplyPage(d)
  /\ UNCHANGED <<cursor, cloud, edits, faults, winner, dropped, discarded>>

\* AppRoot's bootstrap runs the migrations before anything else;
\* SyncScheduler.start finds no entry left to reset.
Launch(d) ==
  /\ ~up[d]
  /\ up' = [up EXCEPT ![d] = TRUE]
  /\ Migrated(d)
  /\ UNCHANGED <<cursor, push, pull, cloud, bounds, seen, winner, discarded>>

\* Sign-out and sign-in within one process: SyncScheduler.start again, and
\* resetOrphanedProcessing requeues what was claimed over 60 seconds ago, the
\* ops of a push that still waits for its answers among them.
SignInAgain(d) ==
  /\ CanRun(d) /\ \E k \in Keys : queue[d][k].st = "processing"
  /\ queue' = [queue EXCEPT ![d] = [k \in Keys |->
       IF queue[d][k].st = "processing"
       THEN [Relisted(queue[d][k]) EXCEPT !.st = "queued"]
       ELSE Relisted(queue[d][k])]]
  /\ UNCHANGED <<row, cursor, push, pull, up, cloud, bounds, history>>

BackoffElapsed(d, k) ==
  /\ queue[d][k].wait
  /\ queue' = [queue EXCEPT ![d][k].wait = FALSE]
  /\ UNCHANGED <<row, cursor, push, pull, up, cloud, bounds, history>>

\* handleRetry and handleDiscard act on a listed entry whatever its status
\* has become since, and reload the list.
Retry(d, k) ==
  /\ CanRun(d) /\ queue[d][k].listed
  /\ queue' = [queue EXCEPT ![d] = [j \in Keys |->
       Relisted(IF j = k THEN Reopened(queue[d][j]) ELSE queue[d][j])]]
  /\ UNCHANGED <<row, cursor, push, pull, up, cloud, bounds, history>>

Discard(d, k) ==
  /\ CanRun(d) /\ queue[d][k].listed
  /\ queue' = [queue EXCEPT ![d] = [j \in Keys |->
       IF j = k THEN NoEntry ELSE Relisted(queue[d][j])]]
  /\ stray' = [stray EXCEPT ![d] = @ \cup {k}]
  /\ dropped' = dropped \cup {k} /\ discarded' = discarded \cup {k}
  /\ UNCHANGED <<row, cursor, push, pull, up, cloud, bounds, seen, winner>>

(***************************************************************************)
(* The specification.                                                      *)
(***************************************************************************)
EditStep(d) == \E k \in Keys : Create(d, k) \/ Update(d, k) \/ SoftDelete(d, k)

PushStep(d) ==
  \/ \E e \in 1..NumEntities : PushBuild(d, e)
  \/ PushReply(d)
  \/ \E k \in Keys : Reconcile(d, k)

CloudStep(d) == \E k \in Keys : CloudApply(d, k) \/ CloudReject(d, k)

FaultStep(d) ==
  \/ \E k \in Keys : CloudLoseReply(d, k)
  \/ \E k \in Keys, st \in {"transient", "fatal"} : CloudFault(d, k, st)
  \/ PullFail(d)

PullStep(d) ==
  \/ PullStart(d)
  \/ PullQuery(d)
  \/ \E k \in Keys : PullApply(d, k)

CrashStep(d) ==
  \/ Crash(d)
  \/ \E k \in Keys : CrashInReconcile(d, k)
  \/ CrashInPull(d)

ScreenStep(d) == \E k \in Keys : Retry(d, k) \/ Discard(d, k)

Next == \E d \in Devices :
  \/ EditStep(d)
  \/ \E withPull \in BOOLEAN : CycleStart(d, withPull)
  \/ BackgroundMigrates(d)
  \/ BackgroundPush(d)
  \/ BackgroundPull(d)
  \/ PushStep(d)
  \/ CloudStep(d)
  \/ FaultStep(d)
  \/ PullStep(d)
  \/ CrashStep(d)
  \/ Launch(d) \/ SignInAgain(d)
  \/ \E k \in Keys : BackoffElapsed(d, k)
  \/ ScreenStep(d)

Spec == Init /\ [][Next]_vars

\* A started push or pull runs on, the backend answers, the periodic timer
\* starts cycles that pull, backoffs end and the app is opened again.
\* Nothing is assumed of edits, crashes, faults or the user's taps.
Fairness == \A d \in Devices :
  /\ WF_vars(PushStep(d))
  /\ WF_vars(CloudStep(d))
  /\ WF_vars(PullStep(d))
  /\ WF_vars(CycleStart(d, TRUE))
  /\ WF_vars(Launch(d))
  /\ \A k \in Keys : WF_vars(BackoffElapsed(d, k))

FairSpec == Spec /\ Fairness

(***************************************************************************)
(* Properties.                                                             *)
(***************************************************************************)
TypeOK ==
  /\ row \in [Devices -> [Keys -> Row]]
  /\ queue \in [Devices -> [Keys -> Entry]]
  /\ cursor \in [Devices -> [1..NumEntities -> Nat]]
  /\ push \in [Devices -> Push]
  /\ pull \in [Devices -> Pull]
  /\ up \in [Devices -> BOOLEAN]
  /\ doc \in [Keys -> Doc]
  /\ tick \in Nat /\ asked \in Nat
  /\ edits \in Nat /\ crashes \in Nat /\ faults \in Nat
  /\ log \in [Keys -> SUBSET Nat]
  /\ seen \in [Devices -> [Keys -> SUBSET Nat]]
  /\ winner \in [Keys -> Content]
  /\ stray \in [Devices -> SUBSET Keys]
  /\ tied \subseteq Keys /\ dropped \subseteq Keys /\ discarded \subseteq Keys

\* trackChange's contract (change-tracker.ts:14-18), and its only limit: a row
\* that still owes the cloud a write has a queue entry that will carry it,
\* across every crash, answer and pull, unless its last edit went astray: the
\* user discarded it, the migrations of a later start dropped its entry, or
\* the answer to an older edit was taken for its own.  Claimed of an app whose
\* background tasks never run beside it (Overlap FALSE).
UnsyncedIsCarried == \A d \in Devices, k \in Keys :
  row[d][k].st \in {"pending", "failed"} =>
    queue[d][k].st # "none" \/ k \in stray[d]

\* The contract as the comments have it (change-tracker.ts:14-18, and the
\* migrations' "safe to re-run on every startup", 014:14): only the user takes
\* an owed write off the queue.  The code breaks it.
UnsyncedIsQueued == \A d \in Devices, k \in Keys :
  row[d][k].st \in {"pending", "failed"} =>
    queue[d][k].st # "none" \/ k \in discarded

\* types.ts:39, "synced: cloud acked the current local state".  The code breaks
\* it: an edit made while the row's op is in flight is stamped synced by the
\* answer to the op (sync-service.ts:498).
SyncedIsAcked == \A d \in Devices, k \in Keys :
  row[d][k].st = "synced" => row[d][k].c.n \in seen[d][k]

\* What is left of it: nothing but such an overtaken edit is ever called synced
\* wrongly, whatever crashes, lost answers, migrations and background tasks
\* come between.
SyncedIsAckedOrStray == \A d \in Devices, k \in Keys :
  row[d][k].st = "synced" => row[d][k].c.n \in seen[d][k] \/ k \in stray[d]

\* The cursor never passes a change the device was not shown: a document at or
\* below the cursor has been applied or resolved against, whatever pages,
\* failed entities and crashes came between.  The exception is a document that
\* shares its serverTimestamp with another one of its collection: the strict
\* ">" of firestore-sync-api.ts:98 skips it when a page ends between the two.
NoChangeSkipped == \A d \in Devices, k \in Keys :
  doc[k].ver > 0 /\ doc[k].ts <= cursor[d][EntityOf[k]] =>
    doc[k].c.n \in seen[d][k] \/ k \in tied

\* A device with nothing left to push, apply or pull for a key, whose last edit
\* of it did not go astray.
Settled(d, k) ==
  /\ queue[d][k].st = "none" /\ k \notin stray[d]
  /\ push[d].ops[k].st = "none" /\ k \notin OnPage(d)
  /\ doc[k].ts <= cursor[d][EntityOf[k]]

\* The document was there and has been deleted, by tombstoneGc (TombstoneGc).
Gone(k) == doc[k].ver = 0 /\ log[k] # {0}

\* A settled device holds exactly what the cloud holds: queue, versions and
\* cursor together leave no difference that nobody would repair.  Not claimed
\* of documents that share a stamp, of collected ones, and of an app whose
\* background tasks run beside it.
SettledMeansConverged == \A d \in Devices, k \in Keys :
  Settled(d, k) /\ k \notin tied /\ ~Gone(k) => row[d][k].c = doc[k].c

\* Once every device is settled on a key no edit of which ever went astray, the
\* cloud holds the last-write-wins maximum of all edits made to it: no edit was
\* lost to another that should have lost to it.  Not claimed of a collected
\* document, and of an app whose background tasks run beside it.
SettledMeansWinner == \A k \in Keys \ dropped :
  ~Gone(k) /\ (\A d \in Devices : Settled(d, k)) => doc[k].c = winner[k]

\* While no push runs, no queue entry is left in processing, where nothing
\* but the next start would look at it (sync-scheduler.ts:59-61).
NoOrphanWhileIdle == \A d \in Devices, k \in Keys :
  up[d] /\ queue[d][k].st = "processing" => push[d].ops[k].st # "none"

\* An edit the cloud has not acknowledged, and that has not gone astray, gives
\* way only to a content that the resolver does not rank below it, or goes with
\* a record that was collected.
NoEditLostToALoser == [][
  edits' = edits => \A d \in Devices, k \in Keys :
    \/ row'[d][k].c = row[d][k].c
    \/ row[d][k].c.n \in seen[d][k] \/ k \in stray[d] \/ Gone(k)
    \/ ~LocalWins(row[d][k].c, row'[d][k].c)]_vars

\* Rule 1 of the resolver (conflict-resolver.ts:13), across devices: a push
\* never replaces a tombstone of the cloud by a live record.  It holds of an
\* app whose background tasks never run beside it; with Overlap a page that is
\* applied while an op is in flight is stamped over by the op's answer, and
\* the device pushes its live record over a tombstone it never resolved
\* against.
TombstonesStick == [][\A k \in Keys :
  doc[k].c.del => doc'[k].c.del \/ doc'[k].ver = 0]_vars

\* The cloud copy behaves as CloudRecord promises: a device overwrites only
\* a content it was shown, and a tombstone is never replaced by a live
\* record (conflict-resolver.ts rule 1, firestore-sync-api.ts OCC rules).
\* Claimed of an app whose background tasks never run beside it.
Cloud == INSTANCE CloudRecord WITH record <- [k \in Keys |-> doc[k].c]

ImplementsCloudRecord == Cloud!Spec

\* With the bounded crashes and faults behind it the system settles for good:
\* every device drains its queue, sees every change and agrees with the cloud,
\* except where an entry died and waits for the user, where documents share a
\* stamp, and where the last edit went astray: that one stays alone on its
\* device until the row is edited again or another device's edit replaces it.
EventuallyConverges ==
  <>[](\A d \in Devices, k \in Keys :
         \/ Settled(d, k) /\ row[d][k].c = doc[k].c
         \/ queue[d][k].st = "dead"
         \/ k \in stray[d] \/ k \in tied)
=============================================================================
