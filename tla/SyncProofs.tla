----------------------------- MODULE SyncProofs -----------------------------
(***************************************************************************)
(* Theorems of SyncEngine and of TombstoneGc, for every set of devices and *)
(* keys, every clock skew and every bound.  First the types and what the   *)
(* push queue of a device promises.  Then what the devices, the cloud and  *)
(* the collector of tombstones agree on: one lemma says what a step can do *)
(* to one record of one device, and every later invariant is kept because  *)
(* of it.                                                                  *)
(***************************************************************************)
EXTENDS TombstoneGc, TLAPS, FiniteSetTheorems

(***************************************************************************)
(* Types of the operators the actions are built from.                      *)
(***************************************************************************)
\* The absent values have the types of the values they stand in for.
LEMMA NoTypes ==
  /\ NoContent \in Content
  /\ NoRow \in Row /\ NoEntry \in Entry /\ NoOp \in Op /\ NoDoc \in Doc
  /\ IdlePush \in Push /\ NoPage \in [Keys -> Doc] /\ IdlePull \in Pull
BY EntityAssumption DEF NoContent, Content, NoRow, Row, NoEntry, Entry, NoOp, Op, OpStates,
       NoDoc, Doc, IdlePush, Push, NoPage, IdlePull, Pull

\* Every statement on a business row leaves a business row.
LEMMA RowTypes ==
  ASSUME NEW r \in Row, NEW c \in Content, NEW v \in Nat
  PROVE  /\ [r EXCEPT !.c = c, !.st = "pending"] \in Row
         /\ [r EXCEPT !.ver = v] \in Row
         /\ Synced(c, v) \in Row
BY DEF Row, Synced

\* A claimed queue row makes an op that is not built yet.
LEMMA ClaimedOpType ==
  ASSUME NEW i \in Nat
  PROVE  [NoOp EXCEPT !.st = "claimed", !.qid = i] \in Op
BY NoTypes DEF NoOp, Op, OpStates

\* Every statement on a queue entry leaves a queue entry.
LEMMA EntryTypes ==
  ASSUME NEW q \in Entry
  PROVE  /\ Reopened(q) \in Entry
         /\ Relisted(q) \in Entry
         /\ Relisted(Reopened(q)) \in Entry
         /\ [Relisted(q) EXCEPT !.st = "queued"] \in Entry
         /\ [q EXCEPT !.st = "processing"] \in Entry
         /\ [q EXCEPT !.wait = FALSE] \in Entry
<1>1. \A p \in Entry : Reopened(p) \in Entry /\ Relisted(p) \in Entry
  BY DEF Reopened, Relisted, Entry
<1>2. [Relisted(q) EXCEPT !.st = "queued"] \in Entry
  BY <1>1 DEF Entry
<1>3. /\ [q EXCEPT !.st = "processing"] \in Entry
      /\ [q EXCEPT !.wait = FALSE] \in Entry
  BY DEF Entry
<1> QED BY <1>1, <1>2, <1>3

LEMMA EnqueuedType ==
  ASSUME NEW q \in Entry, NEW id \in Nat
  PROVE  Enqueued(q, id) \in Entry
BY DEF Enqueued, Reopened, Entry

LEMMA FailedType ==
  ASSUME NEW q \in Entry, NEW t \in BOOLEAN
  PROVE  Failed(q, t) \in Entry
<1> DEFINE dead == ~t \/ q.tries + 1 >= MaxAttempts
           next(st, n, w, f, l) ==
             [q EXCEPT !.st = st, !.tries = n, !.wait = w, !.fatal = f,
                       !.listed = l]
<1>1. \A st \in {"queued", "dead"}, n \in Nat, w, f, l \in BOOLEAN :
        next(st, n, w, f, l) \in Entry
  BY DEF Entry
<1>2. q.tries + 1 \in Nat
  BY DEF Entry
<1>3. (~t) \in BOOLEAN /\ (~dead) \in BOOLEAN /\ (q.listed \/ dead) \in BOOLEAN
  BY Zenon
<1>4. Failed(q, t) = next(IF dead THEN "dead" ELSE "queued", q.tries + 1,
                          ~dead, ~t, q.listed \/ dead)
  BY DEF Failed
<1>5. (IF dead THEN "dead" ELSE "queued") \in {"queued", "dead"}
  OBVIOUS
<1> HIDE DEF dead, next
<1> QED BY <1>1, <1>2, <1>3, <1>4, <1>5, Zenon

\* reconcile() of one answer leaves a row and a queue entry.
LEMMA AfterTypes ==
  ASSUME NEW own \in Row, NEW q \in Entry, NEW op \in Op
  PROVE  /\ RowAfter(own, op) \in Row
         /\ EntryAfter(own, q, op) \in Entry
         /\ Shown(op) \subseteq Nat
<1>1. RowAfter(own, op) \in Row
  <2>1. Synced(op.rc, op.rv) \in Row /\ [own EXCEPT !.ver = op.rv] \in Row
    BY RowTypes, Zenon DEF Op
  <2>2. op.base + 1 \in Nat
    BY DEF Op
  <2>3. /\ [own EXCEPT !.st = "synced", !.ver = op.base + 1] \in Row
        /\ [own EXCEPT !.st = "failed"] \in Row
    BY <2>2 DEF Row
  <2> QED BY NoTypes, <2>1, <2>3 DEF RowAfter
<1>2. EntryAfter(own, q, op) \in Entry
  <2>1. (op.st = "transient") \in BOOLEAN
    OBVIOUS
  <2> QED BY <2>1, NoTypes, EntryTypes, FailedType DEF EntryAfter
<1>3. Shown(op) \subseteq Nat
  BY DEF Shown, Op, Content
<1> QED BY <1>1, <1>2, <1>3

LEMMA BuiltOpType ==
  ASSUME TypeOK, NEW d \in Devices, NEW k \in Keys
  PROVE  BuiltOp(d, k) \in Op
<1>1. push[d].ops[k] \in Op /\ row[d][k] \in Row
  BY DEF TypeOK, Push
<1>2. row[d][k].c \in Content /\ row[d][k].ver \in Nat /\ "sent" \in OpStates
  BY <1>1 DEF Row, OpStates
<1>3. [push[d].ops[k] EXCEPT !.st = "sent", !.c = row[d][k].c,
                             !.base = row[d][k].ver] \in Op
  BY <1>1, <1>2 DEF Op
<1> QED BY <1>3, NoTypes DEF BuiltOp

LEMMA ContentTypes ==
  ASSUME TypeOK, NEW d \in Devices, NEW b \in BOOLEAN
  PROVE  NewContent(d, b) \in Content
BY DevicesAssumption, SkewAssumption DEF NewContent, Content, TypeOK

(***************************************************************************)
(* Types of the parts that several actions share.                          *)
(***************************************************************************)
LEMMA WriteTypes ==
  ASSUME TypeOK, NEW d \in Devices, NEW k \in Keys, NEW c \in Content,
         Write(d, k, c)
  PROVE  TypeOK'
<1>1. row' \in [Devices -> [Keys -> Row]]
  <2>1. [row[d][k] EXCEPT !.c = c, !.st = "pending"] \in Row
    <3>1. row[d][k] \in Row
      BY DEF TypeOK
    <3> QED BY <3>1, RowTypes, Zenon
  <2> QED BY <2>1 DEF Write, TypeOK
<1>2. queue' \in [Devices -> [Keys -> Entry]]
  <2>2. c.n \in Nat /\ queue[d][k] \in Entry
    BY DEF TypeOK, Content
  <2>1. Enqueued(queue[d][k], c.n) \in Entry
    BY <2>2, EnqueuedType
  <2> QED BY <2>1 DEF Write, TypeOK
<1>3. winner' \in [Keys -> Content]
  <2>1. Best(c, winner[k]) \in Content
    BY DEF Best, Resolve, TypeOK
  <2>2. winner' = [winner EXCEPT ![k] = Best(c, winner[k])]
    BY DEF Write
  <2> QED BY <2>1, <2>2 DEF TypeOK
<1>4. edits' \in Nat /\ stray' \in [Devices -> SUBSET Keys]
  BY DEF Write, TypeOK
<1> QED BY <1>1, <1>2, <1>3, <1>4 DEF Write, TypeOK, cloud

LEMMA ClaimTypes ==
  ASSUME TypeOK, NEW d \in Devices, Claim(d)
  PROVE  queue' \in [Devices -> [Keys -> Entry]] /\ push' \in [Devices -> Push]
<1>1. \A k \in Keys : /\ [queue[d][k] EXCEPT !.st = "processing"] \in Entry
                      /\ queue[d][k] \in Entry
  <2> TAKE k \in Keys
  <2>1. queue[d][k] \in Entry
    BY DEF TypeOK
  <2> QED BY <2>1, EntryTypes
<1>2. \A k \in Keys :
        [NoOp EXCEPT !.st = "claimed", !.qid = queue[d][k].id] \in Op
  <2> TAKE k \in Keys
  <2>1. queue[d][k].id \in Nat
    BY <1>1, Zenon DEF Entry
  <2> QED BY <2>1, ClaimedOpType, Zenon
<1>3. queue' \in [Devices -> [Keys -> Entry]]
  BY <1>1, Zenon DEF Claim, TypeOK
<1>4. push' \in [Devices -> Push]
  BY <1>2, NoTypes, Zenon DEF Claim, TypeOK, Push
<1> QED BY <1>3, <1>4

LEMMA AnsweredType ==
  ASSUME TypeOK, NEW d \in Devices, NEW k \in Keys, NEW st \in OpStates,
         NEW c \in Content, NEW ver \in Nat, Answered(d, k, st, c, ver)
  PROVE  push' \in [Devices -> Push]
<1>1. push[d] \in Push /\ push[d].ops[k] \in Op
  BY DEF TypeOK, Push
<1>2. [push[d].ops[k] EXCEPT !.st = st, !.rc = c, !.rv = ver] \in Op
  BY <1>1 DEF Op
<1> QED BY <1>1, <1>2 DEF Answered, TypeOK, Push

LEMMA CommitTypes ==
  ASSUME TypeOK, NEW d \in Devices, NEW k \in Keys, Commit(d, k)
  PROVE  /\ doc' \in [Keys -> Doc] /\ tick' \in Nat
         /\ log' \in [Keys -> SUBSET Nat] /\ tied' \subseteq Keys
<1>1. push[d].ops[k] \in Op
  BY DEF TypeOK, Push
<1>2. push[d].ops[k].c \in Content /\ push[d].ops[k].base + 1 \in Nat
  BY <1>1 DEF Op
<1>3. push[d].ops[k].c.n \in Nat
  BY <1>2 DEF Content
<1>4. PICK ts \in {tick, tick + 1} :
        /\ doc' = [doc EXCEPT ![k] = [c |-> push[d].ops[k].c,
                     ver |-> push[d].ops[k].base + 1, ts |-> ts]]
        /\ tick' = ts
        /\ log' = [log EXCEPT ![k] = @ \cup {push[d].ops[k].c.n}]
        /\ tied' = IF Twins(k, ts) = {} THEN tied \ {k}
                   ELSE tied \cup {k} \cup Twins(k, ts)
  BY Zenon DEF Commit, Stored
<1>5. ts \in Nat
  BY DEF TypeOK
<1>6. doc' \in [Keys -> Doc]
  BY <1>2, <1>4, <1>5 DEF TypeOK, Doc
<1>7. tick' \in Nat /\ log' \in [Keys -> SUBSET Nat]
  BY <1>3, <1>4, <1>5 DEF TypeOK
<1>8. tied' \subseteq Keys
  <2>1. Twins(k, ts) \subseteq Keys
    BY DEF Twins
  <2> QED BY <1>4, <2>1 DEF TypeOK
<1> QED BY <1>6, <1>7, <1>8

LEMMA ReconcileRowTypes ==
  ASSUME TypeOK, NEW d \in Devices, NEW k \in Keys, ReconcileRow(d, k)
  PROVE  /\ row' \in [Devices -> [Keys -> Row]]
         /\ seen' \in [Devices -> [Keys -> SUBSET Nat]]
         /\ stray' \in [Devices -> SUBSET Keys] /\ dropped' \subseteq Keys
<1>1. push[d].ops[k] \in Op /\ row[d][k] \in Row /\ queue[d][k] \in Entry
  BY DEF TypeOK, Push
<1>2. /\ RowAfter(row[d][k], push[d].ops[k]) \in Row
      /\ Shown(push[d].ops[k]) \subseteq Nat
  BY <1>1, AfterTypes
<1>3. row' \in [Devices -> [Keys -> Row]]
  BY <1>2 DEF ReconcileRow, TypeOK
<1>4. seen' \in [Devices -> [Keys -> SUBSET Nat]]
  BY <1>2 DEF ReconcileRow, TypeOK
<1>5. stray' \in [Devices -> SUBSET Keys] /\ dropped' \subseteq Keys
  BY DEF ReconcileRow, TypeOK
<1> QED BY <1>3, <1>4, <1>5

LEMMA NextEntityType ==
  ASSUME TypeOK, NEW d \in Devices, NextEntity(d)
  PROVE  pull' \in [Devices -> Pull]
<1>1. pull[d] \in Pull /\ pull[d].e \in 1..NumEntities
  BY DEF TypeOK, Pull
<1>2. pull[d].e # NumEntities =>
        [IdlePull EXCEPT !.st = "query", !.e = pull[d].e + 1] \in Pull
  <2>1. pull[d].e # NumEntities => pull[d].e + 1 \in 1..NumEntities
    BY EntityAssumption, <1>1
  <2> QED BY <2>1, NoTypes DEF Pull
<1> QED BY <1>1, <1>2, NoTypes DEF NextEntity, TypeOK

LEMMA ApplyPageTypes ==
  ASSUME TypeOK, NEW d \in Devices, ApplyPage(d)
  PROVE  /\ row' \in [Devices -> [Keys -> Row]]
         /\ queue' \in [Devices -> [Keys -> Entry]]
         /\ seen' \in [Devices -> [Keys -> SUBSET Nat]]
         /\ stray' \in [Devices -> SUBSET Keys]
<1>1. \A k \in Keys : pull[d].page[k] \in Doc
  BY DEF TypeOK, Pull
<1>2. \A k \in Keys : /\ Synced(pull[d].page[k].c, pull[d].page[k].ver) \in Row
                      /\ [row[d][k] EXCEPT !.ver = pull[d].page[k].ver] \in Row
                      /\ row[d][k] \in Row
  <2>1. \A k \in Keys : /\ pull[d].page[k].c \in Content
                        /\ pull[d].page[k].ver \in Nat
                        /\ row[d][k] \in Row
    BY <1>1 DEF TypeOK, Doc
  <2> TAKE k \in Keys
  <2>2. /\ pull[d].page[k].c \in Content /\ pull[d].page[k].ver \in Nat
        /\ row[d][k] \in Row
    BY <2>1
  <2> QED BY <2>2, RowTypes, Zenon
<1>8. \A k \in Keys : seen[d][k] \cup {pull[d].page[k].c.n} \subseteq Nat
  <2>1. \A k \in Keys : pull[d].page[k].c \in Content
    BY <1>1 DEF Doc
  <2>2. \A k \in Keys : pull[d].page[k].c.n \in Nat
    BY <2>1 DEF Content
  <2>3. \A k \in Keys : seen[d][k] \subseteq Nat
    BY DEF TypeOK
  <2> QED BY <2>2, <2>3
<1>3. \A k \in Keys : /\ Reopened(queue[d][k]) \in Entry
                      /\ queue[d][k] \in Entry
  <2> TAKE k \in Keys
  <2>1. queue[d][k] \in Entry
    BY DEF TypeOK
  <2> QED BY <2>1, EntryTypes
<1>4. row' \in [Devices -> [Keys -> Row]]
  BY <1>2 DEF ApplyPage, TypeOK
<1>5. queue' \in [Devices -> [Keys -> Entry]]
  BY <1>3, NoTypes DEF ApplyPage, TypeOK
<1>6. seen' \in [Devices -> [Keys -> SUBSET Nat]]
  <2>1. \A k \in Keys : seen[d][k] \subseteq Nat
    BY DEF TypeOK
  <2>2. [k \in Keys |-> IF k \in OnPage(d)
                        THEN seen[d][k] \cup {pull[d].page[k].c.n}
                        ELSE seen[d][k]] \in [Keys -> SUBSET Nat]
    BY <2>1, <1>8
  <2> QED BY <2>2 DEF ApplyPage, TypeOK
<1>7. stray' \in [Devices -> SUBSET Keys]
  BY DEF ApplyPage, TypeOK
<1> QED BY <1>4, <1>5, <1>6, <1>7

LEMMA DieTypes ==
  ASSUME TypeOK, NEW d \in Devices, Die(d)
  PROVE  /\ crashes' \in Nat /\ up' \in [Devices -> BOOLEAN]
         /\ push' \in [Devices -> Push] /\ pull' \in [Devices -> Pull]
BY NoTypes DEF Die, TypeOK

(***************************************************************************)
(* Type correctness.                                                       *)
(***************************************************************************)
LEMMA TypeInit == Init => TypeOK
BY NoTypes DEF Init, TypeOK

\* The migrations leave typed rows and an empty queue.
LEMMA MigratedTypes ==
  ASSUME TypeOK, NEW d \in Devices, Migrated(d)
  PROVE  /\ row' \in [Devices -> [Keys -> Row]]
         /\ queue' \in [Devices -> [Keys -> Entry]]
         /\ stray' \in [Devices -> SUBSET Keys] /\ dropped' \subseteq Keys
<1>1. ASSUME NEW k \in Keys
      PROVE  [row[d][k] EXCEPT !.st = "pending"] \in Row
  <2>1. row[d][k] \in Row
    BY DEF TypeOK
  <2> QED BY <2>1 DEF Row
<1>2. row' \in [Devices -> [Keys -> Row]]
  BY <1>1 DEF Migrated, TypeOK
<1>3. queue' \in [Devices -> [Keys -> Entry]]
  BY NoTypes DEF Migrated, TypeOK
<1>4. stray' \in [Devices -> SUBSET Keys] /\ dropped' \subseteq Keys
  BY DEF Migrated, TypeOK
<1> QED BY <1>2, <1>3, <1>4

LEMMA TypeNext ==
  ASSUME TypeOK, [Next]_vars
  PROVE  TypeOK'
<1>1. CASE UNCHANGED vars
  BY <1>1 DEF vars, TypeOK
<1>2. ASSUME NEW d \in Devices, NEW k \in Keys,
             Create(d, k) \/ Update(d, k) \/ SoftDelete(d, k)
      PROVE  TypeOK'
  <2>1. row[d][k].c.del \in BOOLEAN
    <3>1. row[d][k] \in Row
      BY DEF TypeOK
    <3>2. row[d][k].c \in Content
      BY <3>1 DEF Row
    <3> QED BY <3>2 DEF Content
  <2>2. PICK b \in BOOLEAN : Write(d, k, NewContent(d, b))
    BY <1>2, <2>1 DEF Create, Update, SoftDelete
  <2> QED BY <2>2, ContentTypes, WriteTypes
<1>3. ASSUME NEW d \in Devices, NEW w \in BOOLEAN, CycleStart(d, w)
      PROVE  TypeOK'
  <2>1. pull' \in [Devices -> Pull]
    <3>1. pull[d] \in Pull
      BY DEF TypeOK
    <3>2. [pull[d] EXCEPT !.st = IF w THEN "due" ELSE "idle"] \in Pull
      BY <3>1 DEF Pull
    <3> QED BY <1>3, <3>2 DEF CycleStart, TypeOK
  <2> QED BY <1>3, <2>1, ClaimTypes
          DEF CycleStart, TypeOK, cloud, bounds, history
<1>4. ASSUME NEW d \in Devices, BackgroundPush(d)
      PROVE  TypeOK'
  BY <1>4, ClaimTypes DEF BackgroundPush, TypeOK, cloud, bounds, history
<1>5. ASSUME NEW d \in Devices, BackgroundPull(d)
      PROVE  TypeOK'
  <2>1. [IdlePull EXCEPT !.st = "query"] \in Pull
    BY NoTypes DEF Pull
  <2> QED BY <1>5, <2>1
          DEF BackgroundPull, TypeOK, local, cloud, bounds, history
<1>6. ASSUME NEW d \in Devices, NEW e \in 1..NumEntities, PushBuild(d, e)
      PROVE  TypeOK'
  <2>1. \A k \in Keys : BuiltOp(d, k) \in Op /\ push[d].ops[k] \in Op
    <3> TAKE k \in Keys
    <3>1. push[d].ops[k] \in Op
      BY DEF TypeOK, Push
    <3> QED BY <3>1, BuiltOpType
  <2>2. push' \in [Devices -> Push]
    BY <1>6, <2>1 DEF PushBuild, TypeOK, Push
  <2>3. queue' \in [Devices -> [Keys -> Entry]]
    BY <1>6, NoTypes DEF PushBuild, TypeOK
  <2> QED BY <1>6, <2>2, <2>3
          DEF PushBuild, TypeOK, cloud, bounds, history
<1>7. ASSUME NEW d \in Devices, PushReply(d)
      PROVE  TypeOK'
  <2>1. push' \in [Devices -> Push]
    <3>1. push[d] \in Push
      BY DEF TypeOK
    <3>2. [push[d] EXCEPT !.st = "reconcile"] \in Push
      BY <3>1 DEF Push
    <3> QED BY <1>7, <3>2 DEF PushReply, TypeOK
  <2> QED BY <1>7, <2>1 DEF PushReply, TypeOK, local, cloud, bounds, history
<1>8. ASSUME NEW d \in Devices, NEW k \in Keys, Reconcile(d, k)
      PROVE  TypeOK'
  <2>1. push[d].ops[k] \in Op /\ row[d][k] \in Row /\ queue[d][k] \in Entry
    BY DEF TypeOK, Push
  <2>2. EntryAfter(row[d][k], queue[d][k], push[d].ops[k]) \in Entry
    BY <2>1, AfterTypes
  <2>3. queue' \in [Devices -> [Keys -> Entry]]
    BY <1>8, <2>2 DEF Reconcile, TypeOK
  <2>4. push' \in [Devices -> Push]
    BY <1>8, NoTypes DEF Reconcile, TypeOK, Push
  <2> QED BY <1>8, <2>3, <2>4, ReconcileRowTypes
          DEF Reconcile, TypeOK, cloud, bounds
<1>9. ASSUME NEW d \in Devices, NEW k \in Keys,
             CloudApply(d, k) \/ CloudLoseReply(d, k)
      PROVE  TypeOK'
  <2>1. "applied" \in OpStates /\ "transient" \in OpStates /\ 0 \in Nat
    BY DEF OpStates
  <2>2. push' \in [Devices -> Push]
    BY <1>9, <2>1, AnsweredType, NoTypes DEF CloudApply, CloudLoseReply
  <2>3. /\ doc' \in [Keys -> Doc] /\ tick' \in Nat
        /\ log' \in [Keys -> SUBSET Nat] /\ tied' \subseteq Keys
    BY <1>9, CommitTypes DEF CloudApply, CloudLoseReply
  <2>4. faults' \in Nat
    BY <1>9 DEF CloudApply, CloudLoseReply, TypeOK, bounds
  <2> QED BY <1>9, <2>2, <2>3, <2>4
          DEF CloudApply, CloudLoseReply, TypeOK, local, bounds, history
<1>10. ASSUME NEW d \in Devices, NEW k \in Keys, CloudReject(d, k)
       PROVE  TypeOK'
  <2>1. doc[k].c \in Content /\ doc[k].ver \in Nat
    BY DEF TypeOK, Doc
  <2>2. "gone" \in OpStates /\ "conflict" \in OpStates /\ 0 \in Nat
    BY DEF OpStates
  <2>3. push' \in [Devices -> Push]
    BY <1>10, <2>1, <2>2, AnsweredType, NoTypes DEF CloudReject
  <2> QED BY <1>10, <2>3
          DEF CloudReject, TypeOK, local, cloud, bounds, history
<1>11. ASSUME NEW d \in Devices, NEW k \in Keys,
              NEW st \in {"transient", "fatal"}, CloudFault(d, k, st)
       PROVE  TypeOK'
  <2>1. st \in OpStates /\ 0 \in Nat
    BY DEF OpStates
  <2>2. push' \in [Devices -> Push]
    BY <1>11, <2>1, AnsweredType, NoTypes DEF CloudFault
  <2>3. faults' \in Nat
    BY <1>11 DEF CloudFault, TypeOK
  <2> QED BY <1>11, <2>2, <2>3
          DEF CloudFault, TypeOK, local, cloud, history
<1>12. ASSUME NEW d \in Devices, PullFail(d)
       PROVE  TypeOK'
  <2>1. pull' \in [Devices -> Pull]
    BY <1>12, NextEntityType DEF PullFail
  <2>2. faults' \in Nat
    BY <1>12 DEF PullFail, TypeOK
  <2> QED BY <1>12, <2>1, <2>2
          DEF PullFail, TypeOK, local, cloud, history
<1>13. ASSUME NEW d \in Devices, PullStart(d)
       PROVE  TypeOK'
  <2>1. pull' \in [Devices -> Pull]
    <3>1. pull[d] \in Pull
      BY DEF TypeOK
    <3>2. [pull[d] EXCEPT !.st = "query"] \in Pull
      BY <3>1 DEF Pull
    <3> QED BY <1>13, <3>2 DEF PullStart, TypeOK
  <2> QED BY <1>13, <2>1 DEF PullStart, TypeOK, local, cloud, bounds, history
<1>14. ASSUME NEW d \in Devices, PullQuery(d)
       PROVE  TypeOK'
  <2>1. [k \in Keys |-> IF k \in FirstPage(d) THEN doc[k] ELSE NoDoc]
          \in [Keys -> Doc]
    BY NoTypes DEF TypeOK
  <2>2. pull' \in [Devices -> Pull]
    <3>1. CASE Fresh(d) = {}
      BY <1>14, <3>1, NextEntityType DEF PullQuery
    <3>2. CASE Fresh(d) # {}
      <4>1. pull[d] \in Pull
        BY DEF TypeOK
      <4>2. [pull[d] EXCEPT !.st = "page", !.page = [k \in Keys |->
               IF k \in FirstPage(d) THEN doc[k] ELSE NoDoc]] \in Pull
        BY <2>1, <4>1, Zenon DEF Pull
      <4> QED BY <1>14, <3>2, <4>2 DEF PullQuery, TypeOK
    <3> QED BY <3>1, <3>2
  <2> QED BY <1>14, <2>2 DEF PullQuery, TypeOK, local, bounds, history
<1>15. ASSUME NEW d \in Devices, NEW k \in Keys, PullApply(d, k)
       PROVE  TypeOK'
  <2>1. pull[d] \in Pull /\ pull[d].page[k] \in Doc
    BY DEF TypeOK, Pull
  <2>2. pull' \in [Devices -> Pull]
    <3>1. [pull[d] EXCEPT !.st = "query", !.page = NoPage] \in Pull
      BY <2>1, NoTypes DEF Pull
    <3> QED BY <1>15, <3>1, NextEntityType DEF PullApply, TypeOK
  <2>3. cursor' \in [Devices -> [1..NumEntities -> Nat]]
    <3>1. pull[d].page[k].ts \in Nat
      BY <2>1 DEF Doc
    <3> QED BY <1>15, <3>1 DEF PullApply, TypeOK
  <2>4. ApplyPage(d)
    BY <1>15 DEF PullApply
  <2> QED BY <1>15, <2>2, <2>3, <2>4, ApplyPageTypes
          DEF PullApply, TypeOK, cloud, bounds
<1>16. ASSUME NEW d \in Devices, Crash(d)
       PROVE  TypeOK'
  BY <1>16, DieTypes DEF Crash, TypeOK, local, cloud, history
<1>17. ASSUME NEW d \in Devices, NEW k \in Keys, CrashInReconcile(d, k)
       PROVE  TypeOK'
  BY <1>17, DieTypes, ReconcileRowTypes DEF CrashInReconcile, TypeOK, cloud
<1>18. ASSUME NEW d \in Devices, CrashInPull(d)
       PROVE  TypeOK'
  BY <1>18, DieTypes, ApplyPageTypes DEF CrashInPull, TypeOK, cloud
<1>19. ASSUME NEW d \in Devices, Launch(d)
       PROVE  TypeOK'
  <2>1. Migrated(d) /\ up' \in [Devices -> BOOLEAN]
    BY <1>19 DEF Launch, TypeOK
  <2> QED BY <1>19, <2>1, MigratedTypes DEF Launch, TypeOK, cloud, bounds
<1>23. ASSUME NEW d \in Devices, BackgroundMigrates(d)
       PROVE  TypeOK'
  <2>1. Migrated(d) /\ crashes' \in Nat
    BY <1>23 DEF BackgroundMigrates, TypeOK
  <2> QED BY <1>23, <2>1, MigratedTypes DEF BackgroundMigrates, TypeOK, cloud
<1>24. ASSUME NEW d \in Devices, SignInAgain(d)
       PROVE  TypeOK'
  <2>1. queue' \in [Devices -> [Keys -> Entry]]
    <3>1. \A j \in Keys :
            /\ Relisted(queue[d][j]) \in Entry
            /\ [Relisted(queue[d][j]) EXCEPT !.st = "queued"] \in Entry
      <4> TAKE j \in Keys
      <4>1. queue[d][j] \in Entry
        BY DEF TypeOK
      <4> QED BY <4>1, EntryTypes
    <3> QED BY <1>24, <3>1 DEF SignInAgain, TypeOK
  <2> QED BY <1>24, <2>1 DEF SignInAgain, TypeOK, cloud, bounds, history
<1>20. ASSUME NEW d \in Devices, NEW k \in Keys, BackoffElapsed(d, k)
       PROVE  TypeOK'
  <2>1. queue' \in [Devices -> [Keys -> Entry]]
    <3>1. queue[d][k] \in Entry
      BY DEF TypeOK
    <3>2. [queue[d][k] EXCEPT !.wait = FALSE] \in Entry
      BY <3>1, EntryTypes
    <3> QED BY <1>20, <3>2 DEF BackoffElapsed, TypeOK
  <2> QED BY <1>20, <2>1 DEF BackoffElapsed, TypeOK, cloud, bounds, history
<1>21. ASSUME NEW d \in Devices, NEW k \in Keys, Retry(d, k)
       PROVE  TypeOK'
  <2>1. queue' \in [Devices -> [Keys -> Entry]]
    <3>1. \A j \in Keys : /\ Relisted(Reopened(queue[d][j])) \in Entry
                          /\ Relisted(queue[d][j]) \in Entry
      <4> TAKE j \in Keys
      <4>1. queue[d][j] \in Entry
        BY DEF TypeOK
      <4> QED BY <4>1, EntryTypes
    <3> QED BY <1>21, <3>1 DEF Retry, TypeOK
  <2> QED BY <1>21, <2>1 DEF Retry, TypeOK, cloud, bounds, history
<1>22. ASSUME NEW d \in Devices, NEW k \in Keys, Discard(d, k)
       PROVE  TypeOK'
  <2>1. queue' \in [Devices -> [Keys -> Entry]]
    <3>1. \A j \in Keys : Relisted(queue[d][j]) \in Entry
      <4> TAKE j \in Keys
      <4>1. queue[d][j] \in Entry
        BY DEF TypeOK
      <4> QED BY <4>1, EntryTypes
    <3> QED BY <1>22, <3>1, NoTypes DEF Discard, TypeOK
  <2> QED BY <1>22, <2>1 DEF Discard, TypeOK, cloud, bounds
<1> QED
  BY <1>1, <1>2, <1>3, <1>4, <1>5, <1>6, <1>7, <1>8, <1>9, <1>10, <1>11,
     <1>12, <1>13, <1>14, <1>15, <1>16, <1>17, <1>18, <1>19, <1>20, <1>21,
     <1>22, <1>23, <1>24
  DEF Next, EditStep, PushStep, CloudStep, FaultStep, PullStep, CrashStep,
      ScreenStep

\* Every variable keeps its type, whatever the devices do.
THEOREM TypeCorrect == Spec => []TypeOK
<1>1. TypeOK /\ [Next]_vars => TypeOK'
  BY TypeNext
<1> QED BY TypeInit, <1>1, PTL DEF Spec

(***************************************************************************)
(* The push queue: no entry is orphaned while its process lives, and no    *)
(* row that owes the cloud a write is without an entry.                    *)
(***************************************************************************)
(***************************************************************************)
(* The inductive invariant.                                                *)
(***************************************************************************)
\* The ops of a push fit the stage it is in.
OpShape(d, k) ==
  /\ push[d].st = "idle" => push[d].ops[k].st = "none"
  /\ push[d].st = "build" => push[d].ops[k].st \in {"none", "claimed"}

OpsShape == \A d \in Devices, k \in Keys : OpShape(d, k)

\* An entry in processing belongs to the op in flight for its record.
ClaimHeld(d, k) ==
  up[d] /\ queue[d][k].st = "processing" =>
    push[d].ops[k].st # "none" /\ push[d].ops[k].qid = queue[d][k].id

ClaimsHeld == \A d \in Devices, k \in Keys : ClaimHeld(d, k)

\* Without the background task no page is fetched or applied beside a push.
PullIsAlone(d) == pull[d].st \in {"query", "page"} => push[d].st = "idle"

PullAlone == \A d \in Devices : PullIsAlone(d)

Carried(d, k) == queue[d][k].st # "none" \/ k \in stray[d]

\* A row that owes the cloud a write is carried, and so is the row of an op
\* in flight, so that an error answer cannot leave a failed row that nothing
\* will retry.
OwedIsCarried(d, k) ==
  /\ row[d][k].st \in {"pending", "failed"} => Carried(d, k)
  /\ push[d].ops[k].st # "none" => Carried(d, k) \/ ~Exists(row[d][k])

AllCarried == \A d \in Devices, k \in Keys : OwedIsCarried(d, k)

(***************************************************************************)
(* What the push actions do to the ops, read off the EXCEPTs.              *)
(***************************************************************************)
LEMMA ClaimEffect ==
  ASSUME TypeOK, NEW d \in Devices, Claim(d)
  PROVE  /\ \A x \in Devices \ {d} : push'[x] = push[x] /\ queue'[x] = queue[x]
         /\ push'[d].st \in {"idle", "build"}
         /\ push'[d].st = "idle" => Ready(d) = {}
         /\ \A k \in Ready(d) : /\ push'[d].ops[k].st = "claimed"
                                /\ push'[d].ops[k].qid = queue[d][k].id
                                /\ queue'[d][k].st = "processing"
                                /\ queue'[d][k].id = queue[d][k].id
         /\ \A k \in Keys \ Ready(d) : /\ push'[d].ops[k].st = "none"
                                       /\ queue'[d][k] = queue[d][k]
<1> DEFINE C(i) == [NoOp EXCEPT !.st = "claimed", !.qid = i]
           P(k) == [queue[d][k] EXCEPT !.st = "processing"]
<1>1. \A k \in Keys : queue[d][k] \in Entry
  BY DEF TypeOK
<1>2. \A k \in Keys : /\ P(k).st = "processing"
                      /\ P(k).id = queue[d][k].id
  BY <1>1 DEF Entry
<1>3. \A x \in Devices \ {d} : push'[x] = push[x] /\ queue'[x] = queue[x]
  BY Zenon DEF Claim, TypeOK
<1>4. push'[d] = [st |-> IF Ready(d) = {} THEN "idle" ELSE "build",
                  ops |-> [k \in Keys |->
                    IF k \in Ready(d)
                    THEN C(queue[d][k].id)
                    ELSE NoOp]]
  BY Zenon DEF Claim, TypeOK
<1>5. queue'[d] = [k \in Keys |-> IF k \in Ready(d)
                     THEN P(k)
                     ELSE queue[d][k]]
  BY Zenon DEF Claim, TypeOK
<1>6. \A i \in Nat : /\ C(i).st = "claimed"
                     /\ C(i).qid = i
  BY DEF NoOp
<1>7. Ready(d) \subseteq Keys /\ NoOp.st = "none"
  BY DEF Ready, NoOp
<1>8. \A k \in Keys : queue[d][k].id \in Nat
  BY <1>1 DEF Entry
<1> HIDE DEF C, P
<1>9. /\ push'[d].st = IF Ready(d) = {} THEN "idle" ELSE "build"
      /\ \A k \in Keys : push'[d].ops[k] =
           IF k \in Ready(d)
           THEN C(queue[d][k].id)
           ELSE NoOp
  BY <1>4
<1>10. \A k \in Keys : queue'[d][k] =
         IF k \in Ready(d) THEN P(k)
         ELSE queue[d][k]
  BY <1>5
<1>11. \A k \in Ready(d) : /\ push'[d].ops[k].st = "claimed"
                            /\ push'[d].ops[k].qid = queue[d][k].id
  BY <1>6, <1>7, <1>8, <1>9
<1>12. \A k \in Ready(d) : /\ queue'[d][k].st = "processing"
                            /\ queue'[d][k].id = queue[d][k].id
  BY <1>2, <1>7, <1>10
<1>13. \A k \in Keys \ Ready(d) : /\ push'[d].ops[k].st = "none"
                                   /\ queue'[d][k] = queue[d][k]
  BY <1>7, <1>9, <1>10
<1>14. /\ push'[d].st \in {"idle", "build"}
       /\ push'[d].st = "idle" => Ready(d) = {}
  BY <1>9
<1> QED BY <1>3, <1>11, <1>12, <1>13, <1>14

LEMMA AnsweredEffect ==
  ASSUME TypeOK, NEW d \in Devices, NEW k \in Keys, NEW st, NEW c, NEW v,
         Answered(d, k, st, c, v)
  PROVE  /\ \A x \in Devices \ {d} : push'[x] = push[x]
         /\ push'[d].st = push[d].st
         /\ \A j \in Keys \ {k} : push'[d].ops[j] = push[d].ops[j]
         /\ push'[d].ops[k].st = st
         /\ push'[d].ops[k].qid = push[d].ops[k].qid
         /\ push'[d].ops[k].c = push[d].ops[k].c
         /\ push'[d].ops[k].base = push[d].ops[k].base
         /\ push'[d].ops[k].rc = c /\ push'[d].ops[k].rv = v
<1>1. push[d] \in Push /\ push[d].ops[k] \in Op
  BY DEF TypeOK, Push
<1> DEFINE op == [push[d].ops[k] EXCEPT !.st = st, !.rc = c, !.rv = v]
<1>2. push'[d] = [push[d] EXCEPT !.ops = [push[d].ops EXCEPT ![k] = op]]
  BY DEF Answered, TypeOK
<1>3. /\ push'[d].st = push[d].st
      /\ push'[d].ops = [push[d].ops EXCEPT ![k] = op]
  <2> HIDE DEF op
  <2> QED BY <1>1, <1>2 DEF Push
<1>4. push[d].ops \in [Keys -> Op]
  BY <1>1 DEF Push
<1>5. push'[d].ops[k] = [push[d].ops[k] EXCEPT !.st = st, !.rc = c, !.rv = v]
  BY <1>3, <1>4
<1>6. /\ push'[d].ops[k].st = st /\ push'[d].ops[k].qid = push[d].ops[k].qid
      /\ push'[d].ops[k].c = push[d].ops[k].c
      /\ push'[d].ops[k].base = push[d].ops[k].base
      /\ push'[d].ops[k].rc = c /\ push'[d].ops[k].rv = v
  BY <1>1, <1>5 DEF Op
<1>7. \A j \in Keys \ {k} : push'[d].ops[j] = push[d].ops[j]
  BY <1>3, <1>4
<1>8. \A x \in Devices \ {d} : push'[x] = push[x]
  BY DEF Answered, TypeOK
<1> QED BY <1>3, <1>6, <1>7, <1>8

LEMMA BuildEffect ==
  ASSUME TypeOK, NEW d \in Devices, NEW e \in 1..NumEntities, PushBuild(d, e)
  PROVE  /\ \A x \in Devices \ {d} : push'[x] = push[x] /\ queue'[x] = queue[x]
         /\ push[d].st = "build"
         /\ \A k \in Keys :
              LET op == push[d].ops[k] op2 == push'[d].ops[k] IN
              IF op.st = "claimed" /\ EntityOf[k] = e
              THEN IF Exists(row[d][k])
                   THEN /\ op2.st = "sent" /\ op2.qid = op.qid
                        /\ op2.c = row[d][k].c /\ op2.base = row[d][k].ver
                        /\ queue'[d][k] = queue[d][k]
                        /\ push'[d].st = "await"
                   ELSE /\ op2.st = "none"
                        /\ queue'[d][k] = IF queue[d][k].id = op.qid
                                          THEN NoEntry ELSE queue[d][k]
              ELSE op2 = op /\ queue'[d][k] = queue[d][k]
         /\ push'[d].st \in {"idle", "build", "await"}
         /\ push'[d].st = "idle" =>
              \A k \in Keys : push[d].ops[k].st = "claimed" =>
                                EntityOf[k] = e /\ ~Exists(row[d][k])
         /\ push'[d].st = "build" =>
              \A k \in Keys : push[d].ops[k].st = "claimed" /\ EntityOf[k] = e =>
                                ~Exists(row[d][k])
<1> DEFINE group == {k \in Claimed(d) : EntityOf[k] = e}
           lost == {k \in group : ~Exists(row[d][k])}
           ops == [k \in Keys |-> IF k \in group THEN BuiltOp(d, k)
                                  ELSE push[d].ops[k]]
<1>1. \A k \in Keys : push[d].ops[k] \in Op
  BY DEF TypeOK, Push
<1>2. push'[d] = [st |-> IF group # lost THEN "await"
                         ELSE IF Claimed(d) = group THEN "idle" ELSE "build",
                  ops |-> ops]
  BY DEF PushBuild, TypeOK
<1>3. queue'[d] = [k \in Keys |->
                     IF k \in lost /\ queue[d][k].id = push[d].ops[k].qid
                     THEN NoEntry ELSE queue[d][k]]
  BY DEF PushBuild, TypeOK
<1>4. \A x \in Devices \ {d} : push'[x] = push[x] /\ queue'[x] = queue[x]
  BY DEF PushBuild, TypeOK
<1>5. push[d].st = "build"
  BY DEF PushBuild
<1>6. \A k \in Keys : /\ k \in group <=> push[d].ops[k].st = "claimed" /\ EntityOf[k] = e
                      /\ k \in lost <=> k \in group /\ ~Exists(row[d][k])
                      /\ k \in Claimed(d) <=> push[d].ops[k].st = "claimed"
  BY DEF Claimed
<1>7. group \subseteq Keys /\ lost \subseteq group /\ Claimed(d) \subseteq Keys
  BY DEF Claimed
<1>8. \A k \in Keys : Exists(row[d][k]) =>
         /\ BuiltOp(d, k).st = "sent" /\ BuiltOp(d, k).qid = push[d].ops[k].qid
         /\ BuiltOp(d, k).c = row[d][k].c /\ BuiltOp(d, k).base = row[d][k].ver
  BY <1>1 DEF BuiltOp, Op
<1>9. \A k \in Keys : ~Exists(row[d][k]) => BuiltOp(d, k).st = "none"
  BY DEF BuiltOp, NoOp
<1>10. /\ push'[d].st = IF group # lost THEN "await"
                        ELSE IF Claimed(d) = group THEN "idle" ELSE "build"
       /\ push'[d].ops = ops
  BY <1>2
<1>11. \A k \in Keys : /\ k \in group => push'[d].ops[k] = BuiltOp(d, k)
                       /\ k \notin group => push'[d].ops[k] = push[d].ops[k]
  BY <1>10
<1>12. \A k \in Keys :
         /\ k \in lost => queue'[d][k] = IF queue[d][k].id = push[d].ops[k].qid
                                         THEN NoEntry ELSE queue[d][k]
         /\ k \notin lost => queue'[d][k] = queue[d][k]
  BY <1>3
<1>13. \A k \in Keys : k \in group /\ Exists(row[d][k]) => push'[d].st = "await"
  BY <1>6, <1>10
<1>14. push'[d].st \in {"idle", "build", "await"}
  BY <1>10
<1>15. push'[d].st = "idle" => group = lost /\ Claimed(d) = group
  BY <1>10
<1>16. push'[d].st = "build" => group = lost
  BY <1>10
<1> HIDE DEF group, lost, ops
<1>17. \A k \in Keys :
         push[d].ops[k].st = "claimed" /\ EntityOf[k] = e =>
           IF Exists(row[d][k])
           THEN /\ push'[d].ops[k].st = "sent"
                /\ push'[d].ops[k].qid = push[d].ops[k].qid
                /\ push'[d].ops[k].c = row[d][k].c
                /\ push'[d].ops[k].base = row[d][k].ver
                /\ queue'[d][k] = queue[d][k]
                /\ push'[d].st = "await"
           ELSE /\ push'[d].ops[k].st = "none"
                /\ queue'[d][k] = IF queue[d][k].id = push[d].ops[k].qid
                                  THEN NoEntry ELSE queue[d][k]
  BY <1>6, <1>8, <1>9, <1>11, <1>12, <1>13
<1>18. \A k \in Keys :
         ~(push[d].ops[k].st = "claimed" /\ EntityOf[k] = e) =>
           push'[d].ops[k] = push[d].ops[k] /\ queue'[d][k] = queue[d][k]
  BY <1>6, <1>11, <1>12
<1> QED BY <1>4, <1>5, <1>6, <1>14, <1>15, <1>16, <1>17, <1>18

LEMMA ReconcileEffect ==
  ASSUME TypeOK, NEW d \in Devices, NEW k \in Keys, Reconcile(d, k)
  PROVE  /\ \A x \in Devices \ {d} : push'[x] = push[x]
         /\ push[d].st = "reconcile"
         /\ push'[d].ops[k].st = "none"
         /\ \A j \in Keys \ {k} : push'[d].ops[j] = push[d].ops[j]
         /\ push'[d].st \in {"idle", "build", "reconcile"}
         /\ push'[d].st = "idle" =>
              \A j \in Keys \ {k} : push[d].ops[j].st = "none"
         /\ push'[d].st = "build" =>
              \A j \in Keys \ {k} : push[d].ops[j].st \in {"none", "claimed"}
<1> DEFINE others == {j \in Keys \ {k} : push[d].ops[j].st # "none"}
<1>1. push'[d] = [st |-> IF others = {} THEN "idle"
                         ELSE IF others \subseteq Claimed(d) THEN "build"
                         ELSE "reconcile",
                  ops |-> [push[d].ops EXCEPT ![k] = NoOp]]
  BY DEF Reconcile, TypeOK
<1>2. push[d].ops \in [Keys -> Op] /\ NoOp.st = "none"
  BY DEF TypeOK, Push, NoOp
<1>3. /\ push'[d].st = IF others = {} THEN "idle"
                       ELSE IF others \subseteq Claimed(d) THEN "build"
                       ELSE "reconcile"
      /\ push'[d].ops = [push[d].ops EXCEPT ![k] = NoOp]
  BY <1>1
<1>4. push'[d].ops[k].st = "none" /\ \A j \in Keys \ {k} : push'[d].ops[j] = push[d].ops[j]
  BY <1>2, <1>3
<1>5. push'[d].st = "idle" => \A j \in Keys \ {k} : push[d].ops[j].st = "none"
  BY <1>3
<1>6. push'[d].st = "build" =>
        \A j \in Keys \ {k} : push[d].ops[j].st \in {"none", "claimed"}
  BY <1>3 DEF Claimed
<1>7. push'[d].st \in {"idle", "build", "reconcile"}
  BY <1>3
<1>8. \A x \in Devices \ {d} : push'[x] = push[x]
  BY DEF Reconcile, TypeOK
<1>9. push[d].st = "reconcile"
  BY DEF Reconcile, ReconcileRow
<1> QED BY <1>4, <1>5, <1>6, <1>7, <1>8, <1>9

LEMMA ReplyEffect ==
  ASSUME TypeOK, NEW d \in Devices, PushReply(d)
  PROVE  /\ \A x \in Devices \ {d} : push'[x] = push[x]
         /\ push[d].st = "await" /\ push'[d].st = "reconcile"
         /\ push'[d].ops = push[d].ops
<1>1. push[d] \in Push
  BY DEF TypeOK
<1>2. push'[d] = [push[d] EXCEPT !.st = "reconcile"]
  BY DEF PushReply, TypeOK
<1>3. push'[d].st = "reconcile" /\ push'[d].ops = push[d].ops
  BY <1>1, <1>2 DEF Push
<1>4. \A x \in Devices \ {d} : push'[x] = push[x]
  BY DEF PushReply, TypeOK
<1> QED BY <1>3, <1>4 DEF PushReply

LEMMA DieEffect ==
  ASSUME TypeOK, NEW d \in Devices, Die(d)
  PROVE  /\ \A x \in Devices \ {d} : /\ push'[x] = push[x] /\ pull'[x] = pull[x]
                                     /\ up'[x] = up[x]
         /\ ~up'[d] /\ push'[d].st = "idle" /\ pull'[d].st = "idle"
         /\ \A k \in Keys : push'[d].ops[k].st = "none"
BY DEF Die, TypeOK, IdlePush, IdlePull, NoOp

\* The answers of the backend, in one fact.
LEMMA CloudEffect ==
  ASSUME TypeOK, NEW d \in Devices, CloudStep(d) \/ FaultStep(d)
  PROVE  /\ UNCHANGED <<row, queue, cursor, up, edits, seen, winner, stray, dropped>>
         /\ \/ UNCHANGED push
            \/ UNCHANGED pull /\ \E k \in Keys, st \in OpStates \ {"none", "claimed", "sent"}, c \in Content, v \in Nat :
                 push[d].ops[k].st = "sent" /\ Answered(d, k, st, c, v)
<1>1. NoContent \in Content /\ 0 \in Nat
  BY NoTypes
<1>2. \A k \in Keys : doc[k].c \in Content /\ doc[k].ver \in Nat
  BY DEF TypeOK, Doc
<1>3. ASSUME NEW k \in Keys, CloudApply(d, k) \/ CloudLoseReply(d, k)
      PROVE  \E st \in OpStates \ {"none", "claimed", "sent"} :
               push[d].ops[k].st = "sent" /\ Answered(d, k, st, NoContent, 0)
  BY <1>3 DEF CloudApply, CloudLoseReply, Commit, OpStates
<1>4. ASSUME NEW k \in Keys, CloudReject(d, k)
      PROVE  \E st \in OpStates \ {"none", "claimed", "sent"}, c \in Content, v \in Nat :
               push[d].ops[k].st = "sent" /\ Answered(d, k, st, c, v)
  BY <1>1, <1>2, <1>4 DEF CloudReject, OpStates
<1>5. ASSUME NEW k \in Keys, NEW st \in {"transient", "fatal"}, CloudFault(d, k, st)
      PROVE  /\ st \in OpStates \ {"none", "claimed", "sent"}
             /\ push[d].ops[k].st = "sent" /\ Answered(d, k, st, NoContent, 0)
  BY <1>5 DEF CloudFault, OpStates
<1>6. UNCHANGED <<row, queue, cursor, up, edits, seen, winner, stray, dropped>>
  BY DEF CloudStep, FaultStep, CloudApply, CloudReject, CloudLoseReply,
         CloudFault, PullFail, local, bounds, history
<1>7. CASE \E k \in Keys : \/ CloudApply(d, k) \/ CloudLoseReply(d, k)
                           \/ CloudReject(d, k)
                           \/ \E st \in {"transient", "fatal"} : CloudFault(d, k, st)
  <2>1. UNCHANGED pull
    BY <1>7 DEF CloudApply, CloudReject, CloudLoseReply, CloudFault
  <2> QED BY <1>1, <1>3, <1>4, <1>5, <1>6, <1>7, <2>1
<1>8. CASE PullFail(d)
  BY <1>6, <1>8 DEF PullFail
<1> QED BY <1>7, <1>8 DEF CloudStep, FaultStep

(***************************************************************************)
(* The ops of a push fit its stage.                                        *)
(***************************************************************************)
\* Every step leaves the pushes alone or is one of the push's own.
LEMMA PushSteps ==
  ASSUME [Next]_vars
  PROVE  \/ UNCHANGED push
         \/ \E d \in Devices :
              \/ Claim(d) /\ push[d].st = "idle"
              \/ \E e \in 1..NumEntities : PushBuild(d, e)
              \/ PushReply(d)
              \/ \E k \in Keys : Reconcile(d, k)
              \/ CloudStep(d) \/ FaultStep(d)
              \/ Die(d)
<1>1. CASE UNCHANGED vars
  BY <1>1 DEF vars
<1>2. ASSUME NEW d \in Devices,
             \/ EditStep(d) \/ BackgroundPull(d) \/ PullStep(d)
             \/ Launch(d) \/ SignInAgain(d) \/ ScreenStep(d)
             \/ BackgroundMigrates(d)
             \/ \E k \in Keys : BackoffElapsed(d, k)
      PROVE  UNCHANGED push
  BY <1>2, Zenon DEF EditStep, Create, Update, SoftDelete, Write, BackgroundPull,
     BackgroundMigrates,
     PullStep, PullStart, PullQuery, PullApply, Launch, SignInAgain, ScreenStep,
     Retry, Discard, BackoffElapsed
<1>3. ASSUME NEW d \in Devices,
             \/ \E w \in BOOLEAN : CycleStart(d, w)
             \/ BackgroundPush(d)
      PROVE  Claim(d) /\ push[d].st = "idle"
  BY <1>3 DEF CycleStart, BackgroundPush
<1>4. ASSUME NEW d \in Devices, CrashStep(d)
      PROVE  Die(d)
  BY <1>4 DEF CrashStep, Crash, CrashInReconcile, CrashInPull
<1> QED BY <1>1, <1>2, <1>3, <1>4 DEF Next, PushStep

LEMMA OpsShapeInit == Init => OpsShape
BY DEF Init, OpsShape, OpShape, IdlePush, NoOp

LEMMA OpsShapeNext ==
  ASSUME TypeOK, OpsShape, [Next]_vars
  PROVE  OpsShape'
<1> SUFFICES ASSUME NEW x \in Devices, NEW j \in Keys
             PROVE  OpShape(x, j)'
  BY DEF OpsShape
<1>0. \A k \in Keys : OpShape(x, k)
  BY DEF OpsShape
<1>1. CASE UNCHANGED push
  BY <1>0, <1>1 DEF OpShape
<1>2. ASSUME NEW d \in Devices, Claim(d), push[d].st = "idle"
      PROVE  OpShape(x, j)'
  BY <1>0, <1>2, ClaimEffect DEF OpShape
<1>3. ASSUME NEW d \in Devices, NEW e \in 1..NumEntities, PushBuild(d, e)
      PROVE  OpShape(x, j)'
  BY <1>0, <1>3, BuildEffect DEF OpShape
<1>4. ASSUME NEW d \in Devices, PushReply(d)
      PROVE  OpShape(x, j)'
  BY <1>0, <1>4, ReplyEffect DEF OpShape
<1>5. ASSUME NEW d \in Devices, NEW k \in Keys, Reconcile(d, k)
      PROVE  OpShape(x, j)'
  BY <1>0, <1>5, ReconcileEffect DEF OpShape
<1>6. ASSUME NEW d \in Devices, CloudStep(d) \/ FaultStep(d)
      PROVE  OpShape(x, j)'
  <2>1. CASE UNCHANGED push
    BY <1>0, <2>1 DEF OpShape
  <2>2. ASSUME NEW k \in Keys, NEW st \in OpStates, NEW c \in Content,
               NEW v \in Nat,
               push[d].ops[k].st = "sent", Answered(d, k, st, c, v)
        PROVE  OpShape(x, j)'
    <3>1. /\ \A y \in Devices \ {d} : push'[y] = push[y]
          /\ push'[d].st = push[d].st
      BY <2>2, AnsweredEffect
    <3> QED BY <1>0, <2>2, <3>1 DEF OpShape, OpsShape
  <2> QED BY <1>6, <2>1, <2>2, CloudEffect
<1>7. ASSUME NEW d \in Devices, Die(d)
      PROVE  OpShape(x, j)'
  BY <1>0, <1>7, DieEffect DEF OpShape
<1> QED BY <1>1, <1>2, <1>3, <1>4, <1>5, <1>6, <1>7, PushSteps

LEMMA OpsShapeAlways == Spec => []OpsShape
<1>1. TypeOK /\ OpsShape /\ [Next]_vars => OpsShape'
  BY OpsShapeNext
<1> QED BY OpsShapeInit, <1>1, TypeCorrect, PTL DEF Spec

(***************************************************************************)
(* No orphan.                                                              *)
(***************************************************************************)
\* What the statements on one entry do to its status and its id.
LEMMA EntryEffects ==
  ASSUME NEW q \in Entry
  PROVE  /\ Reopened(q).st = "queued"
         /\ Relisted(q).st = q.st /\ Relisted(q).id = q.id
         /\ Relisted(Reopened(q)).st = "queued"
         /\ [q EXCEPT !.wait = FALSE].st = q.st
         /\ [q EXCEPT !.wait = FALSE].id = q.id
         /\ [Relisted(q) EXCEPT !.st = "queued"].st = "queued"
         /\ \A i \in Nat : Enqueued(q, i).st = "queued"
         /\ \A t \in BOOLEAN : Failed(q, t).st \in {"dead", "queued"}
         /\ NoEntry.st = "none"
<1>1. \A p \in Entry : /\ Reopened(p).st = "queued" /\ Reopened(p) \in Entry
                       /\ Relisted(p).st = p.st /\ Relisted(p).id = p.id
                       /\ Relisted(p) \in Entry
  BY DEF Reopened, Relisted, Entry
<1>2. [Relisted(q) EXCEPT !.st = "queued"].st = "queued"
  BY <1>1 DEF Entry
<1>3. \A i \in Nat : Enqueued(q, i).st = "queued"
  BY DEF Enqueued, Reopened, Entry
<1>4. \A t \in BOOLEAN : Failed(q, t).st \in {"dead", "queued"}
  BY DEF Failed, Entry
<1>5. [q EXCEPT !.wait = FALSE].st = q.st /\ [q EXCEPT !.wait = FALSE].id = q.id
  BY DEF Entry
<1> QED BY <1>1, <1>2, <1>3, <1>4, <1>5 DEF NoEntry

\* The four statements reconcile may end with on an entry of its own.
LEMMA EntryAfterCases ==
  ASSUME NEW own, NEW q, NEW op, q.id = op.qid
  PROVE  \/ EntryAfter(own, q, op) = Reopened(q)
         \/ EntryAfter(own, q, op) = Failed(q, TRUE) /\ op.st = "transient"
         \/ EntryAfter(own, q, op) = Failed(q, FALSE) /\ op.st = "fatal"
         \/ EntryAfter(own, q, op) = NoEntry /\ op.st \notin {"transient", "fatal"}
              /\ (op.st = "conflict" => ~KeepsLocal(own, op.rc))
<1>1. CASE op.st = "transient"
  <2>1. EntryAfter(own, q, op) = Failed(q, op.st = "transient")
    BY <1>1 DEF EntryAfter
  <2>2. (op.st = "transient") = TRUE
    BY <1>1
  <2>3. EntryAfter(own, q, op) = Failed(q, TRUE)
    BY ONLY <2>1, <2>2
  <2> QED BY <1>1, <2>3
<1>2. CASE op.st = "fatal"
  <2>1. EntryAfter(own, q, op) = Failed(q, op.st = "transient")
    BY <1>2 DEF EntryAfter
  <2>2. (op.st = "transient") = FALSE
    BY <1>2
  <2>3. EntryAfter(own, q, op) = Failed(q, FALSE)
    BY ONLY <2>1, <2>2
  <2> QED BY <1>2, <2>3
<1>3. CASE op.st \notin {"transient", "fatal"}
  BY <1>3 DEF EntryAfter
<1> QED BY <1>1, <1>2, <1>3

LEMMA WriteEffect ==
  ASSUME TypeOK, NEW d \in Devices, EditStep(d)
  PROVE  /\ UNCHANGED <<push, pull, up>>
         /\ \E k \in Keys :
              /\ queue'[d][k].st = "queued"
              /\ \A x \in Devices, j \in Keys : x # d \/ j # k =>
                   /\ queue'[x][j] = queue[x][j] /\ row'[x][j] = row[x][j]
                   /\ (j \in stray'[x] <=> j \in stray[x])
              /\ Exists(row'[d][k])
<1> PICK k \in Keys, b \in BOOLEAN : Write(d, k, NewContent(d, b))
  <2>1. \A k \in Keys : row[d][k].c.del \in BOOLEAN
    <3>1. \A k \in Keys : row[d][k].c \in Content
      BY DEF TypeOK, Row
    <3> QED BY <3>1 DEF Content
  <2> QED BY <2>1 DEF EditStep, Create, Update, SoftDelete
<1> DEFINE c == NewContent(d, b)
<1>1. c \in Content /\ c.n \in Nat
  BY ContentTypes DEF Content
<1> HIDE DEF c
<1>2. queue[d][k] \in Entry /\ row[d][k] \in Row
  BY DEF TypeOK
<1>3. Enqueued(queue[d][k], c.n).st = "queued"
  BY <1>1, <1>2, EntryEffects
<1>4. queue' = [queue EXCEPT ![d][k] = Enqueued(queue[d][k], c.n)]
  BY DEF Write, c
<1>5. queue'[d][k].st = "queued"
  BY <1>3, <1>4 DEF TypeOK
<1>6. row' = [row EXCEPT ![d][k] = [row[d][k] EXCEPT !.c = c, !.st = "pending"]]
  BY DEF Write, c
<1>7. Exists(row'[d][k])
  <2>1. [row[d][k] EXCEPT !.c = c, !.st = "pending"].st = "pending"
    BY <1>1, <1>2 DEF Row
  <2> QED BY <1>6, <2>1 DEF TypeOK, Exists
<1>8. \A x \in Devices, j \in Keys : x # d \/ j # k =>
        queue'[x][j] = queue[x][j] /\ row'[x][j] = row[x][j]
  BY <1>4, <1>6 DEF TypeOK
<1>9. \A x \in Devices, j \in Keys : x # d \/ j # k =>
        (j \in stray'[x] <=> j \in stray[x])
  BY DEF Write, TypeOK
<1>10. UNCHANGED <<push, pull, up>>
  BY DEF Write
<1> QED BY <1>5, <1>7, <1>8, <1>9, <1>10

LEMMA ReconcileEntryEffect ==
  ASSUME TypeOK, NEW d \in Devices, NEW k \in Keys, Reconcile(d, k)
  PROVE  /\ up' = up /\ pull' = pull
         /\ \A x \in Devices, j \in Keys : x # d \/ j # k =>
              queue'[x][j] = queue[x][j]
         /\ queue'[d][k] = EntryAfter(row[d][k], queue[d][k], push[d].ops[k])
BY DEF Reconcile, TypeOK

LEMMA ApplyPageEffect ==
  ASSUME TypeOK, NEW d \in Devices, ApplyPage(d)
  PROVE  /\ push[d].st \notin {"build", "reconcile"} /\ pull[d].st = "page"
         /\ \A x \in Devices \ {d} : /\ queue'[x] = queue[x] /\ row'[x] = row[x]
                                     /\ stray'[x] = stray[x]
         /\ \A k \in Keys :
              \/ queue'[d][k] = queue[d][k] /\ row'[d][k] = row[d][k]
              \/ queue'[d][k].st = "queued"
              \/ queue'[d][k].st = "none" /\ row'[d][k].st = "synced"
<1>1. \A k \in Keys : queue[d][k] \in Entry /\ row[d][k] \in Row
  BY DEF TypeOK
<1>2. \A k \in Keys : Reopened(queue[d][k]).st = "queued"
  BY <1>1, EntryEffects
<1>3. \A k \in Keys : queue'[d][k] =
        IF k \notin OnPage(d) THEN queue[d][k]
        ELSE IF PullKeepsLocal(d, k) THEN Reopened(queue[d][k])
        ELSE NoEntry
  BY DEF ApplyPage, TypeOK
<1>4. \A k \in Keys : row'[d][k] =
        IF k \notin OnPage(d) THEN row[d][k]
        ELSE IF PullKeepsLocal(d, k)
             THEN [row[d][k] EXCEPT !.ver = pull[d].page[k].ver]
             ELSE Synced(pull[d].page[k].c, pull[d].page[k].ver)
  BY DEF ApplyPage, TypeOK
<1>5. \A k \in Keys : Synced(pull[d].page[k].c, pull[d].page[k].ver).st = "synced"
  BY DEF Synced
<1>6. \A k \in Keys :
        \/ queue'[d][k] = queue[d][k] /\ row'[d][k] = row[d][k]
        \/ queue'[d][k].st = "queued"
        \/ queue'[d][k].st = "none" /\ row'[d][k].st = "synced"
  <2> TAKE k \in Keys
  <2>1. CASE k \notin OnPage(d)
    BY <1>3, <1>4, <2>1
  <2>2. CASE k \in OnPage(d) /\ PullKeepsLocal(d, k)
    BY <1>2, <1>3, <2>2
  <2>3. CASE k \in OnPage(d) /\ ~PullKeepsLocal(d, k)
    <3>1. queue'[d][k] = NoEntry
      BY <1>3, <2>3
    <3>2. row'[d][k] = Synced(pull[d].page[k].c, pull[d].page[k].ver)
      BY <1>4, <2>3
    <3> QED BY <1>5, <3>1, <3>2 DEF NoEntry
  <2> QED BY <2>1, <2>2, <2>3
<1>7. \A x \in Devices \ {d} : /\ queue'[x] = queue[x] /\ row'[x] = row[x]
                               /\ stray'[x] = stray[x]
  BY DEF ApplyPage, TypeOK
<1> QED BY <1>6, <1>7 DEF ApplyPage, CanRun, Busy

LEMMA ClaimsHeldInit == Init => ClaimsHeld
BY DEF Init, ClaimsHeld, ClaimHeld, NoEntry

LEMMA ClaimsHeldNext ==
  ASSUME TypeOK, OpsShape, ClaimsHeld, [Next]_vars
  PROVE  ClaimsHeld'
<1> SUFFICES ASSUME NEW x \in Devices, NEW j \in Keys
             PROVE  ClaimHeld(x, j)'
  BY DEF ClaimsHeld
<1>0. ClaimHeld(x, j) /\ OpShape(x, j)
  BY DEF ClaimsHeld, OpsShape
<1>00. queue[x][j] \in Entry /\ queue[x][j].id \in Nat /\ row[x][j] \in Row
  BY DEF TypeOK, Entry
<1>1. CASE UNCHANGED vars
  BY <1>0, <1>1 DEF ClaimHeld, vars
<1>2. ASSUME NEW d \in Devices, EditStep(d)
      PROVE  ClaimHeld(x, j)'
  BY <1>0, <1>2, WriteEffect DEF ClaimHeld
<1>3. ASSUME NEW d \in Devices,
             (\E w \in BOOLEAN : CycleStart(d, w)) \/ BackgroundPush(d)
      PROVE  ClaimHeld(x, j)'
  <2>1. Claim(d) /\ push[d].st = "idle" /\ up' = up /\ up[d]
    BY <1>3 DEF CycleStart, BackgroundPush
  <2>2. CASE x # d
    BY <1>0, <2>1, <2>2, ClaimEffect DEF ClaimHeld
  <2>3. CASE x = d /\ j \in Ready(d)
    BY <2>1, <2>3, ClaimEffect DEF ClaimHeld
  <2>4. CASE x = d /\ j \notin Ready(d)
    BY <1>0, <2>1, <2>4, ClaimEffect DEF ClaimHeld, OpShape
  <2> QED BY <2>2, <2>3, <2>4
<1>4. ASSUME NEW d \in Devices, NEW e \in 1..NumEntities, PushBuild(d, e)
      PROVE  ClaimHeld(x, j)'
  <2>1. up' = up
    BY <1>4 DEF PushBuild
  <2>2. CASE x # d
    BY <1>0, <1>4, <2>1, <2>2, BuildEffect DEF ClaimHeld
  <2>3. CASE x = d /\ ~(push[d].ops[j].st = "claimed" /\ EntityOf[j] = e)
    BY <1>0, <1>4, <2>1, <2>3, BuildEffect DEF ClaimHeld
  <2>4. CASE x = d /\ push[d].ops[j].st = "claimed" /\ EntityOf[j] = e
                   /\ Exists(row[d][j])
    BY <1>0, <1>4, <2>1, <2>4, BuildEffect DEF ClaimHeld
  <2>5. CASE x = d /\ push[d].ops[j].st = "claimed" /\ EntityOf[j] = e
                   /\ ~Exists(row[d][j])
    <3>1. queue'[d][j] = IF queue[d][j].id = push[d].ops[j].qid
                         THEN NoEntry ELSE queue[d][j]
      BY <1>4, <2>5, BuildEffect
    <3> QED BY <1>0, <2>1, <2>5, <3>1 DEF ClaimHeld, NoEntry
  <2> QED BY <2>2, <2>3, <2>4, <2>5
<1>5. ASSUME NEW d \in Devices, PushReply(d)
      PROVE  ClaimHeld(x, j)'
  <2>1. up' = up /\ queue' = queue
    BY <1>5 DEF PushReply, local
  <2> QED BY <1>0, <1>5, <2>1, ReplyEffect DEF ClaimHeld
<1>6. ASSUME NEW d \in Devices, NEW k \in Keys, Reconcile(d, k)
      PROVE  ClaimHeld(x, j)'
  <2>1. CASE x # d \/ j # k
    <3>1. queue'[x][j] = queue[x][j] /\ up' = up
      BY <1>6, <2>1, ReconcileEntryEffect
    <3>2. push'[x].ops[j] = push[x].ops[j]
      BY <1>6, <2>1, ReconcileEffect
    <3> QED BY <1>0, <3>1, <3>2 DEF ClaimHeld
  <2>2. CASE x = d /\ j = k
    <3>1. queue'[d][k] = EntryAfter(row[d][k], queue[d][k], push[d].ops[k])
      BY <1>6, ReconcileEntryEffect
    <3>2. up' = up
      BY <1>6, ReconcileEntryEffect
    <3>3. CASE queue[d][k].id # push[d].ops[k].qid
      BY <1>0, <2>2, <3>1, <3>2, <3>3 DEF EntryAfter, ClaimHeld
    <3>4. CASE queue[d][k].id = push[d].ops[k].qid
      <4>1. \/ queue'[d][k] = Reopened(queue[d][k])
            \/ queue'[d][k] = Failed(queue[d][k], TRUE)
            \/ queue'[d][k] = Failed(queue[d][k], FALSE)
            \/ queue'[d][k] = NoEntry
        BY <3>1, <3>4, EntryAfterCases
      <4>2. queue'[d][k].st # "processing"
        BY <1>00, <2>2, <4>1, EntryEffects
      <4> QED BY <2>2, <4>2 DEF ClaimHeld
    <3> QED BY <3>3, <3>4
  <2> QED BY <2>1, <2>2
<1>7. ASSUME NEW d \in Devices, CloudStep(d) \/ FaultStep(d)
      PROVE  ClaimHeld(x, j)'
  <2>0. queue' = queue /\ up' = up
    BY <1>7, CloudEffect
  <2>1. CASE UNCHANGED push
    BY <1>0, <2>0, <2>1 DEF ClaimHeld
  <2>2. ASSUME NEW k \in Keys, NEW st \in OpStates \ {"none", "claimed", "sent"},
               NEW c \in Content, NEW v \in Nat, Answered(d, k, st, c, v)
        PROVE  ClaimHeld(x, j)'
    <3>1. /\ \A y \in Devices \ {d} : push'[y] = push[y]
          /\ \A i \in Keys \ {k} : push'[d].ops[i] = push[d].ops[i]
          /\ push'[d].ops[k].st # "none"
          /\ push'[d].ops[k].qid = push[d].ops[k].qid
      BY <2>2, AnsweredEffect
    <3> QED BY <1>0, <2>0, <3>1 DEF ClaimHeld
  <2> QED BY <1>7, <2>1, <2>2, CloudEffect
<1>8. ASSUME NEW d \in Devices, BackgroundPull(d) \/ PullStart(d) \/ PullQuery(d)
      PROVE  ClaimHeld(x, j)'
  BY <1>0, <1>8
     DEF ClaimHeld, BackgroundPull, PullStart, PullQuery, local
<1>9. ASSUME NEW d \in Devices, NEW k \in Keys, PullApply(d, k)
      PROVE  ClaimHeld(x, j)'
  <2>1. ApplyPage(d) /\ push' = push /\ up' = up
    BY <1>9 DEF PullApply
  <2> QED BY <1>0, <2>1, ApplyPageEffect DEF ClaimHeld
<1>10. ASSUME NEW d \in Devices, Crash(d)
       PROVE  ClaimHeld(x, j)'
  <2>1. Die(d) /\ queue' = queue
    BY <1>10 DEF Crash, local
  <2> QED BY <1>0, <2>1, DieEffect DEF ClaimHeld
<1>11. ASSUME NEW d \in Devices, NEW k \in Keys, CrashInReconcile(d, k)
       PROVE  ClaimHeld(x, j)'
  <2>1. Die(d) /\ queue' = queue
    BY <1>11 DEF CrashInReconcile
  <2> QED BY <1>0, <2>1, DieEffect DEF ClaimHeld
<1>12. ASSUME NEW d \in Devices, CrashInPull(d)
       PROVE  ClaimHeld(x, j)'
  <2>1. Die(d) /\ ApplyPage(d)
    BY <1>12 DEF CrashInPull
  <2> QED BY <1>0, <2>1, DieEffect, ApplyPageEffect DEF ClaimHeld
<1>13. ASSUME NEW d \in Devices, Launch(d)
       PROVE  ClaimHeld(x, j)'
  <2>1. CASE x # d
    <3>1. queue'[x] = queue[x] /\ up'[x] = up[x] /\ push' = push
      BY <1>13, <2>1 DEF Launch, Migrated, TypeOK
    <3> QED BY <1>0, <3>1 DEF ClaimHeld
  <2>2. CASE x = d
    <3>1. queue'[d][j] = NoEntry
      BY <1>13, <2>2 DEF Launch, Migrated, TypeOK
    <3> QED BY <2>2, <3>1 DEF ClaimHeld, NoEntry
  <2> QED BY <2>1, <2>2
<1>17. ASSUME NEW d \in Devices, SignInAgain(d)
       PROVE  ClaimHeld(x, j)'
  <2>1. push' = push /\ up' = up
    BY <1>17 DEF SignInAgain
  <2>2. CASE x # d
    <3>1. queue'[x] = queue[x]
      BY <1>17, <2>2 DEF SignInAgain, TypeOK
    <3> QED BY <1>0, <2>1, <3>1 DEF ClaimHeld
  <2>3. CASE x = d
    <3>1. queue'[d][j] = IF queue[d][j].st = "processing"
                         THEN [Relisted(queue[d][j]) EXCEPT !.st = "queued"]
                         ELSE Relisted(queue[d][j])
      BY <1>17, <2>3 DEF SignInAgain, TypeOK
    <3>2. queue'[d][j].st # "processing"
      BY <1>00, <2>3, <3>1, EntryEffects
    <3> QED BY <2>3, <3>2 DEF ClaimHeld
  <2> QED BY <2>2, <2>3
<1>16. ASSUME NEW d \in Devices, BackgroundMigrates(d)
       PROVE  ClaimHeld(x, j)'
  <2>1. push' = push /\ up' = up
    BY <1>16 DEF BackgroundMigrates
  <2>2. queue'[x][j] = NoEntry \/ queue'[x][j] = queue[x][j]
    BY <1>16 DEF BackgroundMigrates, Migrated, TypeOK
  <2> QED BY <1>0, <2>1, <2>2 DEF ClaimHeld, NoEntry
<1>14. ASSUME NEW d \in Devices, NEW k \in Keys, BackoffElapsed(d, k)
       PROVE  ClaimHeld(x, j)'
  <2>1. push' = push /\ up' = up
    BY <1>14 DEF BackoffElapsed
  <2>2. CASE x = d /\ j = k
    <3>1. queue'[d][k] = [queue[d][k] EXCEPT !.wait = FALSE]
      BY <1>14 DEF BackoffElapsed, TypeOK
    <3>2. queue'[x][j].st = queue[x][j].st /\ queue'[x][j].id = queue[x][j].id
      BY <1>00, <2>2, <3>1, EntryEffects
    <3> QED BY <1>0, <2>1, <3>2 DEF ClaimHeld
  <2>3. CASE x # d \/ j # k
    <3>1. queue'[x][j] = queue[x][j]
      BY <1>14, <2>3 DEF BackoffElapsed, TypeOK
    <3> QED BY <1>0, <2>1, <3>1 DEF ClaimHeld
  <2> QED BY <2>2, <2>3
<1>15. ASSUME NEW d \in Devices, NEW k \in Keys, Retry(d, k) \/ Discard(d, k)
       PROVE  ClaimHeld(x, j)'
  <2>1. push' = push /\ up' = up
    BY <1>15 DEF Retry, Discard
  <2>2. CASE x # d
    <3>1. queue'[x] = queue[x]
      BY <1>15, <2>2 DEF Retry, Discard, TypeOK
    <3> QED BY <1>0, <2>1, <3>1 DEF ClaimHeld
  <2>3. CASE x = d /\ j = k
    <3>1. \/ queue'[d][k] = Relisted(Reopened(queue[d][k]))
          \/ queue'[d][k] = NoEntry
      BY <1>15 DEF Retry, Discard, TypeOK
    <3>2. queue'[x][j].st # "processing"
      BY <1>00, <2>3, <3>1, EntryEffects
    <3> QED BY <3>2 DEF ClaimHeld
  <2>4. CASE x = d /\ j # k
    <3>1. queue'[d][j] = Relisted(queue[d][j])
      BY <1>15, <2>4 DEF Retry, Discard, TypeOK
    <3>2. queue'[x][j].st = queue[x][j].st /\ queue'[x][j].id = queue[x][j].id
      BY <1>00, <2>4, <3>1, EntryEffects
    <3> QED BY <1>0, <2>1, <3>2 DEF ClaimHeld
  <2> QED BY <2>2, <2>3, <2>4
<1> QED
  BY <1>1, <1>2, <1>3, <1>4, <1>5, <1>6, <1>7, <1>8, <1>9, <1>10, <1>11,
     <1>12, <1>13, <1>14, <1>15, <1>16, <1>17
  DEF Next, PushStep, PullStep, CrashStep, ScreenStep

\* No entry is ever left claimed by a push that is over: an answer releases
\* it, the migrations of the next start drop it, and a second sign-in gives it
\* back.
THEOREM NoOrphan == Spec => []NoOrphanWhileIdle
<1>1. TypeOK /\ OpsShape /\ ClaimsHeld /\ [Next]_vars => ClaimsHeld'
  BY ClaimsHeldNext
<1>2. ClaimsHeld => NoOrphanWhileIdle
  BY DEF ClaimsHeld, ClaimHeld, NoOrphanWhileIdle
<1> QED
  BY ClaimsHeldInit, <1>1, <1>2, TypeCorrect, OpsShapeAlways, PTL DEF Spec

(***************************************************************************)
(* No page beside a push, unless the background task runs.                 *)
(***************************************************************************)
LEMMA PullAloneInit == Init => PullAlone
BY DEF Init, PullAlone, PullIsAlone, IdlePull, IdlePush

LEMMA PullAloneNext ==
  ASSUME ~Overlap, TypeOK, PullAlone, [Next]_vars
  PROVE  PullAlone'
<1> SUFFICES ASSUME NEW x \in Devices
             PROVE  PullIsAlone(x)'
  BY DEF PullAlone
<1>0. PullIsAlone(x) /\ pull[x] \in Pull
  BY DEF PullAlone, TypeOK
<1>1. CASE UNCHANGED <<push, pull>>
  BY <1>0, <1>1 DEF PullIsAlone
<1>2. ASSUME NEW d \in Devices, NEW w \in BOOLEAN, CycleStart(d, w)
      PROVE  PullIsAlone(x)'
  <2>1. pull[d] \in Pull
    BY DEF TypeOK
  <2>2. pull'[d] = [pull[d] EXCEPT !.st = IF w THEN "due" ELSE "idle"]
    BY <1>2 DEF CycleStart, TypeOK
  <2>3. [pull[d] EXCEPT !.st = IF w THEN "due" ELSE "idle"].st
          = IF w THEN "due" ELSE "idle"
    BY <2>1 DEF Pull
  <2>4. pull'[d].st \notin {"query", "page"}
    BY <2>2, <2>3
  <2>5. \A y \in Devices \ {d} : pull'[y] = pull[y] /\ push'[y] = push[y]
    BY <1>2, Zenon DEF CycleStart, Claim, TypeOK
  <2> QED BY <1>0, <2>4, <2>5 DEF PullIsAlone
<1>3. ASSUME NEW d \in Devices,
             \/ \E e \in 1..NumEntities : PushBuild(d, e)
             \/ PushReply(d)
             \/ \E k \in Keys : Reconcile(d, k)
      PROVE  PullIsAlone(x)'
  <2>1. pull' = pull
    BY <1>3 DEF PushBuild, PushReply, Reconcile
  <2>2. /\ \A y \in Devices \ {d} : push'[y] = push[y]
        /\ push[d].st # "idle"
    BY <1>3, BuildEffect, ReplyEffect, ReconcileEffect
  <2> QED BY <1>0, <2>1, <2>2 DEF PullIsAlone
<1>4. ASSUME NEW d \in Devices, CloudStep(d) \/ FaultStep(d)
      PROVE  PullIsAlone(x)'
  <2>1. ASSUME NEW k \in Keys, NEW st \in OpStates, NEW c \in Content,
               NEW v \in Nat, Answered(d, k, st, c, v), UNCHANGED pull
        PROVE  PullIsAlone(x)'
    <3>1. /\ \A y \in Devices \ {d} : push'[y] = push[y]
          /\ push'[d].st = push[d].st
      BY <2>1, AnsweredEffect
    <3> QED BY <1>0, <2>1, <3>1 DEF PullIsAlone
  <2>2. CASE PullFail(d)
    <3>1. push' = push /\ pull[d].st = "query"
      BY <2>2 DEF PullFail
    <3>2. \A y \in Devices \ {d} : pull'[y] = pull[y]
      BY <2>2 DEF PullFail, NextEntity, TypeOK
    <3> QED BY <1>0, <3>1, <3>2 DEF PullIsAlone
  <2>3. CASE UNCHANGED <<push, pull>>
    BY <1>0, <2>3 DEF PullIsAlone
  <2>4. CASE \E k \in Keys : \/ CloudApply(d, k) \/ CloudLoseReply(d, k)
                             \/ CloudReject(d, k)
                             \/ \E st \in {"transient", "fatal"} : CloudFault(d, k, st)
    <3>1. UNCHANGED pull
      BY <2>4 DEF CloudApply, CloudReject, CloudLoseReply, CloudFault
    <3> QED BY <1>4, <2>1, <2>3, <3>1, CloudEffect
  <2> QED BY <1>4, <2>2, <2>4 DEF CloudStep, FaultStep
<1>5. ASSUME NEW d \in Devices, PullStart(d)
      PROVE  PullIsAlone(x)'
  <2>1. push' = push /\ push[d].st = "idle"
    BY <1>5 DEF PullStart
  <2>2. \A y \in Devices \ {d} : pull'[y] = pull[y]
    BY <1>5 DEF PullStart, TypeOK
  <2> QED BY <1>0, <2>1, <2>2 DEF PullIsAlone
<1>6. ASSUME NEW d \in Devices,
             PullQuery(d) \/ \E k \in Keys : PullApply(d, k)
      PROVE  PullIsAlone(x)'
  <2>1. push' = push /\ pull[d].st \in {"query", "page"}
    BY <1>6 DEF PullQuery, PullApply, ApplyPage
  <2>2. \A y \in Devices \ {d} : pull'[y] = pull[y]
    BY <1>6 DEF PullQuery, PullApply, NextEntity, TypeOK
  <2> QED BY <1>0, <2>1, <2>2 DEF PullIsAlone
<1>7. ASSUME NEW d \in Devices, CrashStep(d)
      PROVE  PullIsAlone(x)'
  <2>1. Die(d)
    BY <1>7 DEF CrashStep, Crash, CrashInReconcile, CrashInPull
  <2> QED BY <1>0, <2>1, DieEffect DEF PullIsAlone
<1>8. ASSUME NEW d \in Devices,
             \/ EditStep(d) \/ Launch(d) \/ SignInAgain(d) \/ ScreenStep(d)
             \/ \E k \in Keys : BackoffElapsed(d, k)
      PROVE  UNCHANGED <<push, pull>>
  BY <1>8, Zenon DEF EditStep, Create, Update, SoftDelete, Write, Launch,
     SignInAgain, ScreenStep, Retry, Discard, BackoffElapsed
<1>9. ASSUME NEW d \in Devices,
             BackgroundMigrates(d) \/ BackgroundPush(d) \/ BackgroundPull(d)
      PROVE  FALSE
  BY <1>9 DEF BackgroundMigrates, BackgroundPush, BackgroundPull
<1>10. CASE UNCHANGED vars
  BY <1>1, <1>10 DEF vars
<1> QED
  BY <1>1, <1>2, <1>3, <1>4, <1>5, <1>6, <1>7, <1>8, <1>9, <1>10
  DEF Next, PushStep, PullStep

LEMMA PullAloneAlways == ~Overlap => (Spec => []PullAlone)
<1> SUFFICES ASSUME ~Overlap PROVE Spec => []PullAlone
  OBVIOUS
<1>1. TypeOK /\ PullAlone /\ [Next]_vars => PullAlone'
  BY PullAloneNext
<1> QED BY PullAloneInit, <1>1, TypeCorrect, PTL DEF Spec

(***************************************************************************)
(* No row without its entry.                                               *)
(***************************************************************************)
\* What reconcile leaves behind on a record: the row is settled, or it is
\* still carried if it was carried before.
LEMMA ReconcileCarries ==
  ASSUME TypeOK, NEW d \in Devices, NEW k \in Keys, ReconcileRow(d, k),
         OwedIsCarried(d, k)
  PROVE  /\ \A x \in Devices, j \in Keys : x # d \/ j # k =>
              row'[x][j] = row[x][j] /\ (j \in stray'[x] <=> j \in stray[x])
         /\ row'[d][k].st \in {"pending", "failed"} =>
              \/ k \in stray'[d]
              \/ queue[d][k].st # "none"
         /\ row'[d][k].st \in {"pending", "failed"} =>
              \/ push[d].ops[k].st \in {"transient", "fatal"}
              \/ push[d].ops[k].st = "conflict" /\ KeepsLocal(row[d][k], push[d].ops[k].rc)
<1> DEFINE op == push[d].ops[k]
           own == row[d][k]
<1>1. own \in Row /\ op \in Op
  BY DEF TypeOK, Push
<1>2. row' = [row EXCEPT ![d][k] = RowAfter(own, op)]
  BY DEF ReconcileRow
<1>3. row'[d][k] = RowAfter(own, op)
  BY <1>2 DEF TypeOK
<1>4. \A x \in Devices, j \in Keys : x # d \/ j # k => row'[x][j] = row[x][j]
  BY <1>2 DEF TypeOK
<1>5. op.st \in OpStates \ {"none", "claimed", "sent"}
  BY <1>1 DEF ReconcileRow, Replied, Op
<1>6. RowAfter(own, op).st \in {"pending", "failed"} =>
        /\ Exists(own)
        /\ \/ op.st \in {"transient", "fatal"}
           \/ /\ op.st = "conflict" /\ KeepsLocal(own, op.rc)
              /\ RowAfter(own, op).st = own.st
  <2>1. CASE op.st = "gone"
    BY <2>1 DEF RowAfter, NoRow
  <2>2. CASE op.st = "conflict" /\ KeepsLocal(own, op.rc)
    <3>1. RowAfter(own, op) = [own EXCEPT !.ver = op.rv]
      BY <2>2 DEF RowAfter
    <3>2. RowAfter(own, op).st = own.st
      BY <1>1, <3>1 DEF Row
    <3> QED BY <2>2, <3>2 DEF KeepsLocal
  <2>3. CASE op.st = "conflict" /\ ~KeepsLocal(own, op.rc)
    BY <2>3 DEF RowAfter, Synced
  <2>4. CASE op.st = "applied"
    <3>1. CASE Exists(own)
      <4>1. RowAfter(own, op) = [own EXCEPT !.st = "synced", !.ver = op.base + 1]
        BY <2>4, <3>1 DEF RowAfter
      <4>2. RowAfter(own, op).st = "synced"
        BY <1>1, <4>1 DEF Row
      <4> QED BY <4>2
    <3>2. CASE ~Exists(own)
      <4>1. RowAfter(own, op) = own
        BY <2>4, <3>2 DEF RowAfter
      <4> QED BY <3>2, <4>1 DEF Exists
    <3> QED BY <3>1, <3>2
  <2>5. CASE op.st \in {"transient", "fatal"}
    <3>1. CASE ~Exists(own)
      <4>1. RowAfter(own, op) = own
        BY <2>5, <3>1 DEF RowAfter
      <4> QED BY <3>1, <4>1 DEF Exists
    <3> QED BY <2>5, <3>1
  <2> QED BY <1>5, <2>1, <2>2, <2>3, <2>4, <2>5 DEF OpStates
<1>7. stray' = [stray EXCEPT ![d] =
        IF Acked(d, k)' THEN stray[d] \ {k}
        ELSE stray[d] \cup (IF Overtaken(own, op) THEN {k} ELSE {})]
  BY DEF ReconcileRow
<1>8. \A x \in Devices, j \in Keys : x # d \/ j # k =>
        (j \in stray'[x] <=> j \in stray[x])
  BY <1>7 DEF TypeOK
<1>9. k \in stray[d] /\ row'[d][k].st \in {"pending", "failed"}
        => k \in stray'[d]
  BY <1>7 DEF TypeOK, Acked
<1>10. Exists(own) => k \in stray[d] \/ queue[d][k].st # "none"
  BY <1>5 DEF OwedIsCarried, Carried
<1> QED BY <1>3, <1>4, <1>6, <1>8, <1>9, <1>10

LEMMA AllCarriedInit == Init => AllCarried
BY DEF Init, AllCarried, OwedIsCarried, NoRow, IdlePush, NoOp

LEMMA AllCarriedNext ==
  ASSUME ~Overlap, TypeOK, OpsShape, PullAlone, AllCarried, [Next]_vars
  PROVE  AllCarried'
<1> SUFFICES ASSUME NEW x \in Devices, NEW j \in Keys
             PROVE  OwedIsCarried(x, j)'
  BY DEF AllCarried
<1>0. OwedIsCarried(x, j) /\ OpShape(x, j)
  BY DEF AllCarried, OpsShape
<1>00. queue[x][j] \in Entry /\ row[x][j] \in Row
  BY DEF TypeOK
<1>1. CASE UNCHANGED vars
  BY <1>0, <1>1 DEF OwedIsCarried, Carried, Exists, vars
<1>2. ASSUME NEW d \in Devices, EditStep(d)
      PROVE  OwedIsCarried(x, j)'
  BY <1>0, <1>2, WriteEffect DEF OwedIsCarried, Carried, Exists
<1>3. ASSUME NEW d \in Devices,
             (\E w \in BOOLEAN : CycleStart(d, w)) \/ BackgroundPush(d)
      PROVE  OwedIsCarried(x, j)'
  <2>1. Claim(d) /\ push[d].st = "idle" /\ row' = row /\ stray' = stray
    BY <1>3 DEF CycleStart, BackgroundPush, history
  <2>2. CASE x # d
    BY <1>0, <2>1, <2>2, ClaimEffect DEF OwedIsCarried, Carried, Exists
  <2>3. CASE x = d /\ j \in Ready(d)
    BY <2>1, <2>3, ClaimEffect DEF OwedIsCarried, Carried
  <2>4. CASE x = d /\ j \notin Ready(d)
    BY <1>0, <2>1, <2>4, ClaimEffect DEF OwedIsCarried, Carried
  <2> QED BY <2>2, <2>3, <2>4
<1>4. ASSUME NEW d \in Devices, NEW e \in 1..NumEntities, PushBuild(d, e)
      PROVE  OwedIsCarried(x, j)'
  <2>1. row' = row /\ stray' = stray
    BY <1>4 DEF PushBuild, history
  <2>2. CASE x # d
    BY <1>0, <1>4, <2>1, <2>2, BuildEffect DEF OwedIsCarried, Carried, Exists
  <2>3. CASE x = d /\ ~(push[d].ops[j].st = "claimed" /\ EntityOf[j] = e)
    BY <1>0, <1>4, <2>1, <2>3, BuildEffect DEF OwedIsCarried, Carried, Exists
  <2>4. CASE x = d /\ push[d].ops[j].st = "claimed" /\ EntityOf[j] = e
                   /\ Exists(row[d][j])
    BY <1>0, <1>4, <2>1, <2>4, BuildEffect DEF OwedIsCarried, Carried, Exists
  <2>5. CASE x = d /\ ~Exists(row[d][j])
    BY <2>1, <2>5 DEF OwedIsCarried, Exists
  <2> QED BY <2>2, <2>3, <2>4, <2>5
<1>5. ASSUME NEW d \in Devices, PushReply(d)
      PROVE  OwedIsCarried(x, j)'
  <2>1. row' = row /\ stray' = stray /\ queue' = queue
    BY <1>5 DEF PushReply, history, local
  <2> QED BY <1>0, <1>5, <2>1, ReplyEffect DEF OwedIsCarried, Carried, Exists
<1>6. ASSUME NEW d \in Devices, NEW k \in Keys, Reconcile(d, k)
      PROVE  OwedIsCarried(x, j)'
  <2>1. ReconcileRow(d, k) /\ OwedIsCarried(d, k)
    BY <1>6 DEF Reconcile, AllCarried
  <2>2. CASE x # d \/ j # k
    <3>1. queue'[x][j] = queue[x][j]
      BY <1>6, <2>2, ReconcileEntryEffect
    <3>2. push'[x].ops[j] = push[x].ops[j]
      BY <1>6, <2>2, ReconcileEffect
    <3>3. row'[x][j] = row[x][j] /\ (j \in stray'[x] <=> j \in stray[x])
      BY <2>1, <2>2, ReconcileCarries
    <3> QED BY <1>0, <3>1, <3>2, <3>3 DEF OwedIsCarried, Carried, Exists
  <2>3. CASE x = d /\ j = k
    <3>1. queue'[d][k] = EntryAfter(row[d][k], queue[d][k], push[d].ops[k])
      BY <1>6, ReconcileEntryEffect
    <3>2. push'[d].ops[k].st = "none"
      BY <1>6, ReconcileEffect
    <3>3. CASE row'[d][k].st \in {"pending", "failed"}
      <4>1. k \in stray'[d] \/ queue[d][k].st # "none"
        BY <2>1, <3>3, ReconcileCarries
      <4>2. \/ push[d].ops[k].st \in {"transient", "fatal"}
            \/ push[d].ops[k].st = "conflict" /\ KeepsLocal(row[d][k], push[d].ops[k].rc)
        BY <2>1, <3>3, ReconcileCarries
      <4>3. CASE queue[d][k].id # push[d].ops[k].qid
        BY <2>3, <3>1, <3>2, <4>1, <4>3 DEF EntryAfter, OwedIsCarried, Carried
      <4>4. CASE queue[d][k].id = push[d].ops[k].qid
        <5>1. \/ queue'[d][k] = Reopened(queue[d][k])
              \/ queue'[d][k] = Failed(queue[d][k], TRUE)
              \/ queue'[d][k] = Failed(queue[d][k], FALSE)
          BY <3>1, <4>2, <4>4, EntryAfterCases
        <5>2. queue'[d][k].st # "none"
          BY <1>00, <2>3, <5>1, EntryEffects
        <5> QED BY <2>3, <5>2 DEF OwedIsCarried, Carried
      <4> QED BY <4>3, <4>4
    <3> QED BY <2>3, <3>2, <3>3 DEF OwedIsCarried
  <2> QED BY <2>2, <2>3
<1>7. ASSUME NEW d \in Devices, CloudStep(d) \/ FaultStep(d)
      PROVE  OwedIsCarried(x, j)'
  <2>0. queue' = queue /\ row' = row /\ stray' = stray
    BY <1>7, CloudEffect
  <2>1. CASE UNCHANGED push
    BY <1>0, <2>0, <2>1 DEF OwedIsCarried, Carried, Exists
  <2>2. ASSUME NEW k \in Keys, NEW st \in OpStates \ {"none", "claimed", "sent"},
               NEW c \in Content, NEW v \in Nat, Answered(d, k, st, c, v),
               push[d].ops[k].st = "sent"
        PROVE  OwedIsCarried(x, j)'
    <3>1. /\ \A y \in Devices \ {d} : push'[y] = push[y]
          /\ \A i \in Keys \ {k} : push'[d].ops[i] = push[d].ops[i]
      BY <2>2, AnsweredEffect
    <3> QED BY <1>0, <2>0, <2>2, <3>1 DEF OwedIsCarried, Carried, Exists
  <2> QED BY <1>7, <2>1, <2>2, CloudEffect
<1>8. ASSUME NEW d \in Devices, BackgroundPull(d) \/ PullStart(d) \/ PullQuery(d)
      PROVE  OwedIsCarried(x, j)'
  BY <1>0, <1>8 DEF OwedIsCarried, Carried, Exists, BackgroundPull, PullStart,
                    PullQuery, local, history
<1>9. ASSUME NEW d \in Devices, ApplyPage(d), push' = push \/ Die(d)
      PROVE  OwedIsCarried(x, j)'
  <2>1. CASE x # d
    <3>1. /\ queue'[x] = queue[x] /\ row'[x] = row[x]
          /\ stray'[x] = stray[x]
      BY <1>9, <2>1, ApplyPageEffect
    <3>2. push'[x] = push[x]
      BY <1>9, <2>1, DieEffect
    <3> QED BY <1>0, <3>1, <3>2 DEF OwedIsCarried, Carried, Exists
  <2>2. CASE x = d
    <3>1. push'[d].ops[j].st = "none"
      <4>1. push[d].st = "idle"
        BY <1>9, ApplyPageEffect DEF PullAlone, PullIsAlone
      <4>2. push[d].ops[j].st = "none"
        BY <1>0, <2>2, <4>1 DEF OpShape
      <4> QED BY <1>9, <4>2, DieEffect
    <3>2. \/ queue'[d][j] = queue[d][j] /\ row'[d][j] = row[d][j]
          \/ queue'[d][j].st = "queued"
          \/ queue'[d][j].st = "none" /\ row'[d][j].st = "synced"
      BY <1>9, ApplyPageEffect
    <3>3. row'[d][j].st \in {"pending", "failed"} /\ j \in stray[d]
            => j \in stray'[d]
      BY <1>9 DEF ApplyPage, Acked, TypeOK
    <3> QED BY <1>0, <2>2, <3>1, <3>2, <3>3 DEF OwedIsCarried, Carried
  <2> QED BY <2>1, <2>2
<1>10. ASSUME NEW d \in Devices, NEW k \in Keys, PullApply(d, k)
       PROVE  OwedIsCarried(x, j)'
  BY <1>9, <1>10 DEF PullApply
<1>11. ASSUME NEW d \in Devices, CrashInPull(d)
       PROVE  OwedIsCarried(x, j)'
  BY <1>9, <1>11 DEF CrashInPull
<1>12. ASSUME NEW d \in Devices, Crash(d)
       PROVE  OwedIsCarried(x, j)'
  <2>1. Die(d) /\ queue' = queue /\ row' = row /\ stray' = stray
    BY <1>12 DEF Crash, local, history
  <2> QED BY <1>0, <2>1, DieEffect DEF OwedIsCarried, Carried, Exists
<1>13. ASSUME NEW d \in Devices, NEW k \in Keys, CrashInReconcile(d, k)
       PROVE  OwedIsCarried(x, j)'
  <2>1. Die(d) /\ queue' = queue /\ ReconcileRow(d, k) /\ OwedIsCarried(d, k)
    BY <1>13 DEF CrashInReconcile, AllCarried
  <2>2. CASE x # d
    <3>1. row'[x][j] = row[x][j] /\ (j \in stray'[x] <=> j \in stray[x])
      BY <2>1, <2>2, ReconcileCarries
    <3>2. push'[x] = push[x]
      BY <2>1, <2>2, DieEffect
    <3> QED BY <1>0, <2>1, <3>1, <3>2 DEF OwedIsCarried, Carried, Exists
  <2>3. CASE x = d /\ j # k
    <3>1. row'[x][j] = row[x][j] /\ (j \in stray'[x] <=> j \in stray[x])
      BY <2>1, <2>3, ReconcileCarries
    <3>2. push'[x].ops[j].st = "none"
      BY <2>1, <2>3, DieEffect
    <3> QED BY <1>0, <2>1, <3>1, <3>2 DEF OwedIsCarried, Carried
  <2>4. CASE x = d /\ j = k
    <3>1. row'[d][k].st \in {"pending", "failed"} =>
            k \in stray'[d] \/ queue[d][k].st # "none"
      BY <2>1, ReconcileCarries
    <3>2. push'[x].ops[j].st = "none"
      BY <2>1, <2>4, DieEffect
    <3> QED BY <2>1, <2>4, <3>1, <3>2 DEF OwedIsCarried, Carried
  <2> QED BY <2>2, <2>3, <2>4
<1>14. ASSUME NEW d \in Devices, Launch(d)
       PROVE  OwedIsCarried(x, j)'
  <2>1. push' = push /\ Migrated(d)
    BY <1>14 DEF Launch
  <2>2. CASE x = d
    <3>1. /\ Exists(row[x][j]) => j \in stray'[x]
          /\ ~Exists(row[x][j]) => row'[x][j] = row[x][j]
      BY <2>1, <2>2 DEF Migrated, TypeOK
    <3> QED BY <3>1 DEF OwedIsCarried, Carried, Exists
  <2>3. CASE x # d
    <3>1. /\ row'[x][j] = row[x][j] /\ queue'[x][j] = queue[x][j]
          /\ stray'[x] = stray[x]
      BY <2>1, <2>3 DEF Migrated, TypeOK
    <3> QED BY <1>0, <2>1, <3>1 DEF OwedIsCarried, Carried, Exists
  <2> QED BY <2>2, <2>3
<1>19. ASSUME NEW d \in Devices, SignInAgain(d)
       PROVE  OwedIsCarried(x, j)'
  <2>1. push' = push /\ row' = row /\ stray' = stray
    BY <1>19 DEF SignInAgain, history
  <2>2. \/ queue'[x][j] = [Relisted(queue[x][j]) EXCEPT !.st = "queued"]
        \/ queue'[x][j] = Relisted(queue[x][j])
        \/ queue'[x][j] = queue[x][j]
    BY <1>19 DEF SignInAgain, TypeOK
  <2>3. queue[x][j].st # "none" => queue'[x][j].st # "none"
    BY <1>00, <2>2, EntryEffects
  <2> QED BY <1>0, <2>1, <2>3 DEF OwedIsCarried, Carried, Exists
<1>15. ASSUME NEW d \in Devices, NEW k \in Keys, BackoffElapsed(d, k)
       PROVE  OwedIsCarried(x, j)'
  <2>1. push' = push /\ row' = row /\ stray' = stray
    BY <1>15 DEF BackoffElapsed, history
  <2>2. \/ queue'[x][j] = [queue[x][j] EXCEPT !.wait = FALSE]
        \/ queue'[x][j] = queue[x][j]
    BY <1>15 DEF BackoffElapsed, TypeOK
  <2>3. queue'[x][j].st = queue[x][j].st
    BY <1>00, <2>2, EntryEffects
  <2> QED BY <1>0, <2>1, <2>3 DEF OwedIsCarried, Carried, Exists
<1>16. ASSUME NEW d \in Devices, NEW k \in Keys, Retry(d, k)
       PROVE  OwedIsCarried(x, j)'
  <2>1. push' = push /\ row' = row /\ stray' = stray
    BY <1>16 DEF Retry, history
  <2>2. \/ queue'[x][j] = Relisted(Reopened(queue[x][j]))
        \/ queue'[x][j] = Relisted(queue[x][j])
        \/ queue'[x][j] = queue[x][j]
    BY <1>16 DEF Retry, TypeOK
  <2>3. queue[x][j].st # "none" => queue'[x][j].st # "none"
    BY <1>00, <2>2, EntryEffects
  <2> QED BY <1>0, <2>1, <2>3 DEF OwedIsCarried, Carried, Exists
<1>17. ASSUME NEW d \in Devices, NEW k \in Keys, Discard(d, k)
       PROVE  OwedIsCarried(x, j)'
  <2>1. push' = push /\ row' = row
    BY <1>17 DEF Discard
  <2>2. stray' = [stray EXCEPT ![d] = stray[d] \cup {k}]
    BY <1>17 DEF Discard
  <2>3. CASE x = d /\ j = k
    <3>1. j \in stray'[x]
      BY <2>2, <2>3 DEF TypeOK
    <3> QED BY <3>1 DEF OwedIsCarried, Carried
  <2>4. CASE x # d \/ j # k
    <3>1. j \in stray[x] => j \in stray'[x]
      BY <2>2 DEF TypeOK
    <3>2. \/ queue'[x][j] = Relisted(queue[x][j])
          \/ queue'[x][j] = queue[x][j]
      BY <1>17, <2>4 DEF Discard, TypeOK
    <3>3. queue'[x][j].st = queue[x][j].st
      BY <1>00, <3>2, EntryEffects
    <3> QED BY <1>0, <2>1, <3>1, <3>3 DEF OwedIsCarried, Carried, Exists
  <2> QED BY <2>3, <2>4
<1>18. ASSUME NEW d \in Devices, BackgroundMigrates(d)
       PROVE  FALSE
  BY <1>18 DEF BackgroundMigrates
<1> QED
  BY <1>1, <1>2, <1>3, <1>4, <1>5, <1>6, <1>7, <1>8, <1>10, <1>11, <1>12,
     <1>13, <1>14, <1>15, <1>16, <1>17, <1>18, <1>19
  DEF Next, PushStep, PullStep, CrashStep, ScreenStep

LEMMA AllCarriedAlways == ~Overlap => (Spec => []AllCarried)
<1> SUFFICES ASSUME ~Overlap PROVE Spec => []AllCarried
  OBVIOUS
<1>1. TypeOK /\ OpsShape /\ PullAlone /\ AllCarried /\ [Next]_vars => AllCarried'
  BY AllCarriedNext
<1> QED
  BY AllCarriedInit, <1>1, TypeCorrect, OpsShapeAlways, PullAloneAlways,
     PTL DEF Spec

\* What is left of trackChange's contract for every number of devices, records,
\* crashes, migrations and faults, as long as the background task does not run
\* beside the scheduler: nothing but an edit that went astray is owed to the
\* cloud without an entry.
THEOREM UnsyncedCarried == ~Overlap => (Spec => []UnsyncedIsCarried)
<1>1. AllCarried => UnsyncedIsCarried
  BY DEF AllCarried, OwedIsCarried, Carried, UnsyncedIsCarried
<1> QED BY <1>1, AllCarriedAlways, PTL

(***************************************************************************)
(* Devices, cloud and collector together.                                  *)
(***************************************************************************)
\* The op has been built: it carries a content and a version.
Sent(op) == op.st \notin {"none", "claimed"}

(***************************************************************************)
(* What a step can do to record j of device x: to its row, to the op in    *)
(* flight for it, to its place on the fetched page and to its document.    *)
(***************************************************************************)
\* The row is left alone, or the migrations call it pending again.
RowStays(x, j) ==
  \/ row'[x][j] = row[x][j]
  \/ Exists(row[x][j]) /\ row'[x][j] = [row[x][j] EXCEPT !.st = "pending"]

OpStays(x, j) == \/ push'[x].ops[j] = push[x].ops[j]
                 \/ ~Sent(push'[x].ops[j])

PageStays(x, j) == pull'[x].page[j] \in {pull[x].page[j], NoDoc}

DocStays(j) == doc'[j] = doc[j] /\ log'[j] = log[j]

SeenStays(x, j) == seen'[x][j] = seen[x][j]

\* The document takes the content of an op.
Taken(op, j) ==
  /\ op.st = "sent" /\ doc[j].ver = op.base
  /\ doc'[j] = [c |-> op.c, ver |-> op.base + 1, ts |-> tick']
  /\ log'[j] = log[j] \cup {op.c.n}

DiscardRests(x, j) == j \in stray'[x] <=> j \in stray[x]

\* The queue entry, as far as anything but a timer looks at it.
EntryRests(x, j) ==
  /\ queue'[x][j].st = queue[x][j].st /\ queue'[x][j].id = queue[x][j].id
  /\ queue'[x][j].listed = queue[x][j].listed
  /\ DiscardRests(x, j) /\ up'[x] = up[x]

\* Nothing happens to it, but an idle push has no op for it.
RestsOn(x, j) ==
  /\ EntryRests(x, j)
  /\ \/ push'[x].ops[j] = push[x].ops[j]
     \/ push[x].st = "idle" /\ push'[x].ops[j].st = "none"

DiesWith(x, j) ==
  /\ DiscardRests(x, j) /\ queue'[x][j] = queue[x][j]
  /\ ~up'[x] /\ push'[x].ops[j].st = "none"

ClaimedNow(x, j) ==
  /\ DiscardRests(x, j) /\ push[x].st = "idle"
  /\ queue[x][j].st = "queued" /\ queue'[x][j].st = "processing"
  /\ queue'[x][j].id = queue[x][j].id
  /\ queue'[x][j].listed = queue[x][j].listed
  /\ push'[x].ops[j].st = "claimed" /\ push'[x].ops[j].qid = queue[x][j].id
  /\ up'[x] = up[x]

LostRow(x, j) ==
  /\ DiscardRests(x, j) /\ ~Exists(row[x][j])
  /\ push'[x].ops[j].st = "none" /\ queue'[x][j] \in {queue[x][j], NoEntry}
  /\ up'[x] = up[x]

\* A fresh list of the dead entries, on the screen or after a relaunch.
RelistedNow(x, j) ==
  LET q == queue[x][j]  q2 == queue'[x][j] IN
  /\ DiscardRests(x, j) /\ push'[x].ops[j] = push[x].ops[j]
  /\ \/ q2.st = q.st
     \/ q.st = "processing" /\ q2.st = "queued"
  /\ q2.id = q.id /\ (q2.listed <=> q.st = "dead")

RetriedNow(x, j) ==
  LET q == queue[x][j]  q2 == queue'[x][j] IN
  /\ DiscardRests(x, j) /\ up[x] /\ q.listed
  /\ push'[x].ops[j] = push[x].ops[j]
  /\ q2.st = "queued" /\ q2.id = q.id /\ ~q2.listed

DiscardedNow(x, j) ==
  /\ up[x] /\ queue[x][j].listed /\ push'[x].ops[j] = push[x].ops[j]
  /\ queue'[x][j] = NoEntry /\ j \in stray'[x] /\ j \in dropped'

\* The migrations drop the entry and leave the edit astray.
MigratedNow(x, j) ==
  /\ queue'[x][j] = NoEntry /\ push'[x].ops[j] = push[x].ops[j]
  /\ j \in stray'[x] <=> Exists(row[x][j])
  /\ row'[x][j] = IF Exists(row[x][j]) THEN [row[x][j] EXCEPT !.st = "pending"]
                  ELSE row[x][j]
  /\ Exists(row[x][j]) /\ row[x][j].c.n \notin seen[x][j] => j \in dropped'

\* The entry in a step that leaves the row's content alone.
QuietEntry(x, j) ==
  \/ MigratedNow(x, j)
  \/ /\ row'[x][j] = row[x][j]
     /\ \/ RestsOn(x, j) \/ DiesWith(x, j) \/ ClaimedNow(x, j) \/ LostRow(x, j)
        \/ RelistedNow(x, j) \/ RetriedNow(x, j) \/ DiscardedNow(x, j)

EditedEntry(x, j) ==
  LET q == queue[x][j]  q2 == queue'[x][j] IN
  /\ q2.st = "queued" /\ q2.listed = q.listed
  /\ q.st = "none" \/ q2.id = q.id
  /\ up'[x] = up[x] /\ j \notin stray'[x]

\* An answer leaves an edit astray if it is taken for the answer to that edit.
ReconciledEntry(x, j) ==
  LET late == Overtaken(row[x][j], push[x].ops[j]) IN
  /\ j \in stray'[x] <=> ~Acked(x, j)' /\ (j \in stray[x] \/ late)
  /\ late => j \in dropped'
  /\ \/ /\ up'[x] = up[x]
        /\ queue'[x][j] = EntryAfter(row[x][j], queue[x][j], push[x].ops[j])
     \/ ~up'[x] /\ queue'[x][j] = queue[x][j]

PagedEntry(x, j) ==
  LET q == queue[x][j]       q2 == queue'[x][j]
      p == pull[x].page[j]
  IN  /\ j \in stray'[x] <=> ~Acked(x, j)' /\ j \in stray[x]
      /\ \/ /\ q.st # "none" /\ KeepsLocal(row[x][j], p.c)
            /\ row'[x][j] = [row[x][j] EXCEPT !.ver = p.ver]
            /\ q2.st = "queued" /\ q2.id = q.id /\ q2.listed = q.listed
         \/ /\ q.st = "none" \/ ~KeepsLocal(row[x][j], p.c)
            /\ row'[x][j] = Synced(p.c, p.ver)
            /\ q2 = NoEntry

Quiet(x, j) ==
  /\ RowStays(x, j) /\ SeenStays(x, j) /\ OpStays(x, j) /\ PageStays(x, j)
  /\ QuietEntry(x, j)
  /\ \/ DocStays(j)
     \/ \E d \in Devices \ {x} : Taken(push[d].ops[j], j)

Queried(x, j) ==
  /\ row'[x][j] = row[x][j] /\ SeenStays(x, j) /\ EntryRests(x, j)
  /\ push'[x].ops[j] = push[x].ops[j]
  /\ pull'[x].page[j] \in {doc[j], NoDoc}
  /\ DocStays(j)

Built(x, j) ==
  /\ row'[x][j] = row[x][j] /\ SeenStays(x, j) /\ PageStays(x, j) /\ DocStays(j)
  /\ EntryRests(x, j) /\ Exists(row[x][j])
  /\ push[x].ops[j].st = "claimed" /\ push'[x].ops[j].st = "sent"
  /\ push'[x].ops[j].qid = push[x].ops[j].qid
  /\ push'[x].ops[j].c = row[x][j].c /\ push'[x].ops[j].base = row[x][j].ver

\* The answer st, with the document's content and version if it is a conflict.
Replies(op, op2, j) ==
  \/ Taken(op, j) /\ op2.st \in {"applied", "transient"}
  \/ DocStays(j) /\ op2.st \in {"transient", "fatal"}
  \/ DocStays(j) /\ doc[j].ver # op.base /\ doc[j].ver = 0 /\ op2.st = "gone"
  \/ /\ DocStays(j) /\ doc[j].ver # op.base /\ doc[j].ver # 0
     /\ op2.st = "conflict" /\ op2.rc = doc[j].c /\ op2.rv = doc[j].ver

Replying(x, j) ==
  /\ row'[x][j] = row[x][j] /\ SeenStays(x, j) /\ PageStays(x, j)
  /\ EntryRests(x, j) /\ push[x].ops[j].st = "sent"
  /\ push'[x].ops[j].st # "none" /\ push'[x].ops[j].qid = push[x].ops[j].qid
  /\ push'[x].ops[j].c = push[x].ops[j].c
  /\ push'[x].ops[j].base = push[x].ops[j].base
  /\ Replies(push[x].ops[j], push'[x].ops[j], j)

\* A create, an update or a delete.
Edited(x, j) ==
  /\ SeenStays(x, j) /\ DocStays(j) /\ EditedEntry(x, j)
  /\ push'[x].ops[j] = push[x].ops[j] /\ pull'[x].page[j] = pull[x].page[j]
  /\ edits' = edits + 1
  /\ \E del \in BOOLEAN :
       /\ Exists(row[x][j]) => (row[x][j].c.del => del)
       /\ row'[x][j] = [row[x][j] EXCEPT !.c = NewContent(x, del), !.st = "pending"]

Reconciled(x, j) ==
  LET op == push[x].ops[j] IN
  /\ Replied(op)
  /\ row'[x][j] = RowAfter(row[x][j], op)
  /\ seen'[x][j] = seen[x][j] \cup Shown(op)
  /\ push'[x].ops[j].st = "none" /\ ReconciledEntry(x, j)
  /\ PageStays(x, j) /\ DocStays(j)

Paged(x, j) ==
  LET p == pull[x].page[j] IN
  /\ p.ver > 0
  /\ \/ /\ Exists(row[x][j]) /\ LocalWins(row[x][j].c, p.c)
        /\ row'[x][j] = [row[x][j] EXCEPT !.ver = p.ver]
     \/ row'[x][j] = Synced(p.c, p.ver)
  /\ seen'[x][j] = seen[x][j] \cup {p.c.n}
  /\ push'[x].ops[j] = push[x].ops[j] \/ push'[x].ops[j].st = "none"
  /\ PagedEntry(x, j) /\ (up'[x] => up[x]) /\ DocStays(j)
  /\ pull'[x].page[j] = NoDoc

Steps(x, j) ==
  \/ Quiet(x, j) \/ Queried(x, j) \/ Built(x, j) \/ Replying(x, j)
  \/ Edited(x, j) \/ Reconciled(x, j) \/ Paged(x, j)

(***************************************************************************)
(* The actions, read as such steps.                                        *)
(***************************************************************************)
\* The fields that the statements on an entry leave and set.
LEMMA EntryFields ==
  ASSUME NEW q \in Entry
  PROVE  /\ Reopened(q).st = "queued" /\ Reopened(q).id = q.id
         /\ Reopened(q).listed = q.listed
         /\ \A i \in Nat : /\ Enqueued(q, i).st = "queued"
                           /\ Enqueued(q, i).listed = q.listed
                           /\ q.st # "none" => Enqueued(q, i).id = q.id
         /\ Relisted(q).st = q.st /\ Relisted(q).id = q.id
         /\ Relisted(q).listed <=> q.st = "dead"
         /\ [Relisted(q) EXCEPT !.st = "queued"].st = "queued"
         /\ [Relisted(q) EXCEPT !.st = "queued"].id = q.id
         /\ [Relisted(q) EXCEPT !.st = "queued"].listed <=> q.st = "dead"
         /\ Relisted(Reopened(q)).st = "queued" /\ Relisted(Reopened(q)).id = q.id
         /\ ~Relisted(Reopened(q)).listed
         /\ [q EXCEPT !.wait = FALSE].st = q.st /\ [q EXCEPT !.wait = FALSE].id = q.id
         /\ [q EXCEPT !.wait = FALSE].listed = q.listed
         /\ [q EXCEPT !.st = "processing"].listed = q.listed
<1>1. \A p \in Entry : /\ Reopened(p).st = "queued" /\ Reopened(p).id = p.id
                       /\ Reopened(p).listed = p.listed /\ Reopened(p) \in Entry
  BY DEF Reopened, Entry
<1>2. \A p \in Entry : /\ Relisted(p).st = p.st /\ Relisted(p).id = p.id
                       /\ Relisted(p) \in Entry
  BY DEF Relisted, Entry
<1>3. \A p \in Entry : Relisted(p).listed = (p.st = "dead")
  BY DEF Relisted, Entry
<1>4. /\ [Relisted(q) EXCEPT !.st = "queued"].st = "queued"
      /\ [Relisted(q) EXCEPT !.st = "queued"].id = Relisted(q).id
      /\ [Relisted(q) EXCEPT !.st = "queued"].listed = Relisted(q).listed
  BY <1>2 DEF Entry
<1>5. /\ [q EXCEPT !.wait = FALSE].st = q.st /\ [q EXCEPT !.wait = FALSE].id = q.id
      /\ [q EXCEPT !.wait = FALSE].listed = q.listed
      /\ [q EXCEPT !.st = "processing"].listed = q.listed
  BY DEF Entry
<1>6. ASSUME NEW i \in Nat
      PROVE  /\ Enqueued(q, i).st = "queued"
             /\ Enqueued(q, i).listed = q.listed
             /\ q.st # "none" => Enqueued(q, i).id = q.id
  <2> DEFINE p == [q EXCEPT !.id = IF q.st = "none" THEN i ELSE @]
  <2>1. p \in Entry /\ p.listed = q.listed /\ (q.st # "none" => p.id = q.id)
    BY DEF Entry
  <2> HIDE DEF p
  <2>2. Reopened(p).st = "queued" /\ Reopened(p).listed = q.listed
        /\ (q.st # "none" => Reopened(p).id = q.id)
    BY <1>1, <2>1
  <2> QED BY <2>2 DEF Enqueued, p
<1>7. Relisted(Reopened(q)).listed = (Reopened(q).st = "dead")
  BY <1>1, <1>3
<1>8. ~Relisted(Reopened(q)).listed
  BY <1>1, <1>7
<1>9. /\ Relisted(q).listed <=> q.st = "dead"
      /\ [Relisted(q) EXCEPT !.st = "queued"].listed <=> q.st = "dead"
  BY <1>3, <1>4
<1> QED BY <1>1, <1>2, <1>4, <1>5, <1>6, <1>8, <1>9

LEMMA EditSteps ==
  ASSUME TypeOK, NEW d \in Devices, EditStep(d),
         NEW x \in Devices, NEW j \in Keys
  PROVE  Steps(x, j)
<1>1. PICK k \in Keys : Create(d, k) \/ Update(d, k) \/ SoftDelete(d, k)
  BY DEF EditStep
<1>2. row[d][k].c.del \in BOOLEAN
  <2>1. row[d][k] \in Row
    BY DEF TypeOK
  <2>2. row[d][k].c \in Content
    BY <2>1 DEF Row
  <2> QED BY <2>2 DEF Content
<1>3. PICK del \in BOOLEAN :
        /\ Exists(row[d][k]) => (row[d][k].c.del => del)
        /\ Write(d, k, NewContent(d, del))
  BY <1>1, <1>2 DEF Create, Update, SoftDelete
<1>5. /\ row' = [row EXCEPT ![d][k] = [@ EXCEPT !.c = NewContent(d, del), !.st = "pending"]]
      /\ edits' = edits + 1 /\ push' = push /\ pull' = pull /\ seen' = seen
      /\ doc' = doc /\ log' = log /\ up' = up
      /\ queue' = [queue EXCEPT ![d][k] = Enqueued(@, NewContent(d, del).n)]
      /\ stray' = [stray EXCEPT ![d] = @ \ {k}]
  BY <1>3 DEF Write, cloud
<1>9. EditedEntry(d, k)
  <2>1. queue[d][k] \in Entry /\ NewContent(d, del).n \in Nat
    BY ContentTypes DEF TypeOK, Content
  <2>2. queue'[d][k] = Enqueued(queue[d][k], NewContent(d, del).n)
    BY <1>5 DEF TypeOK
  <2>3. k \notin stray'[d]
    BY <1>5 DEF TypeOK
  <2> QED BY <1>5, <2>1, <2>2, <2>3, EntryFields DEF EditedEntry
<1>6. row'[d][k] = [row[d][k] EXCEPT !.c = NewContent(d, del), !.st = "pending"]
  BY <1>5 DEF TypeOK
<1>7. CASE x = d /\ j = k
  BY <1>3, <1>5, <1>6, <1>7, <1>9, Zenon
     DEF Steps, Edited, SeenStays, DocStays
<1>8. CASE x # d \/ j # k
  <2>1. row'[x][j] = row[x][j] /\ queue'[x][j] = queue[x][j] /\ DiscardRests(x, j)
    BY <1>5, <1>8 DEF TypeOK, DiscardRests
  <2> QED BY <1>5, <2>1 DEF Steps, Quiet, QuietEntry, RestsOn, EntryRests, RowStays, SeenStays, OpStays, PageStays, DocStays
<1> QED BY <1>7, <1>8

LEMMA ClaimSteps ==
  ASSUME TypeOK, NEW d \in Devices,
         (\E w \in BOOLEAN : CycleStart(d, w)) \/ BackgroundPush(d),
         NEW x \in Devices, NEW j \in Keys
  PROVE  Steps(x, j)
<1>1. /\ Claim(d) /\ row' = row /\ seen' = seen /\ doc' = doc /\ log' = log
      /\ up' = up /\ stray' = stray /\ push[d].st = "idle"
  BY DEF CycleStart, BackgroundPush, cloud, history
<1>5. QuietEntry(x, j)
  <2>1. \A i \in Keys : queue[d][i] \in Entry
    BY DEF TypeOK
  <2>2. CASE x # d
    BY <1>1, <2>2, ClaimEffect DEF QuietEntry, RestsOn, EntryRests, DiscardRests
  <2>3. CASE x = d /\ j \notin Ready(d)
    <3>1. queue'[d][j] = queue[d][j] /\ push'[d].ops[j].st = "none"
      BY <1>1, <2>3, ClaimEffect
    <3> QED BY <1>1, <2>3, <3>1 DEF QuietEntry, RestsOn, EntryRests, DiscardRests
  <2>4. CASE x = d /\ j \in Ready(d)
    <3>1. queue'[d][j] = [queue[d][j] EXCEPT !.st = "processing"]
      BY <1>1, <2>4, Zenon DEF Claim, TypeOK
    <3>2. queue'[d][j].listed = queue[d][j].listed
      BY <2>1, <3>1, EntryFields
    <3>3. queue[d][j].st = "queued"
      BY <2>4 DEF Ready
    <3>4. ClaimedNow(d, j)
      BY <1>1, <2>4, <3>2, <3>3, ClaimEffect DEF ClaimedNow, DiscardRests
    <3> QED BY <1>1, <2>4, <3>4 DEF QuietEntry
  <2> QED BY <2>2, <2>3, <2>4
<1>2. OpStays(x, j)
  BY <1>1, ClaimEffect DEF OpStays, Sent
<1>3. pull[x] \in Pull
  BY DEF TypeOK
<1>4. pull'[x].page[j] = pull[x].page[j]
  <2>1. CASE BackgroundPush(d)
    BY <2>1 DEF BackgroundPush
  <2>2. ASSUME NEW w \in BOOLEAN, CycleStart(d, w)
        PROVE  pull'[x].page[j] = pull[x].page[j]
    <3>1. /\ x # d => pull'[x] = pull[x]
          /\ x = d => pull'[x] = [pull[x] EXCEPT !.st = IF w THEN "due" ELSE "idle"]
      BY <2>2 DEF CycleStart, TypeOK
    <3>2. pull'[x].page = pull[x].page
      BY <1>3, <3>1 DEF Pull
    <3> QED BY <3>2
  <2> QED BY <2>1, <2>2
<1> QED BY <1>1, <1>2, <1>4, <1>5 DEF Steps, Quiet, RowStays, SeenStays, PageStays, DocStays

LEMMA BuildSteps ==
  ASSUME TypeOK, NEW d \in Devices, NEW e \in 1..NumEntities, PushBuild(d, e),
         NEW x \in Devices, NEW j \in Keys
  PROVE  Steps(x, j)
<1>1. /\ row' = row /\ pull' = pull /\ seen' = seen /\ doc' = doc /\ log' = log
      /\ up' = up /\ DiscardRests(x, j)
  BY DEF PushBuild, cloud, history, DiscardRests
<1>2. CASE x = d /\ push[d].ops[j].st = "claimed" /\ EntityOf[j] = e
  <2>1. CASE Exists(row[d][j])
    BY <1>1, <1>2, <2>1, BuildEffect
       DEF Steps, Built, SeenStays, PageStays, DocStays, EntryRests
  <2>2. CASE ~Exists(row[d][j])
    <3>1. LostRow(x, j) /\ push'[x].ops[j].st = "none"
      BY <1>1, <1>2, <2>2, BuildEffect DEF LostRow
    <3> QED BY <1>1, <3>1 DEF Steps, Quiet, QuietEntry, RowStays, SeenStays,
                              OpStays, PageStays, DocStays, Sent
  <2> QED BY <2>1, <2>2
<1>3. CASE ~(x = d /\ push[d].ops[j].st = "claimed" /\ EntityOf[j] = e)
  <2>1. push'[x].ops[j] = push[x].ops[j] /\ queue'[x][j] = queue[x][j]
    BY <1>3, BuildEffect
  <2> QED BY <1>1, <2>1 DEF Steps, Quiet, QuietEntry, RestsOn, EntryRests, RowStays, SeenStays, OpStays, PageStays, DocStays
<1> QED BY <1>2, <1>3

LEMMA ReconcileRowEffect ==
  ASSUME TypeOK, NEW d \in Devices, NEW k \in Keys, ReconcileRow(d, k)
  PROVE  /\ Replied(push[d].ops[k])
         /\ row'[d][k] = RowAfter(row[d][k], push[d].ops[k])
         /\ seen'[d][k] = seen[d][k] \cup Shown(push[d].ops[k])
         /\ \A x \in Devices, j \in Keys : x # d \/ j # k =>
              row'[x][j] = row[x][j] /\ seen'[x][j] = seen[x][j]
BY DEF ReconcileRow, TypeOK

LEMMA ReconcileStray ==
  ASSUME TypeOK, NEW d \in Devices, NEW k \in Keys, ReconcileRow(d, k)
  PROVE  /\ \A x \in Devices, j \in Keys : x # d \/ j # k =>
              DiscardRests(x, j)
         /\ k \in stray'[d] <=>
              /\ ~Acked(d, k)'
              /\ k \in stray[d] \/ Overtaken(row[d][k], push[d].ops[k])
         /\ Overtaken(row[d][k], push[d].ops[k]) => k \in dropped'
<1> DEFINE late == IF Overtaken(row[d][k], push[d].ops[k]) THEN {k} ELSE {}
           after == IF Acked(d, k)' THEN stray[d] \ {k} ELSE stray[d] \cup late
<1>1. stray' = [stray EXCEPT ![d] = after] /\ dropped' = dropped \cup late
  BY DEF ReconcileRow
<1>2. \A j \in Keys \ {k} : j \in after <=> j \in stray[d]
  OBVIOUS
<1>3. k \in after <=> /\ ~Acked(d, k)'
                      /\ k \in stray[d] \/ Overtaken(row[d][k], push[d].ops[k])
  OBVIOUS
<1>4. Overtaken(row[d][k], push[d].ops[k]) => k \in dropped'
  BY <1>1
<1> HIDE DEF after, late
<1>5. stray'[d] = after /\ \A x \in Devices \ {d} : stray'[x] = stray[x]
  BY <1>1 DEF TypeOK
<1> QED BY <1>2, <1>3, <1>4, <1>5 DEF DiscardRests

LEMMA ReconcileSteps ==
  ASSUME TypeOK, NEW d \in Devices, NEW k \in Keys, ReconcileRow(d, k),
         doc' = doc, log' = log,
         \A i \in Keys : pull'[d].page[i] \in {pull[d].page[i], NoDoc},
         \A y \in Devices \ {d} : /\ pull'[y] = pull[y] /\ push'[y] = push[y]
                                  /\ up'[y] = up[y] /\ queue'[y] = queue[y],
         push'[d].ops[k].st = "none",
         \/ /\ up'[d] = up[d]
            /\ queue'[d][k] = EntryAfter(row[d][k], queue[d][k], push[d].ops[k])
            /\ \A i \in Keys \ {k} : /\ push'[d].ops[i] = push[d].ops[i]
                                     /\ queue'[d][i] = queue[d][i]
         \/ /\ ~up'[d] /\ queue'[d] = queue[d]
            /\ \A i \in Keys : push'[d].ops[i].st = "none",
         NEW x \in Devices, NEW j \in Keys
  PROVE  Steps(x, j)
<1>1. CASE x = d /\ j = k
  <2>1. ReconciledEntry(x, j)
    BY <1>1, ReconcileStray DEF ReconciledEntry
  <2> QED BY <1>1, <2>1, ReconcileRowEffect DEF Steps, Reconciled, PageStays, DocStays
<1>2. CASE x # d \/ j # k
  <2>1. row'[x][j] = row[x][j] /\ seen'[x][j] = seen[x][j]
    BY <1>2, ReconcileRowEffect
  <2>2. DiscardRests(x, j)
    BY <1>2, ReconcileStray
  <2>3. QuietEntry(x, j)
    <3>1. CASE x = d /\ ~up'[d]
      BY <1>2, <2>1, <2>2, <3>1 DEF QuietEntry, DiesWith, RestsOn, EntryRests
    <3>2. CASE ~(x = d /\ ~up'[d])
      BY <1>2, <2>1, <2>2, <3>2 DEF QuietEntry, RestsOn, EntryRests
    <3> QED BY <3>1, <3>2
  <2> QED BY <2>1, <2>3 DEF Steps, Quiet, RowStays, SeenStays, OpStays, PageStays, DocStays, Sent
<1> QED BY <1>1, <1>2

LEMMA PageRecord ==
  ASSUME TypeOK, NEW d \in Devices, ApplyPage(d), NEW j \in Keys
  PROVE  /\ j \notin OnPage(d) =>
              /\ row'[d][j] = row[d][j] /\ seen'[d][j] = seen[d][j]
              /\ queue'[d][j] = queue[d][j] /\ DiscardRests(d, j)
         /\ j \in OnPage(d) =>
              /\ pull[d].page[j].ver > 0
              /\ seen'[d][j] = seen[d][j] \cup {pull[d].page[j].c.n}
              /\ PagedEntry(d, j)
              /\ \/ /\ Exists(row[d][j]) /\ LocalWins(row[d][j].c, pull[d].page[j].c)
                    /\ row'[d][j] = [row[d][j] EXCEPT !.ver = pull[d].page[j].ver]
                 \/ row'[d][j] = Synced(pull[d].page[j].c, pull[d].page[j].ver)
         /\ \A x \in Devices \ {d} : /\ row'[x] = row[x] /\ seen'[x] = seen[x]
                                     /\ queue'[x] = queue[x]
                                     /\ stray'[x] = stray[x]
<1>1. row'[d][j] =
        IF j \notin OnPage(d) THEN row[d][j]
        ELSE IF PullKeepsLocal(d, j)
             THEN [row[d][j] EXCEPT !.ver = pull[d].page[j].ver]
             ELSE Synced(pull[d].page[j].c, pull[d].page[j].ver)
  BY DEF ApplyPage, TypeOK
<1>2. seen'[d][j] = IF j \in OnPage(d)
                    THEN seen[d][j] \cup {pull[d].page[j].c.n} ELSE seen[d][j]
  BY DEF ApplyPage, TypeOK
<1>3. \A x \in Devices \ {d} : /\ row'[x] = row[x] /\ seen'[x] = seen[x]
                               /\ queue'[x] = queue[x]
  BY DEF ApplyPage, TypeOK
<1>4. PullKeepsLocal(d, j) <=>
        queue[d][j].st # "none" /\ KeepsLocal(row[d][j], pull[d].page[j].c)
  BY DEF PullKeepsLocal
<1>5. KeepsLocal(row[d][j], pull[d].page[j].c) =>
        Exists(row[d][j]) /\ LocalWins(row[d][j].c, pull[d].page[j].c)
  BY DEF KeepsLocal
<1>6. j \in OnPage(d) => pull[d].page[j].ver > 0
  BY DEF OnPage
<1>7. queue'[d][j] = IF j \notin OnPage(d) THEN queue[d][j]
                     ELSE IF PullKeepsLocal(d, j) THEN Reopened(queue[d][j])
                     ELSE NoEntry
  BY DEF ApplyPage, TypeOK
<1>8. /\ Reopened(queue[d][j]).st = "queued"
      /\ Reopened(queue[d][j]).id = queue[d][j].id
      /\ Reopened(queue[d][j]).listed = queue[d][j].listed
  <2>1. queue[d][j] \in Entry
    BY DEF TypeOK
  <2> QED BY <2>1, EntryFields
<1>9. j \in OnPage(d) => (j \in stray'[d] <=> ~Acked(d, j)' /\ j \in stray[d])
  BY DEF ApplyPage, TypeOK
<1>11. j \notin OnPage(d) => DiscardRests(d, j)
  BY DEF ApplyPage, TypeOK, DiscardRests
<1>12. \A x \in Devices \ {d} : stray'[x] = stray[x]
  BY DEF ApplyPage, TypeOK
<1>10. j \in OnPage(d) => PagedEntry(d, j)
  BY <1>1, <1>4, <1>7, <1>8, <1>9 DEF PagedEntry
<1> QED BY <1>1, <1>2, <1>3, <1>4, <1>5, <1>6, <1>7, <1>10, <1>11, <1>12

LEMMA PageSteps ==
  ASSUME TypeOK, NEW d \in Devices, ApplyPage(d),
         doc' = doc, log' = log,
         \A i \in Keys : pull'[d].page[i] = NoDoc,
         \A y \in Devices \ {d} : /\ pull'[y] = pull[y] /\ push'[y] = push[y]
                                  /\ up'[y] = up[y],
         \/ up'[d] = up[d] /\ \A i \in Keys : push'[d].ops[i] = push[d].ops[i]
         \/ ~up'[d] /\ \A i \in Keys : push'[d].ops[i].st = "none",
         NEW x \in Devices, NEW j \in Keys
  PROVE  Steps(x, j)
<1>1. CASE x = d /\ j \in OnPage(d)
  BY <1>1, PageRecord DEF Steps, Paged, DocStays
<1>2. CASE x # d \/ j \notin OnPage(d)
  <2>1. /\ row'[x][j] = row[x][j] /\ seen'[x][j] = seen[x][j]
        /\ queue'[x][j] = queue[x][j]
    BY <1>2, PageRecord
  <2>2. DiscardRests(x, j)
    BY <1>2, PageRecord DEF DiscardRests
  <2>3. QuietEntry(x, j)
    <3>1. CASE x = d /\ ~up'[d]
      BY <1>2, <2>1, <2>2, <3>1 DEF QuietEntry, DiesWith, RestsOn, EntryRests
    <3>2. CASE ~(x = d /\ ~up'[d])
      BY <1>2, <2>1, <2>2, <3>2 DEF QuietEntry, RestsOn, EntryRests
    <3> QED BY <3>1, <3>2
  <2> QED BY <2>1, <2>3 DEF Steps, Quiet, RowStays, SeenStays, OpStays, PageStays, DocStays, Sent
<1> QED BY <1>1, <1>2

LEMMA NextEntityEffect ==
  ASSUME TypeOK, NEW d \in Devices, NextEntity(d)
  PROVE  /\ \A i \in Keys : pull'[d].page[i] = NoDoc
         /\ pull'[d].st \in {"idle", "query"}
         /\ \A y \in Devices \ {d} : pull'[y] = pull[y]
BY DEF NextEntity, TypeOK, IdlePull, NoPage

LEMMA CommitEffect ==
  ASSUME TypeOK, NEW d \in Devices, NEW k \in Keys, Commit(d, k)
  PROVE  /\ Taken(push[d].ops[k], k)
         /\ \A j \in Keys \ {k} : DocStays(j)
<1>1. PICK ts \in {tick, tick + 1} :
        /\ doc' = [doc EXCEPT ![k] = [c |-> push[d].ops[k].c,
                                     ver |-> push[d].ops[k].base + 1, ts |-> ts]]
        /\ tick' = ts
        /\ log' = [log EXCEPT ![k] = @ \cup {push[d].ops[k].c.n}]
  BY DEF Commit, Stored
<1> QED BY <1>1 DEF Commit, Taken, DocStays, TypeOK

LEMMA CloudSteps ==
  ASSUME TypeOK, NEW d \in Devices, CloudStep(d) \/ FaultStep(d),
         NEW x \in Devices, NEW j \in Keys
  PROVE  Steps(x, j)
<1>1. row' = row /\ seen' = seen /\ EntryRests(x, j)
  BY CloudEffect DEF EntryRests, DiscardRests
<1>2. CASE PullFail(d)
  <2>1. push' = push /\ doc' = doc /\ log' = log
    BY <1>2 DEF PullFail, cloud
  <2>2. PageStays(x, j)
    BY <1>2, NextEntityEffect DEF PullFail, PageStays
  <2> QED BY <1>1, <2>1, <2>2 DEF Steps, Quiet, QuietEntry, RestsOn, RowStays, SeenStays, OpStays, DocStays
<1>3. ASSUME NEW k \in Keys, NEW st, NEW c, NEW v,
             push[d].ops[k].st = "sent", Answered(d, k, st, c, v), pull' = pull,
             st \notin {"none", "claimed", "sent"},
             Replies(push[d].ops[k], [st |-> st, rc |-> c, rv |-> v], k),
             \A i \in Keys \ {k} : DocStays(i)
      PROVE  Steps(x, j)
  <2>1. /\ \A y \in Devices \ {d} : push'[y] = push[y]
        /\ \A i \in Keys \ {k} : push'[d].ops[i] = push[d].ops[i]
        /\ push'[d].ops[k].st = st
        /\ push'[d].ops[k].qid = push[d].ops[k].qid
        /\ push'[d].ops[k].c = push[d].ops[k].c
        /\ push'[d].ops[k].base = push[d].ops[k].base
        /\ push'[d].ops[k].rc = c /\ push'[d].ops[k].rv = v
    BY <1>3, AnsweredEffect
  <2>2. CASE x = d /\ j = k
    <3>1. Replies(push[d].ops[k], push'[d].ops[k], k)
      BY <1>3, <2>1 DEF Replies
    <3> QED BY <1>1, <1>3, <2>1, <2>2, <3>1 DEF Steps, Replying, SeenStays, PageStays
  <2>3. CASE j # k
    BY <1>1, <1>3, <2>1, <2>3
       DEF Steps, Quiet, QuietEntry, RestsOn, RowStays, SeenStays, OpStays, PageStays
  <2>4. CASE x # d /\ j = k
    <3>1. DocStays(k) \/ Taken(push[d].ops[k], k)
      BY <1>3 DEF Replies
    <3> QED BY <1>1, <1>3, <2>1, <2>4, <3>1
            DEF Steps, Quiet, QuietEntry, RestsOn, RowStays, SeenStays, OpStays, PageStays
  <2> QED BY <2>2, <2>3, <2>4
<1>4. ASSUME NEW k \in Keys, CloudApply(d, k)
      PROVE  Steps(x, j)
  <2>1. Commit(d, k) /\ Answered(d, k, "applied", NoContent, 0) /\ pull' = pull
    BY <1>4 DEF CloudApply
  <2>2. Taken(push[d].ops[k], k) /\ \A i \in Keys \ {k} : DocStays(i)
    BY <2>1, CommitEffect
  <2>3. /\ push[d].ops[k].st = "sent"
        /\ Replies(push[d].ops[k], [st |-> "applied", rc |-> NoContent, rv |-> 0], k)
    BY <2>2 DEF Taken, Replies
  <2> QED BY <1>3, <2>1, <2>2, <2>3
<1>5. ASSUME NEW k \in Keys, CloudLoseReply(d, k)
      PROVE  Steps(x, j)
  <2>1. Commit(d, k) /\ Answered(d, k, "transient", NoContent, 0) /\ pull' = pull
    BY <1>5 DEF CloudLoseReply
  <2>2. Taken(push[d].ops[k], k) /\ \A i \in Keys \ {k} : DocStays(i)
    BY <2>1, CommitEffect
  <2>3. /\ push[d].ops[k].st = "sent"
        /\ Replies(push[d].ops[k], [st |-> "transient", rc |-> NoContent, rv |-> 0], k)
    BY <2>2 DEF Taken, Replies
  <2> QED BY <1>3, <2>1, <2>2, <2>3
<1>6. ASSUME NEW k \in Keys, CloudReject(d, k)
      PROVE  Steps(x, j)
  <2>1. /\ push[d].ops[k].st = "sent" /\ doc[k].ver # push[d].ops[k].base
        /\ IF doc[k].ver = 0 THEN Answered(d, k, "gone", NoContent, 0)
           ELSE Answered(d, k, "conflict", doc[k].c, doc[k].ver)
        /\ pull' = pull /\ \A i \in Keys : DocStays(i)
    BY <1>6 DEF CloudReject, DocStays, cloud
  <2>2. CASE doc[k].ver = 0
    <3>1. Replies(push[d].ops[k], [st |-> "gone", rc |-> NoContent, rv |-> 0], k)
      BY <2>1, <2>2 DEF Replies
    <3> QED BY <1>3, <2>1, <2>2, <3>1
  <2>3. CASE doc[k].ver # 0
    <3>1. Replies(push[d].ops[k],
                  [st |-> "conflict", rc |-> doc[k].c, rv |-> doc[k].ver], k)
      BY <2>1, <2>3 DEF Replies
    <3> QED BY <1>3, <2>1, <2>3, <3>1
  <2> QED BY <2>2, <2>3
<1>7. ASSUME NEW k \in Keys, NEW st \in {"transient", "fatal"}, CloudFault(d, k, st)
      PROVE  Steps(x, j)
  <2>1. /\ push[d].ops[k].st = "sent" /\ Answered(d, k, st, NoContent, 0)
        /\ pull' = pull /\ \A i \in Keys : DocStays(i)
    BY <1>7 DEF CloudFault, DocStays, cloud
  <2>2. Replies(push[d].ops[k], [st |-> st, rc |-> NoContent, rv |-> 0], k)
    BY <2>1 DEF Replies
  <2> QED BY <1>3, <1>7, <2>1, <2>2
<1> QED BY <1>2, <1>4, <1>5, <1>6, <1>7 DEF CloudStep, FaultStep

LEMMA PullSteps ==
  ASSUME TypeOK, NEW d \in Devices, PullStep(d),
         NEW x \in Devices, NEW j \in Keys
  PROVE  Steps(x, j)
<1>1. push' = push /\ doc' = doc /\ log' = log /\ up' = up
  BY DEF PullStep, PullStart, PullQuery, PullApply, cloud
<1>0. pull[d] \in Pull
  BY DEF TypeOK
<1>2. CASE PullStart(d)
  <2>1. /\ row' = row /\ seen' = seen /\ pull' = [pull EXCEPT ![d].st = "query"]
        /\ EntryRests(x, j)
    BY <1>1, <1>2 DEF PullStart, local, history, EntryRests, DiscardRests
  <2>2. pull'[x].page[j] = pull[x].page[j]
    BY <1>0, <2>1 DEF TypeOK, Pull
  <2> QED BY <1>1, <2>1, <2>2
          DEF Steps, Quiet, QuietEntry, RestsOn, RowStays, SeenStays, OpStays, PageStays, DocStays
<1>3. CASE PullQuery(d)
  <2>1. row' = row /\ seen' = seen /\ EntryRests(x, j)
    BY <1>1, <1>3 DEF PullQuery, local, history, EntryRests, DiscardRests
  <2>2. CASE x = d
    <3>1. pull'[d].page[j] \in {doc[j], NoDoc}
      <4>1. CASE Fresh(d) = {}
        BY <1>3, <4>1, NextEntityEffect DEF PullQuery
      <4>2. CASE Fresh(d) # {}
        <5> DEFINE pg == [k \in Keys |-> IF k \in FirstPage(d) THEN doc[k] ELSE NoDoc]
        <5>1. pull'[d] = [pull[d] EXCEPT !.st = "page", !.page = pg]
          BY <1>3, <4>2 DEF PullQuery, TypeOK
        <5>2. pull'[d].page = pg
          <6> HIDE DEF pg
          <6> QED BY <1>0, <5>1 DEF Pull
        <5> QED BY <5>2
      <4> QED BY <4>1, <4>2
    <3> QED BY <1>1, <2>1, <2>2, <3>1 DEF Steps, Queried, SeenStays, DocStays
  <2>3. CASE x # d
    <3>1. pull'[x] = pull[x]
      BY <1>3, <2>3, NextEntityEffect DEF PullQuery, TypeOK
    <3> QED BY <1>1, <2>1, <3>1
            DEF Steps, Quiet, QuietEntry, RestsOn, RowStays, SeenStays, OpStays, PageStays, DocStays
  <2> QED BY <2>2, <2>3
<1>4. ASSUME NEW k \in Keys, PullApply(d, k)
      PROVE  Steps(x, j)
  <2>1. ApplyPage(d)
    BY <1>4 DEF PullApply
  <2>2. \A i \in Keys : pull'[d].page[i] = NoDoc
    <3>1. CASE NextEntity(d)
      BY <3>1, NextEntityEffect
    <3>2. CASE pull' = [pull EXCEPT ![d] = [@ EXCEPT !.st = "query", !.page = NoPage]]
      <4>1. pull'[d] = [pull[d] EXCEPT !.st = "query", !.page = NoPage]
        BY <3>2 DEF TypeOK
      <4>2. pull'[d].page = NoPage
        BY <1>0, <4>1 DEF Pull
      <4> QED BY <4>2 DEF NoPage
    <3> QED BY <1>4, <3>1, <3>2 DEF PullApply
  <2>3. \A y \in Devices \ {d} : pull'[y] = pull[y]
    BY <1>4, NextEntityEffect DEF PullApply, TypeOK
  <2> QED BY <1>1, <2>1, <2>2, <2>3, PageSteps
<1> QED BY <1>2, <1>3, <1>4 DEF PullStep

LEMMA CrashSteps ==
  ASSUME TypeOK, NEW d \in Devices, CrashStep(d),
         NEW x \in Devices, NEW j \in Keys
  PROVE  Steps(x, j)
<1>1. Die(d) /\ doc' = doc /\ log' = log
  BY DEF CrashStep, Crash, CrashInReconcile, CrashInPull, cloud
<1>2. \A i \in Keys : pull'[d].page[i] = NoDoc
  BY <1>1 DEF Die, TypeOK, IdlePull, NoPage
<1>3. /\ \A y \in Devices \ {d} : /\ pull'[y] = pull[y] /\ push'[y] = push[y]
                                  /\ up'[y] = up[y]
      /\ \A k \in Keys : push'[d].ops[k].st = "none"
      /\ ~up'[d]
  BY <1>1, DieEffect
<1>4. CASE Crash(d)
  <2>1. row' = row /\ seen' = seen /\ queue' = queue /\ stray' = stray
    BY <1>4 DEF Crash, local, history
  <2>2. QuietEntry(x, j)
    <3>1. CASE x = d
      BY <1>3, <2>1, <3>1 DEF QuietEntry, DiesWith, DiscardRests
    <3>2. CASE x # d
      BY <1>3, <2>1, <3>2 DEF QuietEntry, RestsOn, EntryRests, DiscardRests
    <3> QED BY <3>1, <3>2
  <2> QED BY <1>1, <1>2, <1>3, <2>1, <2>2
          DEF Steps, Quiet, RowStays, SeenStays, OpStays, PageStays, DocStays, Sent
<1>5. ASSUME NEW k \in Keys, CrashInReconcile(d, k)
      PROVE  Steps(x, j)
  <2>1. ReconcileRow(d, k) /\ queue' = queue
    BY <1>5 DEF CrashInReconcile
  <2> QED BY <1>1, <1>2, <1>3, <2>1, ReconcileSteps
<1>6. CASE CrashInPull(d)
  <2>1. ApplyPage(d)
    BY <1>6 DEF CrashInPull
  <2> QED BY <1>1, <1>2, <1>3, <2>1, PageSteps
<1> QED BY <1>4, <1>5, <1>6 DEF CrashStep

LEMMA MigratedSteps ==
  ASSUME TypeOK, NEW d \in Devices, Migrated(d), push' = push,
         NEW x \in Devices, NEW j \in Keys, up'[x] = up[x] \/ x = d
  PROVE  RowStays(x, j) /\ QuietEntry(x, j)
<1>1. CASE x # d
  <2>1. /\ row'[x] = row[x] /\ queue'[x] = queue[x] /\ stray'[x] = stray[x]
        /\ up'[x] = up[x]
    BY <1>1 DEF Migrated, TypeOK
  <2> QED BY <2>1 DEF RowStays, QuietEntry, RestsOn, EntryRests, DiscardRests
<1>2. CASE x = d
  <2>1. /\ row'[d][j] = IF Exists(row[d][j])
                        THEN [row[d][j] EXCEPT !.st = "pending"] ELSE row[d][j]
        /\ queue'[d][j] = NoEntry
        /\ j \in stray'[d] <=> Exists(row[d][j])
        /\ Exists(row[d][j]) /\ row[d][j].c.n \notin seen[d][j] => j \in dropped'
    BY DEF Migrated, TypeOK
  <2> QED BY <1>2, <2>1 DEF RowStays, QuietEntry, MigratedNow
<1> QED BY <1>1, <1>2

LEMMA OtherSteps ==
  ASSUME TypeOK, NEW d \in Devices,
         \/ BackgroundMigrates(d) \/ BackgroundPull(d) \/ Launch(d) \/ SignInAgain(d)
         \/ \E k \in Keys : BackoffElapsed(d, k)
         \/ ScreenStep(d),
         NEW x \in Devices, NEW j \in Keys
  PROVE  Steps(x, j)
<1>1. /\ push' = push /\ doc' = doc /\ log' = log /\ seen' = seen
  BY DEF BackgroundMigrates, BackgroundPull, Launch, SignInAgain, BackoffElapsed,
         ScreenStep, Retry, Discard, cloud, history
<1>2. \A i \in Keys : queue[d][i] \in Entry
  BY DEF TypeOK
<1>9. PageStays(x, j)
  <2>1. CASE BackgroundPull(d)
    BY <2>1 DEF BackgroundPull, PageStays, IdlePull, NoPage, TypeOK
  <2>2. CASE ~BackgroundPull(d)
    <3>1. pull' = pull
      BY <2>2 DEF BackgroundMigrates, Launch, SignInAgain, BackoffElapsed,
                  ScreenStep, Retry, Discard
    <3> QED BY <3>1 DEF PageStays
  <2> QED BY <2>1, <2>2
<1>10. RowStays(x, j) /\ QuietEntry(x, j) => Steps(x, j)
  BY <1>1, <1>9 DEF Steps, Quiet, SeenStays, OpStays, DocStays
<1>11. ASSUME row'[x][j] = row[x][j], QuietEntry(x, j)
       PROVE  Steps(x, j)
  BY <1>10, <1>11 DEF RowStays
<1>3. CASE BackgroundMigrates(d)
  BY <1>1, <1>3, <1>10, MigratedSteps DEF BackgroundMigrates
<1>4. CASE BackgroundPull(d)
  BY <1>1, <1>4, <1>11 DEF BackgroundPull, local, history, QuietEntry, RestsOn, EntryRests, DiscardRests
<1>5. CASE Launch(d)
  <2>1. Migrated(d) /\ (up'[x] = up[x] \/ x = d)
    BY <1>5 DEF Launch, TypeOK
  <2> QED BY <1>1, <1>10, <2>1, MigratedSteps
<1>8. CASE SignInAgain(d)
  <2>1. row' = row /\ stray' = stray /\ up' = up
    BY <1>8 DEF SignInAgain, history
  <2>2. CASE x # d
    <3>1. queue'[x] = queue[x]
      BY <1>8, <2>2 DEF SignInAgain, TypeOK
    <3> QED BY <1>1, <1>11, <2>1, <3>1 DEF QuietEntry, RestsOn, EntryRests, DiscardRests
  <2>3. CASE x = d
    <3>1. \/ queue'[d][j] = Relisted(queue[d][j])
          \/ /\ queue[d][j].st = "processing"
             /\ queue'[d][j] = [Relisted(queue[d][j]) EXCEPT !.st = "queued"]
      BY <1>8 DEF SignInAgain, TypeOK
    <3>2. queue[d][j] \in Entry
      BY <1>2
    <3>3. CASE queue'[d][j] = Relisted(queue[d][j])
      <4>1. RelistedNow(d, j)
        BY <1>1, <2>1, <3>2, <3>3, EntryFields DEF RelistedNow, DiscardRests
      <4> QED BY <1>11, <2>1, <2>3, <4>1 DEF QuietEntry
    <3>4. CASE /\ queue[d][j].st = "processing"
               /\ queue'[d][j] = [Relisted(queue[d][j]) EXCEPT !.st = "queued"]
      <4>1. RelistedNow(d, j)
        BY <1>1, <2>1, <3>2, <3>4, EntryFields DEF RelistedNow, DiscardRests
      <4> QED BY <1>11, <2>1, <2>3, <4>1 DEF QuietEntry
    <3> QED BY <3>1, <3>3, <3>4
  <2> QED BY <2>2, <2>3
<1>6. ASSUME NEW k \in Keys, BackoffElapsed(d, k)
      PROVE  Steps(x, j)
  <2>1. /\ row' = row /\ stray' = stray /\ up' = up
        /\ queue' = [queue EXCEPT ![d][k] = [queue[d][k] EXCEPT !.wait = FALSE]]
    BY <1>6 DEF BackoffElapsed, history
  <2>2. \/ queue'[x][j] = queue[x][j]
        \/ x = d /\ queue'[d][j] = [queue[d][j] EXCEPT !.wait = FALSE]
    BY <2>1 DEF TypeOK
  <2>3. EntryRests(x, j)
    BY <1>2, <2>1, <2>2, EntryFields DEF EntryRests, DiscardRests
  <2> QED BY <1>1, <1>11, <2>1, <2>3 DEF QuietEntry, RestsOn
<1>7. ASSUME NEW k \in Keys, Retry(d, k) \/ Discard(d, k)
      PROVE  Steps(x, j)
  <2>1. /\ row' = row /\ up' = up /\ up[d] /\ queue[d][k].listed
    BY <1>7 DEF Retry, Discard, CanRun
  <2>2. CASE x # d
    <3>1. queue'[x] = queue[x] /\ stray'[x] = stray[x]
      BY <1>7, <2>2 DEF Retry, Discard, history, TypeOK
    <3> QED BY <1>1, <1>11, <2>1, <3>1 DEF QuietEntry, RestsOn, EntryRests, DiscardRests
  <2>3. CASE x = d /\ j # k
    <3>1. queue'[d][j] = Relisted(queue[d][j])
      BY <1>7, <2>3 DEF Retry, Discard, TypeOK
    <3>2. DiscardRests(d, j)
      BY <1>7, <2>3 DEF Retry, Discard, history, TypeOK, DiscardRests
    <3>3. RelistedNow(d, j)
      BY <1>1, <1>2, <3>1, <3>2, EntryFields DEF RelistedNow
    <3> QED BY <1>11, <2>1, <2>3, <3>3 DEF QuietEntry
  <2>4. CASE x = d /\ j = k /\ Retry(d, k)
    <3>1. queue'[d][k] = Relisted(Reopened(queue[d][k])) /\ stray' = stray
      BY <2>4 DEF Retry, TypeOK, history
    <3>2. RetriedNow(d, k)
      BY <1>1, <1>2, <2>1, <3>1, EntryFields DEF RetriedNow, DiscardRests
    <3> QED BY <1>11, <2>1, <2>4, <3>2 DEF QuietEntry
  <2>5. CASE x = d /\ j = k /\ Discard(d, k)
    <3>1. queue'[d][k] = NoEntry /\ k \in stray'[d] /\ k \in dropped'
      BY <2>5 DEF Discard, TypeOK
    <3>2. DiscardedNow(d, k)
      BY <1>1, <2>1, <3>1 DEF DiscardedNow
    <3> QED BY <1>11, <2>1, <2>5, <3>2 DEF QuietEntry
  <2> QED BY <1>7, <2>2, <2>3, <2>4, <2>5
<1> QED BY <1>3, <1>4, <1>5, <1>6, <1>7, <1>8 DEF ScreenStep

LEMMA StepCases ==
  ASSUME TypeOK, [Next]_vars, NEW x \in Devices, NEW j \in Keys
  PROVE  Steps(x, j)
<1>1. CASE UNCHANGED vars
  BY <1>1 DEF vars, Steps, Quiet, QuietEntry, RestsOn, EntryRests, DiscardRests, RowStays, SeenStays, OpStays, PageStays, DocStays
<1>2. ASSUME NEW d \in Devices, PushStep(d)
      PROVE  Steps(x, j)
  <2>1. CASE \E e \in 1..NumEntities : PushBuild(d, e)
    BY <2>1, BuildSteps
  <2>2. CASE PushReply(d)
    <3>1. /\ row' = row /\ pull' = pull /\ seen' = seen /\ doc' = doc /\ log' = log
          /\ EntryRests(x, j)
      BY <2>2 DEF PushReply, local, cloud, history, EntryRests, DiscardRests
    <3>2. push'[x].ops = push[x].ops
      BY <2>2, ReplyEffect
    <3> QED BY <3>1, <3>2
            DEF Steps, Quiet, QuietEntry, RestsOn, RowStays, SeenStays, OpStays, PageStays, DocStays
  <2>3. ASSUME NEW k \in Keys, Reconcile(d, k)
        PROVE  Steps(x, j)
    <3>1. ReconcileRow(d, k) /\ pull' = pull /\ doc' = doc /\ log' = log
      BY <2>3 DEF Reconcile, cloud
    <3>0. /\ \A y \in Devices \ {d} : queue'[y] = queue[y]
          /\ \A i \in Keys \ {k} : queue'[d][i] = queue[d][i]
          /\ up' = up
      BY <2>3 DEF Reconcile, TypeOK
    <3>2. /\ \A y \in Devices \ {d} : push'[y] = push[y] /\ queue'[y] = queue[y]
          /\ push'[d].ops[k].st = "none"
          /\ queue'[d][k] = EntryAfter(row[d][k], queue[d][k], push[d].ops[k])
          /\ \A i \in Keys \ {k} : /\ push'[d].ops[i] = push[d].ops[i]
                                   /\ queue'[d][i] = queue[d][i]
          /\ up' = up
      BY <2>3, <3>0, ReconcileEffect, ReconcileEntryEffect
    <3> QED BY <3>1, <3>2, ReconcileSteps
  <2> QED BY <1>2, <2>1, <2>2, <2>3 DEF PushStep
<1> QED BY <1>1, <1>2, EditSteps, ClaimSteps, CloudSteps, PullSteps, CrashSteps,
           OtherSteps DEF Next

(***************************************************************************)
(* Versions and contents.                                                  *)
(***************************************************************************)
\* No row, op or page is ahead of the document, and no document vanishes.
Behind(x, j) ==
  LET op == push[x].ops[j] IN
  /\ row[x][j].ver <= doc[j].ver
  /\ pull[x].page[j].ver <= doc[j].ver
  /\ Sent(op) => op.base <= doc[j].ver /\ op.st # "gone"
  /\ op.st = "applied" => op.base < doc[j].ver
  /\ op.st = "conflict" => op.rv <= doc[j].ver

\* What has the document's version has the document's content.
Named(x, j) ==
  LET op == push[x].ops[j]
      p == pull[x].page[j]
  IN  /\ doc[j].ver = 0 => doc[j].c = NoContent
      /\ ~Exists(row[x][j]) => row[x][j].ver = 0 /\ row[x][j].c = NoContent
      /\ op.st = "applied" /\ op.base + 1 = doc[j].ver => doc[j].c = op.c
      /\ op.st = "conflict" /\ op.rv = doc[j].ver => doc[j].c = op.rc
      /\ p.ver > 0 /\ p.ver = doc[j].ver => doc[j].c = p.c

\* A device that has the document's version was shown its content.
Informed(x, j) ==
  LET op == push[x].ops[j] IN
  /\ row[x][j].ver = doc[j].ver => doc[j].c.n \in seen[x][j]
  /\ Sent(op) /\ op.base = doc[j].ver => doc[j].c.n \in seen[x][j]
  /\ 0 \in seen[x][j]

\* What the cloud shows or acknowledges it holds or has held.
Logged(x, j) ==
  LET op == push[x].ops[j]
      p == pull[x].page[j]
  IN  /\ doc[j].c.n \in log[j]
      /\ p.ver > 0 => p.c.n \in log[j]
      /\ op.st = "applied" => op.c.n \in log[j]
      /\ op.st = "conflict" => op.rc.n \in log[j]

CloudInv == \A x \in Devices, j \in Keys :
  Behind(x, j) /\ Named(x, j) /\ Informed(x, j) /\ Logged(x, j)

\* The record, the op, the page entry and the document are what they are
\* called.
LEMMA Typed ==
  ASSUME TypeOK, NEW x \in Devices, NEW j \in Keys
  PROVE  /\ row[x][j] \in Row /\ push[x].ops[j] \in Op
         /\ pull[x].page[j] \in Doc /\ doc[j] \in Doc
         /\ row[x][j].ver \in Nat /\ push[x].ops[j].base \in Nat
         /\ push[x].ops[j].rv \in Nat
         /\ pull[x].page[j].ver \in Nat /\ doc[j].ver \in Nat
<1>1. row[x][j] \in Row /\ push[x].ops[j] \in Op
  BY DEF TypeOK, Push
<1>2. pull[x].page[j] \in Doc /\ doc[j] \in Doc
  BY DEF TypeOK, Pull
<1>3. row[x][j].ver \in Nat
  BY <1>1 DEF Row
<1>4. push[x].ops[j].base \in Nat /\ push[x].ops[j].rv \in Nat
  BY <1>1 DEF Op
<1>5. pull[x].page[j].ver \in Nat /\ doc[j].ver \in Nat
  BY <1>2 DEF Doc
<1> QED BY <1>1, <1>2, <1>3, <1>4, <1>5

\* What reconcile leaves of a row.
LEMMA RowAfterCases ==
  ASSUME NEW own \in Row, NEW op \in Op, Replied(op), op.st # "gone"
  PROVE  \/ /\ op.st = "conflict" /\ Exists(own) /\ LocalWins(own.c, op.rc)
            /\ RowAfter(own, op).c = own.c /\ RowAfter(own, op).ver = op.rv
            /\ RowAfter(own, op).st = own.st
         \/ /\ op.st = "conflict" /\ ~KeepsLocal(own, op.rc)
            /\ RowAfter(own, op).c = op.rc /\ RowAfter(own, op).ver = op.rv
            /\ RowAfter(own, op).st = "synced"
         \/ /\ op.st = "applied" /\ Exists(own)
            /\ RowAfter(own, op).c = own.c /\ RowAfter(own, op).ver = op.base + 1
            /\ RowAfter(own, op).st = "synced"
         \/ /\ op.st \in {"transient", "fatal"} /\ Exists(own)
            /\ RowAfter(own, op).c = own.c /\ RowAfter(own, op).ver = own.ver
            /\ RowAfter(own, op).st = "failed"
         \/ /\ op.st \in {"applied", "transient", "fatal"} /\ ~Exists(own)
            /\ RowAfter(own, op) = own
<1>1. op.st \in {"applied", "conflict", "transient", "fatal"}
  BY DEF Replied, Op, OpStates
<1>2. CASE op.st = "conflict" /\ KeepsLocal(own, op.rc)
  <2>1. RowAfter(own, op) = [own EXCEPT !.ver = op.rv]
    BY <1>2 DEF RowAfter
  <2> QED BY <1>2, <2>1 DEF KeepsLocal, Row
<1>3. CASE op.st = "conflict" /\ ~KeepsLocal(own, op.rc)
  <2>1. RowAfter(own, op) = Synced(op.rc, op.rv)
    BY <1>3 DEF RowAfter
  <2> QED BY <1>3, <2>1 DEF Synced
<1>4. CASE op.st = "applied" /\ Exists(own)
  <2>1. RowAfter(own, op) = [own EXCEPT !.st = "synced", !.ver = op.base + 1]
    BY <1>4 DEF RowAfter
  <2> QED BY <1>4, <2>1 DEF Row
<1>5. CASE op.st \in {"transient", "fatal"} /\ Exists(own)
  <2>1. RowAfter(own, op) = [own EXCEPT !.st = "failed"]
    BY <1>5 DEF RowAfter
  <2> QED BY <1>5, <2>1 DEF Row
<1>6. CASE op.st \in {"applied", "transient", "fatal"} /\ ~Exists(own)
  <2>1. RowAfter(own, op) = own
    BY <1>6 DEF RowAfter
  <2> QED BY <1>6, <2>1
<1> QED BY <1>1, <1>2, <1>3, <1>4, <1>5, <1>6

\* A document only moves to the version of an op based on the one it has.
LEMMA DocMoves ==
  ASSUME TypeOK, NEW j \in Keys, NEW op \in Op, Taken(op, j)
  PROVE  /\ doc'[j].ver = doc[j].ver + 1 /\ doc'[j].c = op.c
         /\ op.base = doc[j].ver /\ op.st = "sent"
         /\ log'[j] = log[j] \cup {op.c.n}
<1>1. doc[j].ver \in Nat
  BY DEF TypeOK, Doc
<1>2. doc'[j].ver = op.base + 1 /\ doc'[j].c = op.c
  BY DEF Taken
<1> QED BY <1>1, <1>2 DEF Taken

\* The row's fields after a step that leaves it alone.
LEMMA RowStaysFields ==
  ASSUME TypeOK, NEW x \in Devices, NEW j \in Keys, RowStays(x, j)
  PROVE  /\ row'[x][j].c = row[x][j].c /\ row'[x][j].ver = row[x][j].ver
         /\ Exists(row'[x][j]) <=> Exists(row[x][j])
         /\ row'[x][j].st \in {row[x][j].st, "pending"}
<1>1. row[x][j] \in Row
  BY Typed
<1> QED BY <1>1 DEF RowStays, Row, Exists

LEMMA EditedRow ==
  ASSUME TypeOK, NEW x \in Devices, NEW j \in Keys, Edited(x, j)
  PROVE  \E del \in BOOLEAN :
           /\ Exists(row[x][j]) => (row[x][j].c.del => del)
           /\ row'[x][j].c = NewContent(x, del)
           /\ row'[x][j].ver = row[x][j].ver /\ row'[x][j].st = "pending"
           /\ Exists(row'[x][j])
<1>1. row[x][j] \in Row
  BY Typed
<1>2. PICK del \in BOOLEAN :
        /\ Exists(row[x][j]) => (row[x][j].c.del => del)
        /\ row'[x][j] = [row[x][j] EXCEPT !.c = NewContent(x, del), !.st = "pending"]
  BY Zenon DEF Edited
<1>3. /\ row'[x][j].c = NewContent(x, del)
      /\ row'[x][j].ver = row[x][j].ver /\ row'[x][j].st = "pending"
  BY <1>1, <1>2 DEF Row
<1> QED BY <1>2, <1>3 DEF Exists

LEMMA PagedRow ==
  ASSUME TypeOK, NEW x \in Devices, NEW j \in Keys, Paged(x, j)
  PROVE  /\ row'[x][j].ver = pull[x].page[j].ver
         /\ Exists(row'[x][j])
         /\ \/ /\ Exists(row[x][j]) /\ LocalWins(row[x][j].c, pull[x].page[j].c)
               /\ row'[x][j].c = row[x][j].c /\ row'[x][j].st = row[x][j].st
            \/ row'[x][j].c = pull[x].page[j].c /\ row'[x][j].st = "synced"
<1>1. row[x][j] \in Row
  BY Typed
<1>2. CASE row'[x][j] = Synced(pull[x].page[j].c, pull[x].page[j].ver)
  BY <1>2 DEF Synced, Exists
<1>3. CASE /\ Exists(row[x][j]) /\ LocalWins(row[x][j].c, pull[x].page[j].c)
           /\ row'[x][j] = [row[x][j] EXCEPT !.ver = pull[x].page[j].ver]
  BY <1>1, <1>3 DEF Row, Exists
<1> QED BY <1>2, <1>3 DEF Paged

LEMMA CloudInvInit == Init => CloudInv
<1> SUFFICES ASSUME Init, NEW x \in Devices, NEW j \in Keys
             PROVE  Behind(x, j) /\ Named(x, j) /\ Informed(x, j) /\ Logged(x, j)
  BY DEF CloudInv
<1>1. row[x][j] = NoRow /\ doc[j] = NoDoc
  BY DEF Init
<1>2. push[x].ops[j] = NoOp /\ pull[x].page[j] = NoDoc
  BY DEF Init, IdlePush, IdlePull, NoPage
<1>3. seen[x][j] = {0} /\ log[j] = {0}
  BY DEF Init
<1>4. /\ NoRow.ver = 0 /\ NoRow.c = NoContent /\ NoDoc.ver = 0 /\ NoDoc.c = NoContent
      /\ NoOp.st = "none" /\ NoContent.n = 0
  BY DEF NoRow, NoDoc, NoOp, NoContent
<1>5. Behind(x, j)
  BY <1>1, <1>2, <1>4 DEF Behind, Sent
<1>6. Named(x, j)
  BY <1>1, <1>2, <1>4 DEF Named
<1>7. Informed(x, j)
  BY <1>1, <1>2, <1>3, <1>4 DEF Informed, Sent
<1>8. Logged(x, j)
  BY <1>1, <1>2, <1>3, <1>4 DEF Logged
<1> QED BY <1>5, <1>6, <1>7, <1>8

LEMMA BehindNext ==
  ASSUME TypeOK, TypeOK', CloudInv, NEW x \in Devices, NEW j \in Keys, Steps(x, j)
  PROVE  Behind(x, j)'
<1> DEFINE r == row[x][j]     r2 == row'[x][j]
           op == push[x].ops[j] op2 == push'[x].ops[j]
           p == pull[x].page[j] p2 == pull'[x].page[j]
           D == doc[j]        D2 == doc'[j]
<1>1. /\ r.ver \in Nat /\ op.base \in Nat /\ op.rv \in Nat /\ p.ver \in Nat
      /\ D.ver \in Nat /\ r \in Row /\ op \in Op
  BY Typed
<1>2. /\ r.ver <= D.ver /\ p.ver <= D.ver
      /\ Sent(op) => op.base <= D.ver /\ op.st # "gone"
      /\ op.st = "applied" => op.base < D.ver
      /\ op.st = "conflict" => op.rv <= D.ver
  BY DEF CloudInv, Behind
<1>3. ASSUME NEW d \in Devices, Taken(push[d].ops[j], j)
      PROVE  D2.ver = D.ver + 1
  BY <1>3, Typed, DocMoves
<1>4. NoDoc.ver = 0
  BY DEF NoDoc
<1>5. CASE Quiet(x, j)
  <2>1. r2.ver = r.ver
    BY <1>5, RowStaysFields DEF Quiet
  <2>2. D2.ver = D.ver \/ D2.ver = D.ver + 1
    BY <1>3, <1>5 DEF Quiet, DocStays
  <2>3. p2 = p \/ p2 = NoDoc
    BY <1>5 DEF Quiet, PageStays
  <2>4. op2 = op \/ op2.st \in {"none", "claimed"}
    BY <1>5 DEF Quiet, OpStays, Sent
  <2> QED BY <1>1, <1>2, <1>4, <2>1, <2>2, <2>3, <2>4 DEF Behind, Sent
<1>6. CASE Queried(x, j)
  BY <1>1, <1>2, <1>4, <1>6 DEF Queried, DocStays, Behind
<1>7. CASE Built(x, j)
  <2>1. /\ r2 = r /\ D2 = D /\ (p2 = p \/ p2 = NoDoc)
        /\ op2.st = "sent" /\ op2.base = r.ver
    BY <1>7 DEF Built, DocStays, PageStays
  <2> QED BY <1>1, <1>2, <1>4, <2>1 DEF Behind
<1>8. CASE Replying(x, j)
  <2>1. /\ r2 = r /\ (p2 = p \/ p2 = NoDoc) /\ op.st = "sent"
        /\ op2.base = op.base
        /\ Replies(op, op2, j)
    BY <1>8 DEF Replying, PageStays
  <2>0. op.base <= D.ver
    BY <1>2, <2>1 DEF Sent
  <2>2. CASE Taken(op, j) /\ op2.st \in {"applied", "transient"}
    <3>1. D2.ver = D.ver + 1 /\ op.base = D.ver
      BY <1>1, <2>2, DocMoves
    <3>2. r2.ver <= D2.ver /\ p2.ver <= D2.ver /\ op2.base < D2.ver
      BY <1>1, <1>2, <1>4, <2>1, <3>1
    <3>3. op2.base <= D2.ver
      BY <1>1, <2>1, <3>1
    <3> QED BY <2>2, <3>2, <3>3 DEF Behind
  <2>3. CASE DocStays(j) /\ op2.st \in {"transient", "fatal"}
    BY <1>1, <1>2, <1>4, <2>0, <2>1, <2>3 DEF Behind, DocStays
  <2>4. CASE DocStays(j) /\ D.ver # op.base /\ D.ver = 0
    BY <1>1, <2>0, <2>4
  <2>5. CASE DocStays(j) /\ op2.st = "conflict" /\ op2.rv = D.ver
    BY <1>1, <1>2, <1>4, <2>0, <2>1, <2>5 DEF Behind, DocStays
  <2> QED BY <2>1, <2>2, <2>3, <2>4, <2>5 DEF Replies
<1>9. CASE Edited(x, j)
  <2>1. r2.ver = r.ver /\ D2 = D /\ p2 = p /\ op2 = op
    BY <1>9, EditedRow, Zenon DEF Edited, DocStays
  <2> QED BY <1>1, <1>2, <2>1 DEF Behind
<1>10. CASE Reconciled(x, j)
  <2>1. /\ Replied(op) /\ r2 = RowAfter(r, op) /\ op2.st = "none"
        /\ D2 = D /\ (p2 = p \/ p2 = NoDoc)
    BY <1>10 DEF Reconciled, DocStays, PageStays
  <2>2. Sent(op)
    BY <2>1 DEF Replied, Sent
  <2>3. r2.ver <= D.ver
    BY <1>1, <1>2, <2>1, <2>2, RowAfterCases
  <2> QED BY <1>1, <1>2, <1>4, <2>1, <2>3 DEF Behind, Sent
<1>11. CASE Paged(x, j)
  <2>1. r2.ver = p.ver /\ D2 = D /\ p2 = NoDoc /\ (op2 = op \/ ~Sent(op2))
    BY <1>11, PagedRow DEF Paged, DocStays, Sent
  <2> QED BY <1>1, <1>2, <1>4, <2>1 DEF Behind, Sent
<1> QED BY <1>5, <1>6, <1>7, <1>8, <1>9, <1>10, <1>11 DEF Steps

LEMMA NamedNext ==
  ASSUME TypeOK, TypeOK', CloudInv, NEW x \in Devices, NEW j \in Keys, Steps(x, j)
  PROVE  Named(x, j)'
<1> DEFINE r == row[x][j]     r2 == row'[x][j]
           op == push[x].ops[j] op2 == push'[x].ops[j]
           p == pull[x].page[j] p2 == pull'[x].page[j]
           D == doc[j]        D2 == doc'[j]
<1>1. /\ r.ver \in Nat /\ op.base \in Nat /\ op.rv \in Nat /\ p.ver \in Nat
      /\ D.ver \in Nat /\ r \in Row /\ op \in Op
  BY Typed
<1>2. /\ r.ver <= D.ver /\ p.ver <= D.ver
      /\ Sent(op) => op.base <= D.ver /\ op.st # "gone"
      /\ op.st = "applied" => op.base < D.ver
      /\ op.st = "conflict" => op.rv <= D.ver
  BY DEF CloudInv, Behind
<1>3. /\ D.ver = 0 => D.c = NoContent
      /\ ~Exists(r) => r.ver = 0 /\ r.c = NoContent
      /\ op.st = "applied" /\ op.base + 1 = D.ver => D.c = op.c
      /\ op.st = "conflict" /\ op.rv = D.ver => D.c = op.rc
      /\ p.ver > 0 /\ p.ver = D.ver => D.c = p.c
  BY DEF CloudInv, Named
<1>4. NoDoc.ver = 0
  BY DEF NoDoc
<1>5. CASE Quiet(x, j)
  <2>1. r2.ver = r.ver /\ r2.c = r.c /\ (Exists(r2) <=> Exists(r))
    BY <1>5, RowStaysFields DEF Quiet
  <2>2. p2 = p \/ p2 = NoDoc
    BY <1>5 DEF Quiet, PageStays
  <2>3. op2 = op \/ op2.st \in {"none", "claimed"}
    BY <1>5 DEF Quiet, OpStays, Sent
  <2>4. CASE DocStays(j)
    BY <1>1, <1>3, <1>4, <2>1, <2>2, <2>3, <2>4 DEF Named, DocStays
  <2>5. ASSUME NEW d \in Devices, Taken(push[d].ops[j], j)
        PROVE  Named(x, j)'
    <3>1. D2.ver = D.ver + 1
      BY <2>5, Typed, DocMoves
    <3>2. /\ D2.ver # 0 /\ p.ver # D2.ver
          /\ op.st = "applied" => op.base + 1 # D2.ver
          /\ op.st = "conflict" => op.rv # D2.ver
      BY <1>1, <1>2, <3>1
    <3> QED BY <1>3, <1>4, <2>1, <2>2, <2>3, <3>2 DEF Named
  <2> QED BY <1>5, <2>4, <2>5 DEF Quiet
<1>6. CASE Queried(x, j)
  BY <1>1, <1>3, <1>4, <1>6 DEF Queried, DocStays, Named
<1>7. CASE Built(x, j)
  <2>1. /\ r2 = r /\ D2 = D /\ (p2 = p \/ p2 = NoDoc) /\ op2.st = "sent"
    BY <1>7 DEF Built, DocStays, PageStays
  <2> QED BY <1>3, <1>4, <2>1 DEF Named
<1>8. CASE Replying(x, j)
  <2>1. /\ r2 = r /\ (p2 = p \/ p2 = NoDoc) /\ op.st = "sent"
        /\ op2.base = op.base /\ op2.c = op.c
        /\ Replies(op, op2, j)
    BY <1>8 DEF Replying, PageStays
  <2>2. CASE Taken(op, j) /\ op2.st \in {"applied", "transient"}
    <3>1. D2.ver = D.ver + 1 /\ D2.c = op.c
      BY <1>1, <2>2, DocMoves
    <3>2. D2.ver # 0 /\ p.ver # D2.ver
      BY <1>1, <1>2, <3>1
    <3> QED BY <1>3, <1>4, <2>1, <2>2, <3>1, <3>2 DEF Named
  <2>3. CASE DocStays(j) /\ op2.st \in {"transient", "fatal", "gone"}
    BY <1>3, <1>4, <2>1, <2>3 DEF Named, DocStays
  <2>4. CASE DocStays(j) /\ op2.st = "conflict" /\ op2.rc = D.c
    BY <1>3, <1>4, <2>1, <2>4 DEF Named, DocStays
  <2> QED BY <2>1, <2>2, <2>3, <2>4 DEF Replies
<1>9. CASE Edited(x, j)
  <2>1. r2.ver = r.ver /\ D2 = D /\ p2 = p /\ op2 = op /\ Exists(r2)
    BY <1>9, EditedRow, Zenon DEF Edited, DocStays
  <2> QED BY <1>3, <2>1 DEF Named
<1>10. CASE Reconciled(x, j)
  <2>1. /\ Replied(op) /\ r2 = RowAfter(r, op) /\ op2.st = "none"
        /\ D2 = D /\ (p2 = p \/ p2 = NoDoc)
    BY <1>10 DEF Reconciled, DocStays, PageStays
  <2>2. op.st # "gone"
    BY <1>2, <2>1 DEF Replied, Sent
  <2>3. ~Exists(r2) => r2.ver = 0 /\ r2.c = NoContent
    <3>1. Exists(r2) \/ r2 = r
      BY <1>1, <2>1, <2>2, RowAfterCases DEF Exists
    <3> QED BY <1>3, <3>1
  <2> QED BY <1>3, <1>4, <2>1, <2>3 DEF Named
<1>11. CASE Paged(x, j)
  <2>1. Exists(r2) /\ D2 = D /\ p2 = NoDoc /\ (op2 = op \/ op2.st \in {"none", "claimed"})
    BY <1>11, PagedRow DEF Paged, DocStays, Sent
  <2> QED BY <1>3, <1>4, <2>1 DEF Named
<1> QED BY <1>5, <1>6, <1>7, <1>8, <1>9, <1>10, <1>11 DEF Steps

LEMMA InformedNext ==
  ASSUME TypeOK, TypeOK', CloudInv, NEW x \in Devices, NEW j \in Keys, Steps(x, j)
  PROVE  Informed(x, j)'
<1> DEFINE r == row[x][j]     r2 == row'[x][j]
           op == push[x].ops[j] op2 == push'[x].ops[j]
           p == pull[x].page[j]
           D == doc[j]        D2 == doc'[j]
           S == seen[x][j]    S2 == seen'[x][j]
<1>1. /\ r.ver \in Nat /\ op.base \in Nat /\ op.rv \in Nat /\ p.ver \in Nat
      /\ D.ver \in Nat /\ r \in Row /\ op \in Op
  BY Typed
<1>2. /\ r.ver <= D.ver
      /\ Sent(op) => op.base <= D.ver /\ op.st # "gone"
  BY DEF CloudInv, Behind
<1>3. /\ op.st = "applied" /\ op.base + 1 = D.ver => D.c = op.c
      /\ op.st = "conflict" /\ op.rv = D.ver => D.c = op.rc
      /\ p.ver > 0 /\ p.ver = D.ver => D.c = p.c
  BY DEF CloudInv, Named
<1>4. /\ r.ver = D.ver => D.c.n \in S
      /\ Sent(op) /\ op.base = D.ver => D.c.n \in S
      /\ 0 \in S
  BY DEF CloudInv, Informed
<1>5. CASE Quiet(x, j)
  <2>1. r2.ver = r.ver /\ S2 = S
    BY <1>5, RowStaysFields DEF Quiet, SeenStays
  <2>2. op2 = op \/ ~Sent(op2)
    BY <1>5 DEF Quiet, OpStays
  <2>3. CASE DocStays(j)
    BY <1>4, <2>1, <2>2, <2>3 DEF Informed, DocStays
  <2>4. ASSUME NEW d \in Devices, Taken(push[d].ops[j], j)
        PROVE  Informed(x, j)'
    <3>1. D2.ver = D.ver + 1
      BY <2>4, Typed, DocMoves
    <3>2. r.ver # D2.ver /\ (Sent(op) => op.base # D2.ver)
      BY <1>1, <1>2, <3>1
    <3> QED BY <1>4, <2>1, <2>2, <3>2 DEF Informed
  <2> QED BY <1>5, <2>3, <2>4 DEF Quiet
<1>6. CASE Queried(x, j)
  BY <1>4, <1>6 DEF Queried, DocStays, SeenStays, Informed
<1>7. CASE Built(x, j)
  BY <1>4, <1>7 DEF Built, DocStays, SeenStays, Informed
<1>8. CASE Replying(x, j)
  <2>1. /\ r2 = r /\ S2 = S /\ op.st = "sent" /\ op2.base = op.base
        /\ Replies(op, op2, j)
    BY <1>8 DEF Replying, SeenStays
  <2>2. CASE Taken(op, j)
    <3>1. D2.ver = D.ver + 1
      BY <1>1, <2>2, DocMoves
    <3>2. r.ver # D2.ver /\ op.base # D2.ver
      BY <1>1, <1>2, <2>1, <3>1 DEF Sent
    <3> QED BY <1>4, <2>1, <3>2 DEF Informed
  <2>3. CASE DocStays(j)
    BY <1>4, <2>1, <2>3 DEF Informed, DocStays, Sent
  <2> QED BY <2>1, <2>2, <2>3 DEF Replies
<1>9. CASE Edited(x, j)
  <2>1. r2.ver = r.ver /\ D2 = D /\ op2 = op /\ S2 = S
    BY <1>9, EditedRow, Zenon DEF Edited, DocStays, SeenStays
  <2> QED BY <1>4, <2>1 DEF Informed
<1>10. CASE Reconciled(x, j)
  <2>1. /\ Replied(op) /\ r2 = RowAfter(r, op) /\ op2.st = "none"
        /\ D2 = D /\ S2 = S \cup Shown(op)
    BY <1>10 DEF Reconciled, DocStays
  <2>2. op.st # "gone"
    BY <1>2, <2>1 DEF Replied, Sent
  <2>3. /\ op.st = "applied" => op.c.n \in S2
        /\ op.st = "conflict" => op.rc.n \in S2
    BY <2>1 DEF Shown
  <2>4. \/ op.st = "conflict" /\ r2.ver = op.rv
        \/ op.st = "applied" /\ r2.ver = op.base + 1
        \/ r2.ver = r.ver
    BY <1>1, <2>1, <2>2, RowAfterCases
  <2>5. r2.ver = D.ver => D.c.n \in S2
    BY <1>3, <1>4, <2>1, <2>3, <2>4
  <2> QED BY <1>4, <2>1, <2>5 DEF Informed, Sent
<1>11. CASE Paged(x, j)
  <2>1. /\ r2.ver = p.ver /\ D2 = D /\ S2 = S \cup {p.c.n} /\ p.ver > 0
        /\ (op2 = op \/ ~Sent(op2))
    BY <1>11, PagedRow DEF Paged, DocStays, Sent
  <2> QED BY <1>3, <1>4, <2>1 DEF Informed
<1> QED BY <1>5, <1>6, <1>7, <1>8, <1>9, <1>10, <1>11 DEF Steps

LEMMA LoggedNext ==
  ASSUME TypeOK, TypeOK', CloudInv, NEW x \in Devices, NEW j \in Keys, Steps(x, j)
  PROVE  Logged(x, j)'
<1> DEFINE op == push[x].ops[j] op2 == push'[x].ops[j]
           p == pull[x].page[j] p2 == pull'[x].page[j]
           D == doc[j]        D2 == doc'[j]
           L == log[j]        L2 == log'[j]
<1>1. /\ D.c.n \in L
      /\ p.ver > 0 => p.c.n \in L
      /\ op.st = "applied" => op.c.n \in L
      /\ op.st = "conflict" => op.rc.n \in L
  BY DEF CloudInv, Logged
<1>2. NoDoc.ver = 0
  BY DEF NoDoc
<1>3. ASSUME NEW d \in Devices, Taken(push[d].ops[j], j)
      PROVE  D2.c.n \in L2 /\ L \subseteq L2 /\ push[d].ops[j].c.n \in L2
  BY <1>3, Typed, DocMoves
<1>4. D2.c.n \in L2 /\ L \subseteq L2
  BY <1>1, <1>3, Zenon DEF Steps, Quiet, Queried, Built, Replying, Replies, Edited,
     Reconciled, Paged, DocStays
<1>5. \/ p2 = p \/ p2 = NoDoc
      \/ p2 = D /\ L2 = L
  BY EditedRow, Zenon DEF Steps, Quiet, Queried, Built, Replying, Edited,
     Reconciled, Paged, DocStays, PageStays
<1>6. p2.ver > 0 => p2.c.n \in L2
  BY <1>1, <1>2, <1>4, <1>5
<1>7. CASE Replying(x, j)
  <2>1. /\ op2.c = op.c
        /\ op2.st = "applied" => Taken(op, j)
        /\ op2.st = "conflict" => op2.rc = D.c
    BY <1>7 DEF Replying, Replies
  <2>2. /\ op2.st = "applied" => op2.c.n \in L2
        /\ op2.st = "conflict" => op2.rc.n \in L2
    BY <1>1, <1>3, <1>4, <2>1
  <2> QED BY <1>4, <1>6, <2>2 DEF Logged
<1>8. CASE ~Replying(x, j)
  <2>1. op2 = op \/ op2.st \in {"none", "claimed", "sent"}
    BY <1>8, Zenon DEF Steps, Quiet, Queried, Built, Edited, Reconciled, Paged, OpStays, Sent
  <2> QED BY <1>1, <1>4, <1>6, <2>1 DEF Logged
<1> QED BY <1>7, <1>8

LEMMA CloudInvNext ==
  ASSUME TypeOK, CloudInv, [Next]_vars
  PROVE  CloudInv'
<1>1. TypeOK'
  BY TypeNext
<1>2. ASSUME NEW x \in Devices, NEW j \in Keys
      PROVE  (Behind(x, j) /\ Named(x, j) /\ Informed(x, j) /\ Logged(x, j))'
  BY <1>1, StepCases, BehindNext, NamedNext, InformedNext, LoggedNext
<1> QED BY <1>2 DEF CloudInv

LEMMA CloudInvHolds == Spec => []CloudInv
<1>1. TypeOK /\ CloudInv /\ [Next]_vars => CloudInv'
  BY CloudInvNext
<1> QED BY <1>1, CloudInvInit, TypeCorrect, PTL DEF Spec

(***************************************************************************)
(* Without the background task: one of push and pull at a time.            *)
(***************************************************************************)
\* A page is held only while it waits to be applied.
PageHeld(x, j) == pull[x].page[j].ver > 0 => pull[x].st = "page"

PagesHeld == \A x \in Devices, j \in Keys : PageHeld(x, j)

LEMMA PagesHeldInit == Init => PagesHeld
BY DEF Init, PagesHeld, PageHeld, IdlePull, NoPage, NoDoc

\* A page is fetched.
Fetched(x) ==
  /\ PullQuery(x) /\ pull'[x].st = "page" /\ pull'[x].e = pull[x].e
  /\ \A j \in Keys : pull'[x].page[j] = IF j \in FirstPage(x) THEN doc[j] ELSE NoDoc

LEMMA PullMoves ==
  ASSUME TypeOK, [Next]_vars, NEW x \in Devices
  PROVE  \/ pull'[x] = pull[x]
         \/ pull[x].st # "page" /\ pull'[x].page = pull[x].page
         \/ \A j \in Keys : pull'[x].page[j] = NoDoc
         \/ Fetched(x)
<1>0. pull[x] \in Pull
  BY DEF TypeOK
<1>5. ASSUME NEW d \in Devices,
             \/ EditStep(d) \/ PushStep(d) \/ CloudStep(d) \/ BackgroundPush(d)
             \/ BackgroundMigrates(d) \/ Launch(d) \/ SignInAgain(d) \/ ScreenStep(d)
             \/ \E k \in Keys : BackoffElapsed(d, k)
             \/ \E k \in Keys, st \in {"transient", "fatal"} :
                  CloudLoseReply(d, k) \/ CloudFault(d, k, st)
      PROVE  pull'[x] = pull[x]
  BY <1>5, Zenon DEF EditStep, Create, Update, SoftDelete, Write, PushStep, PushBuild,
     PushReply, Reconcile, CloudStep, CloudApply, CloudReject, CloudLoseReply,
     CloudFault, BackgroundPush, BackgroundMigrates, Launch, SignInAgain,
     ScreenStep, Retry, Discard, BackoffElapsed
<1>6. ASSUME NEW d \in Devices, CrashStep(d) \/ BackgroundPull(d) \/ PullFail(d)
      PROVE  pull'[x] = pull[x] \/ \A j \in Keys : pull'[x].page[j] = NoDoc
  <2>1. CASE CrashStep(d)
    <3>1. pull' = [pull EXCEPT ![d] = IdlePull]
      BY <2>1 DEF CrashStep, Crash, CrashInReconcile, CrashInPull, Die
    <3> QED BY <3>1 DEF TypeOK, IdlePull, NoPage
  <2>2. CASE BackgroundPull(d)
    <3>1. pull' = [pull EXCEPT ![d] = [IdlePull EXCEPT !.st = "query"]]
      BY <2>2 DEF BackgroundPull
    <3>2. [IdlePull EXCEPT !.st = "query"].page = NoPage
      BY DEF IdlePull
    <3> QED BY <3>1, <3>2 DEF TypeOK, NoPage
  <2>3. CASE PullFail(d)
    BY <2>3, NextEntityEffect DEF PullFail
  <2> QED BY <1>6, <2>1, <2>2, <2>3
<1>7. ASSUME NEW d \in Devices, NEW w \in BOOLEAN, CycleStart(d, w)
      PROVE  \/ pull'[x] = pull[x]
             \/ pull[x].st # "page" /\ pull'[x].page = pull[x].page
  <2>1. /\ pull[d].st = "idle"
        /\ x # d => pull'[x] = pull[x]
        /\ x = d => pull'[x] = [pull[x] EXCEPT !.st = IF w THEN "due" ELSE "idle"]
    BY <1>7 DEF CycleStart, TypeOK
  <2> QED BY <1>0, <2>1 DEF Pull
<1>8. ASSUME NEW d \in Devices, PullStart(d)
      PROVE  \/ pull'[x] = pull[x]
             \/ pull[x].st # "page" /\ pull'[x].page = pull[x].page
  <2>1. /\ pull[d].st = "due"
        /\ x # d => pull'[x] = pull[x]
        /\ x = d => pull'[x] = [pull[x] EXCEPT !.st = "query"]
    BY <1>8 DEF PullStart, TypeOK
  <2> QED BY <1>0, <2>1 DEF Pull
<1>9. ASSUME NEW d \in Devices, PullQuery(d)
      PROVE  \/ pull'[x] = pull[x] \/ \A j \in Keys : pull'[x].page[j] = NoDoc
             \/ Fetched(x)
  <2>1. CASE NextEntity(d)
    BY <2>1, NextEntityEffect
  <2> DEFINE pg == [k \in Keys |-> IF k \in FirstPage(d) THEN doc[k] ELSE NoDoc]
  <2>2. CASE pull' = [pull EXCEPT ![d] = [@ EXCEPT !.st = "page", !.page = pg]]
    <3>1. /\ x # d => pull'[x] = pull[x]
          /\ x = d => pull'[x] = [pull[x] EXCEPT !.st = "page", !.page = pg]
      BY <2>2 DEF TypeOK
    <3>2. x = d => /\ pull'[x].st = "page" /\ pull'[x].e = pull[x].e
                    /\ pull'[x].page = pg
      <4> HIDE DEF pg
      <4> QED BY <1>0, <3>1 DEF Pull
    <3> QED BY <1>9, <3>1, <3>2 DEF Fetched
  <2> QED BY <1>9, <2>1, <2>2 DEF PullQuery
<1>10. ASSUME NEW d \in Devices, NEW k \in Keys, PullApply(d, k)
       PROVE  pull'[x] = pull[x] \/ \A j \in Keys : pull'[x].page[j] = NoDoc
  <2>1. CASE NextEntity(d)
    BY <2>1, NextEntityEffect
  <2>2. CASE pull' = [pull EXCEPT ![d] = [@ EXCEPT !.st = "query", !.page = NoPage]]
    <3>1. /\ x # d => pull'[x] = pull[x]
          /\ x = d => pull'[x] = [pull[x] EXCEPT !.st = "query", !.page = NoPage]
      BY <2>2 DEF TypeOK
    <3>2. x = d => pull'[x].page = NoPage
      BY <1>0, <3>1 DEF Pull
    <3> QED BY <3>1, <3>2 DEF NoPage
  <2> QED BY <1>10, <2>1, <2>2 DEF PullApply
<1>11. CASE UNCHANGED vars
  BY <1>11 DEF vars
<1> QED BY <1>5, <1>6, <1>7, <1>8, <1>9, <1>10, <1>11
        DEF Next, PullStep, FaultStep

LEMMA PagesHeldNext ==
  ASSUME TypeOK, PagesHeld, [Next]_vars
  PROVE  PagesHeld'
<1> SUFFICES ASSUME NEW x \in Devices, NEW j \in Keys
             PROVE  PageHeld(x, j)'
  BY DEF PagesHeld
<1>1. PageHeld(x, j) /\ ~(NoDoc.ver > 0)
  BY DEF PagesHeld, NoDoc
<1>2. \/ pull'[x] = pull[x] \/ pull'[x].page[j] = NoDoc
      \/ pull[x].st # "page" /\ pull'[x].page = pull[x].page
      \/ pull'[x].st = "page"
  BY PullMoves DEF Fetched
<1> QED BY <1>1, <1>2 DEF PageHeld

LEMMA PagesHeldAlways == Spec => []PagesHeld
<1>1. TypeOK /\ PagesHeld /\ [Next]_vars => PagesHeld'
  BY PagesHeldNext
<1> QED BY <1>1, PagesHeldInit, TypeCorrect, PTL DEF Spec

\* So no page is held for a record whose op has been built.
LEMMA NoPageBesideOp ==
  ASSUME OpsShape, PullAlone, PagesHeld, NEW x \in Devices, NEW j \in Keys,
         pull[x].page[j].ver > 0
  PROVE  push[x].ops[j].st = "none"
BY DEF OpsShape, OpShape, PullAlone, PullIsAlone, PagesHeld, PageHeld

\* The op in flight is about the version the row has; a page is not older.
InStep(x, j) ==
  LET op == push[x].ops[j] IN
  /\ Sent(op) => row[x][j].ver = op.base
  /\ op.st = "conflict" => op.base < op.rv
  /\ pull[x].page[j].ver > 0 => row[x][j].ver <= pull[x].page[j].ver

\* A row or an op that has the version of a tombstone is a delete itself.
Mourned(x, j) ==
  LET op == push[x].ops[j] IN
  /\ row[x][j].ver = doc[j].ver => (doc[j].c.del => row[x][j].c.del)
  /\ Sent(op) /\ op.base = doc[j].ver => (doc[j].c.del => op.c.del)
  /\ Sent(op) => (op.c.del => row[x][j].c.del)

LoneInv == \A x \in Devices, j \in Keys : InStep(x, j) /\ Mourned(x, j)

LEMMA LoneInit == Init => LoneInv
<1> SUFFICES ASSUME Init, NEW x \in Devices, NEW j \in Keys
             PROVE  InStep(x, j) /\ Mourned(x, j)
  BY DEF LoneInv
<1>1. row[x][j] = NoRow /\ doc[j] = NoDoc
  BY DEF Init
<1>2. push[x].ops[j] = NoOp /\ pull[x].page[j] = NoDoc
  BY DEF Init, IdlePush, IdlePull, NoPage
<1>4. /\ NoDoc.ver = 0 /\ NoDoc.c = NoContent
      /\ NoOp.st = "none" /\ ~NoContent.del
  BY DEF NoDoc, NoOp, NoContent
<1> QED BY <1>1, <1>2, <1>4 DEF InStep, Mourned, Sent

LEMMA InStepNext ==
  ASSUME TypeOK, CloudInv, OpsShape, PullAlone, PagesHeld, LoneInv,
         NEW x \in Devices, NEW j \in Keys, Steps(x, j)
  PROVE  InStep(x, j)'
<1> DEFINE r == row[x][j]     r2 == row'[x][j]
           op == push[x].ops[j] op2 == push'[x].ops[j]
           p == pull[x].page[j] p2 == pull'[x].page[j]
           D == doc[j]        D2 == doc'[j]
<1>1. /\ r.ver \in Nat /\ op.base \in Nat /\ op.rv \in Nat /\ p.ver \in Nat
      /\ D.ver \in Nat /\ r \in Row /\ op \in Op
  BY Typed
<1>2. r.ver <= D.ver /\ (Sent(op) => op.base <= D.ver /\ op.st # "gone")
  BY DEF CloudInv, Behind
<1>3. /\ Sent(op) => r.ver = op.base
      /\ op.st = "conflict" => op.base < op.rv
      /\ p.ver > 0 => r.ver <= p.ver
  BY DEF LoneInv, InStep
<1>4. NoDoc.ver = 0
  BY DEF NoDoc
<1>5. p.ver > 0 => op.st = "none"
  BY NoPageBesideOp
<1>6. CASE Quiet(x, j)
  <2>1. r2.ver = r.ver
    BY <1>6, RowStaysFields DEF Quiet
  <2>2. (p2 = p \/ p2 = NoDoc) /\ (op2 = op \/ op2.st \in {"none", "claimed"})
    BY <1>6 DEF Quiet, PageStays, OpStays, Sent
  <2> QED BY <1>1, <1>3, <1>4, <2>1, <2>2 DEF InStep, Sent
<1>7. CASE Queried(x, j)
  <2>1. r2 = r /\ op2 = op /\ (p2 = D \/ p2 = NoDoc)
    BY <1>7 DEF Queried
  <2> QED BY <1>1, <1>2, <1>3, <1>4, <2>1 DEF InStep
<1>8. CASE Built(x, j)
  <2>1. /\ r2 = r /\ (p2 = p \/ p2 = NoDoc)
        /\ op2.st = "sent" /\ op2.base = r.ver
    BY <1>8 DEF Built, PageStays
  <2> QED BY <1>1, <1>3, <1>4, <2>1 DEF InStep
<1>9. CASE Replying(x, j)
  <2>1. /\ r2 = r /\ (p2 = p \/ p2 = NoDoc) /\ op.st = "sent"
        /\ op2.base = op.base /\ Replies(op, op2, j)
    BY <1>9 DEF Replying, PageStays
  <2>2. op2.st = "conflict" => D.ver # op.base /\ op2.rv = D.ver
    BY <2>1 DEF Replies
  <2>3. r.ver = op.base /\ op.base <= D.ver
    BY <1>2, <1>3, <2>1 DEF Sent
  <2> QED BY <1>1, <1>3, <1>4, <2>1, <2>2, <2>3 DEF InStep
<1>10. CASE Edited(x, j)
  <2>1. r2.ver = r.ver /\ op2 = op /\ p2 = p
    BY <1>10, EditedRow, Zenon DEF Edited
  <2> QED BY <1>3, <2>1 DEF InStep
<1>11. CASE Reconciled(x, j)
  <2>1. op2.st = "none" /\ Replied(op) /\ (p2 = p \/ p2 = NoDoc)
    BY <1>11 DEF Reconciled, PageStays
  <2>2. ~(p2.ver > 0)
    BY <1>1, <1>4, <1>5, <2>1 DEF Replied
  <2> QED BY <2>1, <2>2 DEF InStep, Sent
<1>12. CASE Paged(x, j)
  <2>1. p.ver > 0 /\ p2 = NoDoc /\ (op2 = op \/ op2.st \in {"none", "claimed"})
    BY <1>12 DEF Paged, OpStays, Sent
  <2> QED BY <1>4, <1>5, <2>1 DEF InStep, Sent
<1> QED BY <1>6, <1>7, <1>8, <1>9, <1>10, <1>11, <1>12 DEF Steps

\* The side that wins over a delete is a delete.
LEMMA OnlyDeletesWin ==
  ASSUME NEW l, NEW r, LocalWins(l, r), r.del
  PROVE  l.del
BY Zenon DEF LocalWins

LEMMA MournedNext ==
  ASSUME TypeOK, CloudInv, OpsShape, PullAlone, PagesHeld, LoneInv,
         NEW x \in Devices, NEW j \in Keys, Steps(x, j)
  PROVE  Mourned(x, j)'
<1> DEFINE r == row[x][j]     r2 == row'[x][j]
           op == push[x].ops[j] op2 == push'[x].ops[j]
           p == pull[x].page[j] p2 == pull'[x].page[j]
           D == doc[j]        D2 == doc'[j]
<1>1. /\ r.ver \in Nat /\ op.base \in Nat /\ op.rv \in Nat /\ p.ver \in Nat
      /\ D.ver \in Nat /\ r \in Row /\ op \in Op
  BY Typed
<1>2. r.ver <= D.ver /\ (Sent(op) => op.base <= D.ver /\ op.st # "gone")
  BY DEF CloudInv, Behind
<1>3. /\ r.ver = D.ver => (D.c.del => r.c.del)
      /\ Sent(op) /\ op.base = D.ver => (D.c.del => op.c.del)
      /\ Sent(op) => (op.c.del => r.c.del)
  BY DEF LoneInv, Mourned
<1>4. /\ op.st = "applied" /\ op.base + 1 = D.ver => D.c = op.c
      /\ op.st = "conflict" /\ op.rv = D.ver => D.c = op.rc
      /\ p.ver > 0 /\ p.ver = D.ver => D.c = p.c
  BY DEF CloudInv, Named
<1>5. p.ver > 0 => op.st = "none"
  BY NoPageBesideOp
<1>6. CASE Quiet(x, j)
  <2>1. r2.ver = r.ver /\ r2.c = r.c
    BY <1>6, RowStaysFields DEF Quiet
  <2>2. op2 = op \/ ~Sent(op2)
    BY <1>6 DEF Quiet, OpStays
  <2>3. CASE DocStays(j)
    BY <1>3, <2>1, <2>2, <2>3 DEF Mourned, DocStays
  <2>4. ASSUME NEW d \in Devices, Taken(push[d].ops[j], j)
        PROVE  Mourned(x, j)'
    <3>1. D2.ver = D.ver + 1
      BY <2>4, Typed, DocMoves
    <3>2. r.ver # D2.ver /\ (Sent(op) => op.base # D2.ver)
      BY <1>1, <1>2, <3>1
    <3> QED BY <1>3, <2>1, <2>2, <3>2 DEF Mourned
  <2> QED BY <1>6, <2>3, <2>4 DEF Quiet
<1>7. CASE Queried(x, j)
  BY <1>3, <1>7 DEF Queried, DocStays, Mourned
<1>8. CASE Built(x, j)
  BY <1>3, <1>8 DEF Built, DocStays, Mourned
<1>9. CASE Replying(x, j)
  <2>1. /\ r2 = r /\ op.st = "sent" /\ op2.base = op.base /\ op2.c = op.c
        /\ Replies(op, op2, j)
    BY <1>9 DEF Replying
  <2>2. CASE Taken(op, j)
    <3>1. D2.ver = D.ver + 1
      BY <1>1, <2>2, DocMoves
    <3>2. r.ver # D2.ver /\ op.base # D2.ver
      BY <1>1, <1>2, <2>1, <3>1 DEF Sent
    <3> QED BY <1>3, <2>1, <3>2 DEF Mourned, Sent
  <2>3. CASE DocStays(j)
    BY <1>3, <2>1, <2>3 DEF Mourned, DocStays, Sent
  <2> QED BY <2>1, <2>2, <2>3 DEF Replies
<1>10. CASE Edited(x, j)
  <2>1. PICK del \in BOOLEAN :
          /\ Exists(r) => (r.c.del => del)
          /\ r2.c = NewContent(x, del) /\ r2.ver = r.ver
    BY <1>10, EditedRow
  <2>2. op2 = op /\ D2 = D
    BY <1>10 DEF Edited, DocStays
  <2>3. ~Exists(r) => ~r.c.del
    BY DEF CloudInv, Named, NoContent
  <2>4. NewContent(x, del).del = del
    BY DEF NewContent
  <2>5. r.c.del => r2.c.del
    BY <2>1, <2>3, <2>4
  <2> QED BY <1>3, <2>1, <2>2, <2>5 DEF Mourned
<1>11. CASE Reconciled(x, j)
  <2>1. /\ op2.st = "none" /\ Replied(op) /\ D2 = D /\ r2 = RowAfter(r, op)
    BY <1>11 DEF Reconciled, DocStays
  <2>2. Sent(op) /\ op.st # "gone"
    BY <1>2, <2>1 DEF Replied, Sent
  <2>3. ASSUME r2.ver = D.ver, D.c.del
        PROVE  r2.c.del
    <3>1. CASE /\ op.st = "conflict" /\ LocalWins(r.c, op.rc)
               /\ r2.c = r.c /\ r2.ver = op.rv
      BY <1>4, <2>3, <3>1, OnlyDeletesWin
    <3>2. CASE op.st = "conflict" /\ r2.c = op.rc /\ r2.ver = op.rv
      BY <1>4, <2>3, <3>2
    <3>3. CASE op.st = "applied" /\ r2.c = r.c /\ r2.ver = op.base + 1
      BY <1>3, <1>4, <2>2, <2>3, <3>3
    <3>4. CASE r2.c = r.c /\ r2.ver = r.ver
      BY <1>3, <2>3, <3>4
    <3> QED BY <1>1, <2>1, <2>2, <3>1, <3>2, <3>3, <3>4, RowAfterCases
  <2> QED BY <2>1, <2>3 DEF Mourned, Sent
<1>12. CASE Paged(x, j)
  <2>1. p.ver > 0 /\ D2 = D /\ (op2 = op \/ op2.st \in {"none", "claimed"})
    BY <1>12 DEF Paged, OpStays, DocStays, Sent
  <2>2. r2.ver = p.ver /\ ((LocalWins(r.c, p.c) /\ r2.c = r.c) \/ r2.c = p.c)
    BY <1>12, PagedRow
  <2>3. r2.ver = D.ver /\ D.c.del => r2.c.del
    BY <1>4, <2>1, <2>2, OnlyDeletesWin
  <2> QED BY <1>5, <2>1, <2>3 DEF Mourned, Sent
<1> QED BY <1>6, <1>7, <1>8, <1>9, <1>10, <1>11, <1>12 DEF Steps

LEMMA LoneInvNext ==
  ASSUME TypeOK, CloudInv, OpsShape, PullAlone, PagesHeld, LoneInv, [Next]_vars
  PROVE  LoneInv'
<1> SUFFICES ASSUME NEW x \in Devices, NEW j \in Keys
             PROVE  (InStep(x, j) /\ Mourned(x, j))'
  BY DEF LoneInv
<1>1. Steps(x, j)
  BY StepCases
<1> QED BY <1>1, InStepNext, MournedNext

LEMMA LoneInvHolds == ~Overlap => (Spec => []LoneInv)
<1> SUFFICES ASSUME ~Overlap
             PROVE  Spec => []LoneInv
  OBVIOUS
<1>1. TypeOK /\ CloudInv /\ OpsShape /\ PullAlone /\ PagesHeld /\ LoneInv
        /\ [Next]_vars => LoneInv'
  BY LoneInvNext
<1>2. Spec => []PullAlone
  BY PullAloneAlways
<1> QED BY <1>1, <1>2, LoneInit, TypeCorrect, CloudInvHolds, OpsShapeAlways,
           PagesHeldAlways, PTL DEF Spec

(***************************************************************************)
(* Versions do not go back, tombstones stay.                               *)
(***************************************************************************)
LEMMA VersionsGrow ==
  ASSUME TypeOK, CloudInv, LoneInv, NEW x \in Devices, NEW j \in Keys, Steps(x, j)
  PROVE  row[x][j].ver <= row'[x][j].ver
<1> DEFINE r == row[x][j]     r2 == row'[x][j]
           op == push[x].ops[j]
<1>1. /\ r.ver \in Nat /\ op.base \in Nat /\ op.rv \in Nat
      /\ r \in Row /\ op \in Op
  BY Typed
<1>2. /\ Sent(op) => r.ver = op.base /\ op.st # "gone"
      /\ op.st = "conflict" => op.base < op.rv
      /\ pull[x].page[j].ver > 0 => r.ver <= pull[x].page[j].ver
  BY DEF LoneInv, InStep, CloudInv, Behind
<1>3. CASE Quiet(x, j)
  BY <1>1, <1>3, RowStaysFields DEF Quiet
<1>4. CASE Queried(x, j) \/ Built(x, j) \/ Replying(x, j)
  BY <1>1, <1>4 DEF Queried, Built, Replying
<1>5. CASE Edited(x, j)
  BY <1>1, <1>5, EditedRow
<1>6. CASE Reconciled(x, j)
  <2>1. Replied(op) /\ r2 = RowAfter(r, op)
    BY <1>6 DEF Reconciled
  <2>2. Sent(op) /\ op.st # "gone"
    BY <1>2, <2>1 DEF Replied, Sent
  <2>3. \/ op.st = "conflict" /\ r2.ver = op.rv
        \/ r2.ver = op.base + 1
        \/ r2.ver = r.ver
    BY <1>1, <2>1, <2>2, RowAfterCases
  <2> QED BY <1>1, <1>2, <2>2, <2>3
<1>7. CASE Paged(x, j)
  BY <1>2, <1>7, PagedRow DEF Paged
<1> QED BY <1>3, <1>4, <1>5, <1>6, <1>7 DEF Steps

\* Every step of the cloud takes the content of an op, or leaves the document.
LEMMA DocSteps ==
  ASSUME TypeOK, [Next]_vars, NEW j \in Keys
  PROVE  doc'[j] = doc[j] \/ \E d \in Devices : Taken(push[d].ops[j], j)
<1>1. ASSUME NEW x \in Devices
      PROVE  doc'[j] = doc[j] \/ \E d \in Devices : Taken(push[d].ops[j], j)
  <2>1. Steps(x, j)
    BY StepCases
  <2> QED BY <2>1, Zenon DEF Steps, Quiet, Queried, Built, Replying, Replies, Edited,
                  Reconciled, Paged, DocStays
<1>2. CASE Devices = {}
  BY <1>2 DEF Next, vars
<1> QED BY <1>1, <1>2

LEMMA LogSteps ==
  ASSUME TypeOK, [Next]_vars, NEW j \in Keys
  PROVE  DocStays(j) \/ \E d \in Devices : Taken(push[d].ops[j], j)
<1>1. ASSUME NEW x \in Devices
      PROVE  DocStays(j) \/ \E d \in Devices : Taken(push[d].ops[j], j)
  <2>1. Steps(x, j)
    BY StepCases
  <2> QED BY <2>1, Zenon DEF Steps, Quiet, Queried, Built, Replying, Replies, Edited,
                  Reconciled, Paged
<1>2. CASE Devices = {}
  <2>1. UNCHANGED vars
    BY <1>2 DEF Next
  <2> QED BY <2>1 DEF vars, DocStays
<1> QED BY <1>1, <1>2

LEMMA TombstoneStays ==
  ASSUME TypeOK, LoneInv, [Next]_vars, NEW j \in Keys, doc[j].c.del
  PROVE  doc'[j].c.del
<1>1. CASE doc'[j] = doc[j]
  BY <1>1
<1>2. ASSUME NEW d \in Devices, Taken(push[d].ops[j], j)
      PROVE  doc'[j].c.del
  <2>1. push[d].ops[j] \in Op
    BY Typed
  <2>2. doc'[j].c = push[d].ops[j].c /\ push[d].ops[j].base = doc[j].ver
    BY <1>2, <2>1, DocMoves
  <2>3. Sent(push[d].ops[j])
    BY <1>2 DEF Taken, Sent
  <2>4. push[d].ops[j].c.del
    BY <2>2, <2>3 DEF LoneInv, Mourned
  <2> QED BY <2>2, <2>4
<1> QED BY <1>1, <1>2, DocSteps

\* Rows, ops, pages and documents that are there have a content, and a
\* document that is not there never was.
Filled(x, j) ==
  LET op == push[x].ops[j]
      p == pull[x].page[j]
  IN  /\ Exists(row[x][j]) => row[x][j].c.n # 0
      /\ Sent(op) => op.c.n # 0
      /\ op.st = "conflict" => op.rc.n # 0
      /\ p.ver > 0 => p.c.n # 0
      /\ doc[j].ver > 0 => doc[j].c.n # 0
      /\ doc[j].ver = 0 => log[j] = {0}

AllFilled == \A x \in Devices, j \in Keys : Filled(x, j)

LEMMA FilledInit == Init => AllFilled
BY DEF Init, AllFilled, Filled, NoRow, IdlePush, NoOp, IdlePull, NoPage, NoDoc,
       Exists, Sent

LEMMA FilledNext ==
  ASSUME TypeOK, CloudInv, AllFilled, NEW x \in Devices, NEW j \in Keys, Steps(x, j)
  PROVE  Filled(x, j)'
<1> DEFINE r == row[x][j]      r2 == row'[x][j]
           op == push[x].ops[j]   op2 == push'[x].ops[j]
           p == pull[x].page[j]   p2 == pull'[x].page[j]
<1>1. /\ r \in Row /\ op \in Op /\ doc[j].ver \in Nat /\ p.ver \in Nat
  BY Typed
<1>2. Filled(x, j) /\ (Sent(op) => op.st # "gone")
  BY DEF AllFilled, CloudInv, Behind
<1> DEFINE RowFull == Exists(r2) => r2.c.n # 0
           OpFull == (Sent(op2) => op2.c.n # 0) /\ (op2.st = "conflict" => op2.rc.n # 0)
           PageFull == p2.ver > 0 => p2.c.n # 0
           DocFull == /\ doc'[j].ver > 0 => doc'[j].c.n # 0
                      /\ doc'[j].ver = 0 => log'[j] = {0}
<1>3. ASSUME NEW d \in Devices, Taken(push[d].ops[j], j)
      PROVE  DocFull
  <2>1. push[d].ops[j] \in Op /\ Filled(d, j)
    BY Typed DEF AllFilled
  <2>2. doc'[j].ver = doc[j].ver + 1 /\ doc'[j].c = push[d].ops[j].c
    BY <1>3, <2>1, DocMoves
  <2>3. push[d].ops[j].c.n # 0
    BY <1>3, <2>1 DEF Taken, Filled, Sent
  <2> QED BY <1>1, <2>2, <2>3
<1>4. DocStays(j) => DocFull
  BY <1>2 DEF DocStays, Filled
<1>5. PageStays(x, j) => PageFull
  BY <1>2 DEF PageStays, Filled, NoDoc
<1>6. OpStays(x, j) \/ op2.st = "none" => OpFull
  BY <1>2 DEF OpStays, Filled, Sent
<1>7. r2 = r => RowFull
  BY <1>2 DEF Filled
<1>8. RowFull /\ OpFull /\ PageFull /\ DocFull => Filled(x, j)'
  BY DEF Filled
<1> HIDE DEF RowFull, OpFull, PageFull, DocFull
<1>9. CASE Quiet(x, j)
  <2>1. RowFull
    BY <1>2, <1>9, RowStaysFields DEF RowFull, Quiet, Filled
  <2> QED BY <1>3, <1>4, <1>5, <1>6, <1>8, <1>9, <2>1 DEF Quiet
<1>10. CASE Queried(x, j)
  <2>1. PageFull
    BY <1>2, <1>10 DEF PageFull, Queried, Filled, NoDoc
  <2> QED BY <1>4, <1>6, <1>7, <1>8, <1>10, <2>1 DEF Queried, OpStays
<1>11. CASE Built(x, j)
  <2>1. OpFull
    BY <1>2, <1>11 DEF OpFull, Built, Filled
  <2> QED BY <1>4, <1>5, <1>7, <1>8, <1>11, <2>1 DEF Built
<1>12. CASE Replying(x, j)
  <2>1. OpFull
    BY <1>1, <1>2, <1>12 DEF OpFull, Replying, Replies, Filled, Sent
  <2>2. DocFull
    BY <1>3, <1>4, <1>12 DEF Replying, Replies
  <2> QED BY <1>5, <1>7, <1>8, <1>12, <2>1, <2>2 DEF Replying
<1>13. CASE Edited(x, j)
  <2>1. RowFull
    <3>1. PICK del \in BOOLEAN : r2.c = NewContent(x, del)
      BY <1>13, EditedRow
    <3> QED BY <3>1 DEF RowFull, NewContent, TypeOK
  <2> QED BY <1>4, <1>5, <1>6, <1>8, <1>13, <2>1 DEF Edited, OpStays, PageStays
<1>14. CASE Reconciled(x, j)
  <2>1. Replied(op) /\ r2 = RowAfter(r, op) /\ Sent(op)
    BY <1>14 DEF Reconciled, Replied, Sent
  <2>2. \/ op.st = "conflict" /\ r2.c = op.rc
        \/ Exists(r) /\ r2.c = r.c
        \/ r2 = r
    BY <1>1, <1>2, <2>1, RowAfterCases
  <2>3. RowFull
    BY <1>2, <2>2 DEF RowFull, Filled
  <2> QED BY <1>4, <1>5, <1>6, <1>8, <1>14, <2>3 DEF Reconciled
<1>15. CASE Paged(x, j)
  <2>1. RowFull
    BY <1>2, <1>15, PagedRow DEF RowFull, Paged, Filled
  <2>2. PageFull
    BY <1>15 DEF PageFull, Paged, NoDoc
  <2> QED BY <1>4, <1>6, <1>8, <1>15, <2>1, <2>2 DEF Paged, OpStays
<1> QED BY <1>9, <1>10, <1>11, <1>12, <1>13, <1>14, <1>15 DEF Steps

LEMMA FilledAlways == Spec => []AllFilled
<1>1. TypeOK /\ CloudInv /\ AllFilled /\ [Next]_vars => AllFilled'
  BY StepCases, FilledNext DEF AllFilled
<1> QED BY <1>1, FilledInit, TypeCorrect, CloudInvHolds, PTL DEF Spec

\* Rule 1 of the resolver, across devices: as long as no background task
\* runs beside the scheduler, no push ever replaces a tombstone by a live
\* record, edits made while an op is in flight included.
THEOREM TombstonesAreKept == ~Overlap => (Spec => TombstonesStick)
<1> SUFFICES ASSUME ~Overlap
             PROVE  Spec => TombstonesStick
  OBVIOUS
<1>1. TypeOK /\ LoneInv /\ [Next]_vars =>
        [\A k \in Keys : doc[k].c.del => doc'[k].c.del \/ doc'[k].ver = 0]_vars
  BY TombstoneStays
<1>2. Spec => []LoneInv
  BY LoneInvHolds
<1> QED BY <1>1, <1>2, TypeCorrect, PTL DEF Spec, TombstonesStick

(***************************************************************************)
(* The cloud copy implements CloudRecord.                                  *)
(***************************************************************************)
LEMMA CloudRecordInit == Init => Cloud!Init
<1> SUFFICES ASSUME Init
             PROVE  Cloud!Init
  OBVIOUS
<1>1. \A k \in Keys : doc[k].c = [n |-> 0, by |-> 0, at |-> 0, del |-> FALSE]
  BY DEF Init, NoDoc, NoContent
<1>2. log = [k \in Keys |-> {0}] /\ seen = [d \in Devices |-> [k \in Keys |-> {0}]]
  BY DEF Init
<1> QED BY <1>1, <1>2 DEF Cloud!Init, Cloud!NoRecord

\* A committed op is a write of a device that knows what it overwrites.
LEMMA CommitWrites ==
  ASSUME TypeOK, CloudInv, LoneInv, AllFilled, [Next]_vars,
         NEW d \in Devices, NEW k \in Keys, Commit(d, k), seen' = seen
  PROVE  Cloud!Write(d, k)
<1>1. push[d].ops[k] \in Op
  BY Typed
<1>2. Taken(push[d].ops[k], k)
  BY CommitEffect
<1>3. /\ doc'[k].c = push[d].ops[k].c /\ push[d].ops[k].base = doc[k].ver
      /\ Sent(push[d].ops[k])
  BY <1>1, <1>2, DocMoves DEF Taken, Sent
<1>4. doc[k].c.n \in seen[d][k]
  BY <1>3 DEF CloudInv, Informed
<1>5. doc[k].c.del => doc'[k].c.del
  BY TombstoneStays
<1>6. \A j \in Keys \ {k} : doc'[j] = doc[j]
  BY CommitEffect DEF DocStays
<1>7. log' = [log EXCEPT ![k] = @ \cup {doc'[k].c.n}]
  BY <1>3, Zenon DEF Commit, Stored
<1>8. doc[k].c.n # 0 \/ log[k] = {0}
  BY DEF AllFilled, Filled, TypeOK, Doc
<1> QED BY <1>4, <1>5, <1>6, <1>7, <1>8 DEF Cloud!Write

\* What a device is shown is in the cloud or once was.
LEMMA SeenGrows ==
  ASSUME CloudInv, NEW x \in Devices, NEW j \in Keys, Steps(x, j)
  PROVE  /\ seen[x][j] \subseteq seen'[x][j]
         /\ seen'[x][j] \subseteq seen[x][j] \cup log[j]
<1> DEFINE op == push[x].ops[j]
           p == pull[x].page[j]
<1>1. /\ p.ver > 0 => p.c.n \in log[j]
      /\ op.st = "applied" => op.c.n \in log[j]
      /\ op.st = "conflict" => op.rc.n \in log[j]
  BY DEF CloudInv, Logged
<1>2. Shown(op) \subseteq log[j]
  BY <1>1 DEF Shown
<1> QED BY <1>1, <1>2, Zenon DEF Steps, Quiet, Queried, Built, Replying, Edited,
        Reconciled, Paged, SeenStays

LEMMA StepImplements ==
  ASSUME TypeOK, CloudInv, LoneInv, AllFilled, [Next]_vars
  PROVE  [Cloud!Next]_(Cloud!vars)
<1> DEFINE Same == doc' = doc /\ log' = log /\ seen' = seen
<1>1. CASE Same
  BY <1>1 DEF Cloud!vars
<1>2. ASSUME NEW d \in Devices, NEW k \in Keys, Commit(d, k), seen' = seen
      PROVE  Cloud!Next
  BY <1>2, CommitWrites DEF Cloud!Next
<1>3. ASSUME NEW d \in Devices, doc' = doc, log' = log,
             \A b \in Devices \ {d} : seen'[b] = seen[b]
      PROVE  Cloud!Next
  <2>1. \A k \in Keys : /\ seen[d][k] \subseteq seen'[d][k]
                        /\ seen'[d][k] \subseteq seen[d][k] \cup log[k]
    BY StepCases, SeenGrows
  <2>2. [k \in Keys |-> doc'[k].c] = [k \in Keys |-> doc[k].c]
    BY <1>3
  <2> QED BY <1>3, <2>1, <2>2 DEF Cloud!Next, Cloud!Learn
<1>4. ASSUME NEW d \in Devices, NEW k \in Keys,
             \/ CloudApply(d, k) \/ CloudLoseReply(d, k)
      PROVE  Commit(d, k) /\ seen' = seen
  BY <1>4 DEF CloudApply, CloudLoseReply, history
<1>5. ASSUME NEW d \in Devices,
             \/ \E k \in Keys : Reconcile(d, k)
             \/ \E k \in Keys : PullApply(d, k)
             \/ \E k \in Keys : CrashInReconcile(d, k)
             \/ CrashInPull(d)
      PROVE  doc' = doc /\ log' = log /\ \A b \in Devices \ {d} : seen'[b] = seen[b]
  BY <1>5 DEF Reconcile, PullApply, CrashInReconcile, CrashInPull, ReconcileRow,
              ApplyPage, cloud, TypeOK
<1>6. ASSUME NEW d \in Devices,
             \/ EditStep(d) \/ BackgroundMigrates(d) \/ BackgroundPush(d)
             \/ BackgroundPull(d) \/ Launch(d) \/ SignInAgain(d) \/ ScreenStep(d)
             \/ \E k \in Keys : BackoffElapsed(d, k)
             \/ \E w \in BOOLEAN : CycleStart(d, w)
             \/ \E e \in 1..NumEntities : PushBuild(d, e)
             \/ PushReply(d) \/ PullStart(d) \/ PullQuery(d) \/ PullFail(d)
             \/ \E k \in Keys : CloudReject(d, k)
             \/ \E k \in Keys, st \in {"transient", "fatal"} : CloudFault(d, k, st)
             \/ Crash(d)
      PROVE  Same
  BY <1>6, Zenon DEF EditStep, Create, Update, SoftDelete, Write, BackgroundMigrates,
     BackgroundPush, BackgroundPull, Launch, SignInAgain, ScreenStep, Retry,
     Discard, BackoffElapsed, CycleStart, PushBuild, PushReply, PullStart,
     PullQuery, PullFail, CloudReject, CloudFault, Crash, cloud, history
<1>7. CASE UNCHANGED vars
  BY <1>1, <1>7 DEF vars
<1> HIDE DEF Same
<1> QED BY <1>1, <1>2, <1>3, <1>4, <1>5, <1>6, <1>7
        DEF Next, PushStep, CloudStep, FaultStep, PullStep, CrashStep

\* Without the background task, the cloud copy behaves as CloudRecord
\* promises through every push, pull, lost answer and crash: a device
\* overwrites only a content it was shown, and never a tombstone by a live
\* record.
THEOREM CloudImplements == ~Overlap => (Spec => ImplementsCloudRecord)
<1> SUFFICES ASSUME ~Overlap
             PROVE  Spec => Cloud!Spec
  BY DEF ImplementsCloudRecord
<1>1. TypeOK /\ CloudInv /\ LoneInv /\ AllFilled /\ [Next]_vars => [Cloud!Next]_(Cloud!vars)
  BY StepImplements
<1>2. Spec => []LoneInv
  BY LoneInvHolds
<1> QED BY <1>1, <1>2, CloudRecordInit, TypeCorrect, CloudInvHolds, FilledAlways,
           PTL DEF Spec, Cloud!Spec

(***************************************************************************)
(* What a device calls synced, the cloud acknowledged, or it is astray.     *)
(***************************************************************************)
\* What is synced was shown or acknowledged, or went astray.
Known(x, j) ==
  row[x][j].st = "synced" => row[x][j].c.n \in seen[x][j] \/ j \in stray[x]

AllKnown == \A x \in Devices, j \in Keys : Known(x, j)

LEMMA KnownInit == Init => AllKnown
BY DEF Init, AllKnown, Known, NoRow

\* What a quiet step leaves of a row and of its being astray.
LEMMA QuietStray ==
  ASSUME NEW x \in Devices, NEW j \in Keys, Quiet(x, j)
  PROVE  \/ row'[x][j] = row[x][j] /\ (j \in stray[x] => j \in stray'[x])
         \/ /\ Exists(row[x][j]) /\ j \in stray'[x]
            /\ row'[x][j] = [row[x][j] EXCEPT !.st = "pending"]
         \/ row'[x][j] = row[x][j] /\ ~Exists(row[x][j])
<1>1. QuietEntry(x, j)
  BY DEF Quiet
<1>2. CASE MigratedNow(x, j)
  BY <1>2 DEF MigratedNow
<1>3. CASE /\ row'[x][j] = row[x][j]
           /\ \/ RestsOn(x, j) \/ DiesWith(x, j) \/ ClaimedNow(x, j) \/ LostRow(x, j)
              \/ RelistedNow(x, j) \/ RetriedNow(x, j) \/ DiscardedNow(x, j)
  BY <1>3 DEF RestsOn, EntryRests, DiesWith, ClaimedNow, LostRow, RelistedNow,
              RetriedNow, DiscardedNow, DiscardRests
<1> QED BY <1>1, <1>2, <1>3 DEF QuietEntry

LEMMA KnownNext ==
  ASSUME TypeOK, CloudInv, AllKnown,
         NEW x \in Devices, NEW j \in Keys, Steps(x, j)
  PROVE  Known(x, j)'
<1> DEFINE r == row[x][j]     r2 == row'[x][j]
           op == push[x].ops[j]
           S == seen[x][j]      S2 == seen'[x][j]
<1>1. r \in Row /\ op \in Op
  BY Typed
<1>2. r.st = "synced" => r.c.n \in S \/ j \in stray[x]
  BY DEF AllKnown, Known
<1>3. CASE Quiet(x, j)
  <2>1. S2 = S
    BY <1>3 DEF Quiet, SeenStays
  <2>2. CASE r2 = r /\ (j \in stray[x] => j \in stray'[x])
    BY <1>2, <2>1, <2>2 DEF Known
  <2>3. CASE r2 = [r EXCEPT !.st = "pending"]
    BY <1>1, <2>3 DEF Known, Row
  <2>4. CASE r2 = r /\ ~Exists(r)
    BY <2>4 DEF Known, Exists
  <2> QED BY <1>3, <2>2, <2>3, <2>4, QuietStray
<1>4. CASE Queried(x, j) \/ Built(x, j) \/ Replying(x, j)
  BY <1>2, <1>4 DEF Queried, Built, Replying, SeenStays, EntryRests, DiscardRests, Known
<1>6. CASE Edited(x, j)
  <2>1. r2.st = "pending"
    BY <1>6, EditedRow
  <2> QED BY <2>1 DEF Known
<1>7. CASE Reconciled(x, j)
  <2>1. Replied(op) /\ r2 = RowAfter(r, op) /\ S2 = S \cup Shown(op)
    BY <1>7 DEF Reconciled
  <2>2. Sent(op) /\ op.st # "gone"
    BY <2>1 DEF CloudInv, Behind, Replied, Sent
  <2>3. /\ op.st = "applied" => op.c.n \in S2
        /\ op.st = "conflict" => op.rc.n \in S2
        /\ S \subseteq S2
    BY <2>1 DEF Shown
  <2>4. \/ r2.st = r.st /\ r2.c = r.c
        \/ op.st = "conflict" /\ r2.c = op.rc
        \/ op.st = "applied" /\ r2.c = r.c /\ Exists(r)
        \/ r2.st = "failed"
    BY <1>1, <2>1, <2>2, RowAfterCases
  <2>5. j \in stray'[x] <=> ~Acked(x, j)' /\ (j \in stray[x] \/ Overtaken(r, op))
    BY <1>7 DEF Reconciled, ReconciledEntry
  <2>6. r2.c.n \notin S2 => ~Acked(x, j)'
    BY DEF Acked
  <2>7. op.st = "applied" /\ Exists(r) /\ r.c # op.c => Overtaken(r, op)
    BY DEF Overtaken
  <2> QED BY <1>2, <2>3, <2>4, <2>5, <2>6, <2>7 DEF Known
<1>8. CASE Paged(x, j)
  <2> DEFINE p == pull[x].page[j]
  <2>1. S2 = S \cup {p.c.n} /\ PagedEntry(x, j)
    BY <1>8 DEF Paged
  <2>2. (r2.c = r.c /\ r2.st = r.st) \/ r2.c = p.c
    BY <1>8, PagedRow
  <2>3. j \in stray'[x] <=> ~Acked(x, j)' /\ j \in stray[x]
    BY <2>1 DEF PagedEntry
  <2>4. r2.c.n \notin S2 => ~Acked(x, j)'
    BY DEF Acked
  <2> QED BY <1>2, <2>1, <2>2, <2>3, <2>4 DEF Known
<1> QED BY <1>3, <1>4, <1>6, <1>7, <1>8 DEF Steps

LEMMA KnownAlways == Spec => []AllKnown
<1>1. TypeOK /\ CloudInv /\ AllKnown /\ [Next]_vars => AllKnown'
  <2> SUFFICES ASSUME TypeOK, CloudInv, AllKnown, [Next]_vars,
                      NEW x \in Devices, NEW j \in Keys
               PROVE  Known(x, j)'
    BY DEF AllKnown
  <2> QED BY StepCases, KnownNext
<1> QED BY <1>1, KnownInit, TypeCorrect, CloudInvHolds, PTL DEF Spec

\* types.ts:39, "synced: cloud acked the current local state", and the only
\* exception the code leaves, through lost replies, crashes, relaunches that
\* drop the queue and background tasks beside the scheduler: an edit that was
\* made while an older op of its row was in flight and took the op's answer for
\* its own.
THEOREM SyncedRowsAreAcked == Spec => []SyncedIsAckedOrStray
<1>1. AllKnown => SyncedIsAckedOrStray
  BY DEF AllKnown, Known, SyncedIsAckedOrStray
<1> QED BY <1>1, KnownAlways, PTL

(***************************************************************************)
(* No edit gives way to one that should have lost to it.                   *)
(***************************************************************************)
\* A content the cloud has not shown or acknowledged has a queue entry, or is
\* astray.
Owned(x, j) == row[x][j].c.n \in seen[x][j] \/ Carried(x, j)

AllOwned == \A x \in Devices, j \in Keys : Owned(x, j)

LEMMA OwnedInit == Init => AllOwned
BY DEF Init, AllOwned, Owned, NoRow, NoContent

\* A row that reconcile leaves with a content the device still owes is carried.
LEMMA ReconciledCarried ==
  ASSUME TypeOK, NEW x \in Devices, NEW j \in Keys,
         Reconciled(x, j), push[x].ops[j].st # "gone", Carried(x, j),
         Exists(row[x][j]), row'[x][j].c.n \notin seen'[x][j]
  PROVE  Carried(x, j)'
<1> DEFINE r == row[x][j]  r2 == row'[x][j]
           q == queue[x][j]  q2 == queue'[x][j]
           op == push[x].ops[j]
<1>1. r \in Row /\ op \in Op /\ q \in Entry
  BY Typed DEF TypeOK
<1>2. /\ Replied(op) /\ r2 = RowAfter(r, op) /\ ReconciledEntry(x, j)
      /\ seen'[x][j] = seen[x][j] \cup Shown(op)
  BY DEF Reconciled
<1>7. ~Acked(x, j)'
  BY DEF Acked
<1>3. j \in stray[x] \/ Overtaken(r, op) => j \in stray'[x]
  BY <1>2, <1>7 DEF ReconciledEntry
<1>4. CASE q2 = q
  BY <1>3, <1>4 DEF Carried
<1>5. CASE q2 = EntryAfter(r, q, op) /\ q.id = op.qid
  <2>1. \/ op.st = "conflict" /\ KeepsLocal(r, op.rc)
        \/ op.st \in {"transient", "fatal"}
        \/ Overtaken(r, op)
    <3>1. /\ op.st = "applied" => op.c.n \in seen'[x][j]
          /\ op.st = "conflict" => op.rc.n \in seen'[x][j]
      BY <1>2 DEF Shown
    <3>2. \/ op.st = "conflict" /\ (KeepsLocal(r, op.rc) \/ r2.c = op.rc)
          \/ op.st = "applied" /\ r2.c = r.c
          \/ op.st \in {"transient", "fatal"}
      BY <1>1, <1>2, RowAfterCases DEF KeepsLocal
    <3> QED BY <3>1, <3>2 DEF Overtaken
  <2>2. CASE Overtaken(r, op)
    BY <1>3, <2>2 DEF Carried
  <2>3. CASE ~Overtaken(r, op)
    <3>1. q2 = Reopened(q) \/ q2 = Failed(q, TRUE) \/ q2 = Failed(q, FALSE)
      BY <1>5, <2>1, <2>3, EntryAfterCases
    <3>2. q2.st \in {"queued", "dead"}
      BY <1>1, <3>1, EntryEffects
    <3> QED BY <3>2 DEF Carried
  <2> QED BY <2>2, <2>3
<1>6. q2 = q \/ (q2 = EntryAfter(r, q, op) /\ q.id = op.qid)
  BY <1>2 DEF ReconciledEntry, EntryAfter
<1> QED BY <1>4, <1>5, <1>6

\* The entry of a row that a quiet step leaves.
LEMMA QuietCarried ==
  ASSUME NEW x \in Devices, NEW j \in Keys, Quiet(x, j), Carried(x, j)
  PROVE  Carried(x, j)' \/ ~Exists(row[x][j])
<1>1. QuietEntry(x, j)
  BY DEF Quiet
<1>2. CASE RestsOn(x, j) \/ DiesWith(x, j)
  BY <1>2 DEF RestsOn, DiesWith, EntryRests, DiscardRests, Carried
<1>3. CASE LostRow(x, j) \/ MigratedNow(x, j)
  BY <1>3 DEF LostRow, MigratedNow, Carried
<1>4. CASE ClaimedNow(x, j) \/ RelistedNow(x, j) \/ RetriedNow(x, j) \/ DiscardedNow(x, j)
  BY <1>4 DEF ClaimedNow, RelistedNow, RetriedNow, DiscardedNow, DiscardRests, Carried
<1> QED BY <1>1, <1>2, <1>3, <1>4 DEF QuietEntry

LEMMA OwnedNext ==
  ASSUME TypeOK, CloudInv, AllOwned,
         NEW x \in Devices, NEW j \in Keys, Steps(x, j)
  PROVE  Owned(x, j)'
<1> DEFINE r == row[x][j]     r2 == row'[x][j]
           op == push[x].ops[j]
           S == seen[x][j]      S2 == seen'[x][j]
<1>1. r \in Row /\ op \in Op
  BY Typed
<1>2. r.c.n \in S \/ Carried(x, j)
  BY DEF AllOwned, Owned
<1>3. /\ ~Exists(r) => r.c.n \in S
      /\ Sent(op) => op.st # "gone"
  BY DEF CloudInv, Named, Behind, Informed, NoContent
<1>4. CASE Quiet(x, j)
  <2>1. r2.c = r.c /\ S2 = S
    BY <1>4, RowStaysFields DEF Quiet, SeenStays
  <2> QED BY <1>2, <1>3, <1>4, <2>1, QuietCarried DEF Owned
<1>5. CASE Queried(x, j) \/ Built(x, j) \/ Replying(x, j)
  BY <1>2, <1>5 DEF Queried, Built, Replying, SeenStays, EntryRests, DiscardRests,
                    Owned, Carried
<1>6. CASE Edited(x, j)
  BY <1>6 DEF Edited, EditedEntry, Owned, Carried
<1>7. CASE Reconciled(x, j)
  <2>1. Replied(op) /\ r2 = RowAfter(r, op) /\ S2 = S \cup Shown(op)
    BY <1>7 DEF Reconciled
  <2>2. Sent(op) /\ op.st # "gone"
    BY <1>3, <2>1 DEF Replied, Sent
  <2>3. S \subseteq S2 /\ (op.st = "conflict" => op.rc.n \in S2)
    BY <2>1 DEF Shown
  <2>4. r2.c = r.c \/ (op.st = "conflict" /\ r2.c = op.rc)
    BY <1>1, <2>1, <2>2, RowAfterCases
  <2>5. CASE r2.c.n \in S2
    BY <2>5 DEF Owned
  <2>6. CASE r2.c.n \notin S2
    <3>1. Exists(r) /\ Carried(x, j)
      BY <1>2, <1>3, <2>3, <2>4, <2>6
    <3> QED BY <1>7, <2>2, <2>6, <3>1, ReconciledCarried DEF Owned
  <2> QED BY <2>5, <2>6
<1>8. CASE Paged(x, j)
  <2> DEFINE p == pull[x].page[j]
  <2>1. S2 = S \cup {p.c.n} /\ PagedEntry(x, j)
    BY <1>8 DEF Paged
  <2>2. queue'[x][j].st = "queued" \/ r2 = Synced(p.c, p.ver)
    BY <2>1 DEF PagedEntry
  <2> QED BY <2>1, <2>2 DEF Owned, Carried, Synced
<1> QED BY <1>4, <1>5, <1>6, <1>7, <1>8 DEF Steps

LEMMA OwnedAlways == Spec => []AllOwned
<1>1. TypeOK /\ CloudInv /\ AllOwned /\ [Next]_vars => AllOwned'
  <2> SUFFICES ASSUME TypeOK, CloudInv, AllOwned, [Next]_vars,
                      NEW x \in Devices, NEW j \in Keys
               PROVE  Owned(x, j)'
    BY DEF AllOwned
  <2> QED BY StepCases, OwnedNext
<1> QED BY <1>1, OwnedInit, TypeCorrect, CloudInvHolds, PTL DEF Spec

LEMMA LosesToBetter ==
  ASSUME TypeOK, CloudInv, AllOwned, NEW x \in Devices, NEW j \in Keys, Steps(x, j),
         edits' = edits
  PROVE  \/ row'[x][j].c = row[x][j].c
         \/ row[x][j].c.n \in seen[x][j] \/ j \in stray[x]
         \/ ~LocalWins(row[x][j].c, row'[x][j].c)
<1> DEFINE r == row[x][j]     r2 == row'[x][j]
           op == push[x].ops[j]
<1>1. r \in Row /\ op \in Op
  BY Typed
<1>2. r.c.n \in seen[x][j] \/ Carried(x, j)
  BY DEF AllOwned, Owned
<1>3. /\ ~Exists(r) => r.c.n \in seen[x][j]
      /\ Sent(op) => op.st # "gone"
  BY DEF CloudInv, Named, Behind, Informed, NoContent
<1>4. CASE Quiet(x, j)
  BY <1>4, RowStaysFields DEF Quiet
<1>5. CASE Queried(x, j) \/ Built(x, j) \/ Replying(x, j)
  BY <1>5 DEF Queried, Built, Replying
<1>6. CASE Edited(x, j)
  <2>1. edits' = edits + 1 /\ edits \in Nat
    BY <1>6 DEF Edited, TypeOK
  <2> QED BY <2>1
<1>7. CASE Reconciled(x, j)
  <2>1. Replied(op) /\ r2 = RowAfter(r, op)
    BY <1>7 DEF Reconciled
  <2>2. op.st # "gone"
    BY <1>3, <2>1 DEF Replied, Sent
  <2>3. r2.c = r.c \/ (r2.c = op.rc /\ ~KeepsLocal(r, op.rc))
    BY <1>1, <2>1, <2>2, RowAfterCases
  <2> QED BY <1>3, <2>3 DEF KeepsLocal
<1>8. CASE Paged(x, j)
  <2> DEFINE p == pull[x].page[j]
  <2>1. \/ r2 = [r EXCEPT !.ver = p.ver]
        \/ /\ queue[x][j].st = "none" \/ ~KeepsLocal(r, p.c)
           /\ r2 = Synced(p.c, p.ver)
    BY <1>8 DEF Paged, PagedEntry
  <2>2. CASE r2 = [r EXCEPT !.ver = p.ver]
    BY <1>1, <2>2 DEF Row
  <2>3. CASE r2.c = p.c /\ ~KeepsLocal(r, p.c)
    BY <1>3, <2>3 DEF KeepsLocal
  <2>4. CASE queue[x][j].st = "none"
    BY <1>2, <2>4 DEF Carried
  <2> QED BY <2>1, <2>2, <2>3, <2>4 DEF Synced
<1> QED BY <1>4, <1>5, <1>6, <1>7, <1>8 DEF Steps

\* Whatever the answers, pages, lost replies, crashes, relaunches and
\* background tasks, a device gives up an edit the cloud has not acknowledged,
\* and that did not go astray, only for a content that the resolver does not
\* rank below it.
THEOREM EditsLoseToBetter == Spec => NoEditLostToALoser
<1>1. TypeOK /\ CloudInv /\ AllOwned /\ [Next]_vars =>
        [edits' = edits => \A d \in Devices, k \in Keys :
           \/ row'[d][k].c = row[d][k].c
           \/ row[d][k].c.n \in seen[d][k] \/ k \in stray[d] \/ Gone(k)
           \/ ~LocalWins(row[d][k].c, row'[d][k].c)]_vars
  BY StepCases, LosesToBetter
<1> QED BY <1>1, OwnedAlways, TypeCorrect, CloudInvHolds, PTL DEF Spec, NoEditLostToALoser

(***************************************************************************)
(* The cursor.                                                             *)
(***************************************************************************)
\* Stamps already given out, and stamps already asked for.
Stamped(x) ==
  /\ \A k \in Keys : doc[k].ts <= tick
  /\ asked <= tick
  /\ \A e \in 1..NumEntities : cursor[x][e] <= asked

\* Documents of one collection share a stamp only if they are known to.
Tied == \A j, k \in Keys :
  /\ j # k /\ EntityOf[j] = EntityOf[k]
  /\ doc[j].ver > 0 /\ doc[k].ver > 0 /\ doc[j].ts = doc[k].ts
  => j \in tied

\* A fetched page holds every document after the cursor and up to any record
\* of the page, as the document is now, but for documents that share a stamp.
PageCovers(x) == \A j \in OnPage(x) :
  /\ EntityOf[j] = pull[x].e /\ pull[x].page[j].ts <= asked
  /\ \A k \in Keys :
       EntityOf[k] = pull[x].e /\ doc[k].ver > 0
         /\ doc[k].ts > cursor[x][pull[x].e] /\ doc[k].ts <= pull[x].page[j].ts
       => pull[x].page[k] = doc[k] \/ k \in tied

\* What the cursor has passed was shown.
ShownPassed(x) == \A k \in Keys :
  doc[k].ver > 0 /\ doc[k].ts <= cursor[x][EntityOf[k]] =>
    doc[k].c.n \in seen[x][k] \/ k \in tied

CursorInv == Tied /\ \A x \in Devices : Stamped(x) /\ PageCovers(x) /\ ShownPassed(x)

LEMMA CursorInit == Init => CursorInv
<1> SUFFICES ASSUME Init
             PROVE  CursorInv
  OBVIOUS
<1>1. /\ \A k \in Keys : doc[k].ts = 0 /\ doc[k].ver = 0
      /\ \A x \in Devices, e \in 1..NumEntities : cursor[x][e] = 0
      /\ tick = 0 /\ asked = 0
  BY DEF Init, NoDoc
<1>2. \A x \in Devices : OnPage(x) = {}
  BY DEF Init, OnPage, IdlePull, NoPage, NoDoc
<1> QED BY <1>1, <1>2 DEF CursorInv, Tied, Stamped, PageCovers, ShownPassed

\* The clock of the cloud moves with a commit and with nothing else, and only
\* a query asks for it.
LEMMA TickSteps ==
  ASSUME [Next]_vars
  PROVE  \/ doc' = doc /\ tick' = tick /\ tied' = tied /\ asked' \in {asked, tick}
         \/ asked' = asked /\ \E d \in Devices, k \in Keys : Commit(d, k)
<1>1. CASE UNCHANGED vars
  BY <1>1 DEF vars
<1>2. ASSUME NEW d \in Devices,
             \/ EditStep(d) \/ BackgroundMigrates(d) \/ BackgroundPush(d)
             \/ BackgroundPull(d) \/ Launch(d) \/ SignInAgain(d) \/ ScreenStep(d)
             \/ \E k \in Keys : BackoffElapsed(d, k)
             \/ \E w \in BOOLEAN : CycleStart(d, w)
             \/ PushStep(d) \/ PullStart(d) \/ PullFail(d) \/ CrashStep(d)
             \/ \E k \in Keys : PullApply(d, k)
             \/ \E k \in Keys : CloudReject(d, k)
             \/ \E k \in Keys, st \in {"transient", "fatal"} : CloudFault(d, k, st)
      PROVE  doc' = doc /\ tick' = tick /\ tied' = tied /\ asked' = asked
  BY <1>2, Zenon DEF EditStep, Create, Update, SoftDelete, Write, BackgroundMigrates,
     BackgroundPush, BackgroundPull, Launch, SignInAgain, ScreenStep, Retry,
     Discard, BackoffElapsed, CycleStart, PushStep, PushBuild, PushReply,
     Reconcile, PullStart, PullApply, PullFail, CrashStep,
     Crash, CrashInReconcile, CrashInPull, CloudReject, CloudFault, cloud
<1>3. ASSUME NEW d \in Devices, NEW k \in Keys, CloudApply(d, k) \/ CloudLoseReply(d, k)
      PROVE  Commit(d, k) /\ asked' = asked
  BY <1>3 DEF CloudApply, CloudLoseReply
<1>4. ASSUME NEW d \in Devices, PullQuery(d)
      PROVE  doc' = doc /\ tick' = tick /\ tied' = tied /\ asked' = tick
  BY <1>4 DEF PullQuery
<1> QED BY <1>1, <1>2, <1>3, <1>4 DEF Next, PullStep, CloudStep, FaultStep

\* What a commit does to the documents, their stamps and their ties.
LEMMA CommitStamps ==
  ASSUME TypeOK, NEW d \in Devices, NEW k \in Keys, Commit(d, k)
  PROVE  /\ tick <= tick' /\ tick' > asked /\ tick' > doc[k].ts
         /\ doc'[k].ts = tick' /\ \A j \in Keys \ {k} : doc'[j] = doc[j]
         /\ tied \ {k} \subseteq tied'
         /\ Twins(k, tick') # {} => k \in tied' /\ Twins(k, tick') \subseteq tied'
<1> DEFINE op == push[d].ops[k]
<1>1. PICK ts \in {tick, tick + 1} :
        /\ ts > asked /\ ts > doc[k].ts /\ tick' = ts
        /\ doc' = [doc EXCEPT ![k] = [c |-> op.c, ver |-> op.base + 1, ts |-> ts]]
        /\ tied' = IF Twins(k, ts) = {} THEN tied \ {k}
                   ELSE tied \cup {k} \cup Twins(k, ts)
  BY Zenon DEF Commit, Stored
<1>2. doc'[k].ts = ts /\ \A j \in Keys \ {k} : doc'[j] = doc[j]
  BY <1>1 DEF TypeOK
<1>3. tick <= ts
  BY <1>1 DEF TypeOK
<1>4. /\ tied \ {k} \subseteq tied'
      /\ Twins(k, ts) # {} => k \in tied' /\ Twins(k, ts) \subseteq tied'
  BY <1>1
<1> QED BY <1>1, <1>2, <1>3, <1>4

\* A document that moves gets a stamp later than all that were asked for, and
\* one that does not stays tied.
LEMMA DocTimes ==
  ASSUME TypeOK, CursorInv, [Next]_vars, NEW j \in Keys, NEW x \in Devices
  PROVE  /\ tick <= tick' /\ asked <= asked' /\ asked' <= tick'
         /\ \/ doc'[j] = doc[j] /\ (j \in tied => j \in tied')
            \/ doc'[j].ts > asked'
         /\ doc'[j].ts <= tick' /\ doc[j].ts <= tick
<1>1. /\ tick \in Nat /\ asked \in Nat /\ doc[j].ts <= tick /\ doc[j].ts \in Nat
      /\ asked <= tick
  BY DEF CursorInv, Stamped, TypeOK, Doc
<1>2. CASE doc' = doc /\ tick' = tick /\ tied' = tied /\ asked' \in {asked, tick}
  BY <1>1, <1>2
<1>3. ASSUME NEW d \in Devices, NEW k \in Keys, Commit(d, k), asked' = asked
      PROVE  /\ tick <= tick' /\ asked <= asked' /\ asked' <= tick'
             /\ \/ doc'[j] = doc[j] /\ (j \in tied => j \in tied')
                \/ doc'[j].ts > asked'
             /\ doc'[j].ts <= tick' /\ doc[j].ts <= tick
  <2>1. tick' \in Nat
    BY TypeNext DEF TypeOK
  <2>2. /\ tick <= tick' /\ tick' > asked /\ doc'[k].ts = tick'
        /\ \A i \in Keys \ {k} : doc'[i] = doc[i]
        /\ tied \ {k} \subseteq tied'
    BY <1>3, CommitStamps
  <2> QED BY <1>1, <1>3, <2>1, <2>2
<1> QED BY <1>1, <1>2, <1>3, TickSteps

LEMMA TiedNext ==
  ASSUME TypeOK, CursorInv, [Next]_vars
  PROVE  Tied'
<1> SUFFICES ASSUME NEW j \in Keys, NEW k \in Keys, j # k, EntityOf[j] = EntityOf[k],
                    doc'[j].ver > 0, doc'[k].ver > 0, doc'[j].ts = doc'[k].ts
             PROVE  j \in tied'
  BY DEF Tied
<1>1. CASE doc' = doc /\ tied' = tied
  BY <1>1 DEF CursorInv, Tied
<1>2. ASSUME NEW d \in Devices, NEW i \in Keys, Commit(d, i)
      PROVE  j \in tied'
  <2>1. /\ doc'[i].ts = tick' /\ \A l \in Keys \ {i} : doc'[l] = doc[l]
        /\ tied \ {i} \subseteq tied'
        /\ Twins(i, tick') # {} => i \in tied' /\ Twins(i, tick') \subseteq tied'
    BY <1>2, CommitStamps
  <2>2. CASE i = j
    <3>1. k \in Twins(i, tick')
      BY <2>1, <2>2 DEF Twins
    <3> QED BY <2>1, <2>2, <3>1
  <2>3. CASE i = k
    <3>1. j \in Twins(i, tick')
      BY <2>1, <2>3 DEF Twins
    <3> QED BY <2>1, <3>1
  <2>4. CASE i # j /\ i # k
    <3>1. j \in tied
      BY <2>1, <2>4 DEF CursorInv, Tied
    <3> QED BY <2>1, <2>4, <3>1
  <2> QED BY <2>2, <2>3, <2>4
<1> QED BY <1>1, <1>2, TickSteps

\* The cursor moves when a page has been applied.
LEMMA CursorMoves ==
  ASSUME TypeOK, [Next]_vars, NEW x \in Devices
  PROVE  cursor'[x] = cursor[x] \/ \E last \in Keys : PullApply(x, last)
<1>1. CASE UNCHANGED vars
  BY <1>1 DEF vars
<1>2. ASSUME NEW d \in Devices,
             \/ EditStep(d) \/ BackgroundMigrates(d) \/ BackgroundPush(d)
             \/ BackgroundPull(d) \/ Launch(d) \/ SignInAgain(d) \/ ScreenStep(d)
             \/ \E k \in Keys : BackoffElapsed(d, k)
             \/ \E w \in BOOLEAN : CycleStart(d, w)
             \/ PushStep(d) \/ PullStart(d) \/ PullQuery(d) \/ CrashStep(d)
      PROVE  cursor' = cursor
  BY <1>2, Zenon DEF EditStep, Create, Update, SoftDelete, Write, BackgroundMigrates,
     BackgroundPush, BackgroundPull, Launch, SignInAgain, ScreenStep, Retry,
     Discard, BackoffElapsed, CycleStart, PushStep, PushBuild, PushReply,
     Reconcile, PullStart, PullQuery, CrashStep,
     Crash, CrashInReconcile, CrashInPull, local
<1>3. ASSUME NEW d \in Devices, CloudStep(d) \/ FaultStep(d)
      PROVE  cursor' = cursor
  BY <1>3, CloudEffect
<1>4. ASSUME NEW d \in Devices, NEW k \in Keys, PullApply(d, k), d # x
      PROVE  cursor'[x] = cursor[x]
  BY <1>4 DEF PullApply, TypeOK
<1> QED BY <1>1, <1>2, <1>3, <1>4 DEF Next, PullStep

\* After a page the cursor is at its last record, and no page is held.
LEMMA PageEnds ==
  ASSUME TypeOK, NEW x \in Devices, NEW last \in Keys, PullApply(x, last)
  PROVE  /\ last \in OnPage(x) /\ ApplyPage(x)
         /\ doc' = doc /\ tick' = tick /\ tied' = tied
         /\ cursor'[x] = [cursor[x] EXCEPT ![pull[x].e] = pull[x].page[last].ts]
         /\ \A j \in Keys : pull'[x].page[j] = NoDoc
<1>1. pull[x] \in Pull
  BY DEF TypeOK
<1>2. CASE NextEntity(x)
  BY <1>2, NextEntityEffect DEF PullApply, cloud, TypeOK
<1>3. CASE pull' = [pull EXCEPT ![x] = [@ EXCEPT !.st = "query", !.page = NoPage]]
  <2>1. pull'[x] = [pull[x] EXCEPT !.st = "query", !.page = NoPage]
    BY <1>3 DEF TypeOK
  <2>2. pull'[x].page = NoPage
    BY <1>1, <2>1 DEF Pull
  <2> QED BY <2>2 DEF PullApply, cloud, TypeOK, NoPage
<1> QED BY <1>2, <1>3 DEF PullApply

\* The first page is closed towards the cursor: with a record it holds every
\* fresh record before it.
LEMMA FirstPageClosed ==
  ASSUME TypeOK, NEW x \in Devices, NEW j \in FirstPage(x), NEW k \in Fresh(x),
         Before(k, j)
  PROVE  k \in FirstPage(x)
<1> DEFINE A == {i \in Fresh(x) : Before(i, k)}
           B == {i \in Fresh(x) : Before(i, j)}
<1>1. \A i \in Keys : doc[i].ts \in Nat /\ i \in Nat
  BY KeysAssumption DEF TypeOK, Doc
<1>2. Fresh(x) \subseteq Keys /\ j \in Fresh(x) /\ Cardinality(B) < PageSize
  BY DEF Fresh, FirstPage
<1>3. A \subseteq B
  <2> SUFFICES ASSUME NEW i \in Fresh(x), Before(i, k)
               PROVE  Before(i, j)
    OBVIOUS
  <2>1. i \in Keys /\ j \in Keys /\ k \in Keys
    BY <1>2
  <2> QED BY <1>1, <2>1 DEF Before
<1>4. IsFiniteSet(Keys) /\ B \subseteq Keys
  BY <1>2, KeysAssumption
<1>5. IsFiniteSet(B)
  BY <1>4, FS_Subset
<1>6. IsFiniteSet(A) /\ Cardinality(A) <= Cardinality(B)
  BY <1>3, <1>5, FS_Subset
<1>7. Cardinality(A) \in Nat /\ Cardinality(B) \in Nat /\ PageSize \in Nat
  BY <1>5, <1>6, FS_CardinalityType, SizesAssumption
<1>8. Cardinality(A) < PageSize
  BY <1>2, <1>6, <1>7
<1> QED BY <1>8 DEF FirstPage

LEMMA StampedNext ==
  ASSUME TypeOK, CursorInv, [Next]_vars, NEW x \in Devices
  PROVE  Stamped(x)'
<1>1. /\ tick \in Nat /\ tick' \in Nat /\ asked \in Nat /\ asked' \in Nat
      /\ cursor[x] \in [1..NumEntities -> Nat]
      /\ asked <= tick
      /\ \A e \in 1..NumEntities : cursor[x][e] <= asked
  <2>1. TypeOK'
    BY TypeNext
  <2> QED BY <2>1 DEF TypeOK, CursorInv, Stamped
<1>2. CASE Keys = {}
  <2>1. tick' = tick /\ cursor'[x] = cursor[x] /\ asked' \in {asked, tick}
    BY <1>2, TickSteps, CursorMoves
  <2>3. asked <= asked' /\ asked' <= tick'
    BY <1>1, <2>1
  <2>4. \A e \in 1..NumEntities : cursor[x][e] \in Nat
    BY <1>1
  <2>2. \A e \in 1..NumEntities : cursor[x][e] <= asked'
    BY <1>1, <2>3, <2>4
  <2> QED BY <1>2, <2>1, <2>2, <2>3 DEF Stamped
<1>3. CASE Keys # {}
  <2>1. /\ \A j \in Keys : doc'[j].ts <= tick'
        /\ asked <= asked' /\ asked' <= tick'
    BY <1>3, DocTimes
  <2>2. CASE cursor'[x] = cursor[x]
    <3>1. \A e \in 1..NumEntities : cursor'[x][e] \in Nat /\ cursor'[x][e] <= asked
      BY <1>1, <2>2
    <3> QED BY <1>1, <2>1, <3>1 DEF Stamped
  <2>3. ASSUME NEW last \in Keys, PullApply(x, last)
        PROVE  Stamped(x)'
    <3>1. cursor'[x] = [cursor[x] EXCEPT ![pull[x].e] = pull[x].page[last].ts]
      BY <2>3, PageEnds
    <3>2. pull[x].page[last].ts <= asked /\ pull[x].page[last].ts \in Nat
      <4>1. last \in OnPage(x)
        BY <2>3, PageEnds
      <4>2. pull[x].page[last] \in Doc
        BY Typed
      <4> QED BY <4>1, <4>2 DEF CursorInv, PageCovers, Doc
    <3>3. \A e \in 1..NumEntities : cursor'[x][e] <= asked
      BY <1>1, <3>1, <3>2
    <3>4. \A e \in 1..NumEntities : cursor'[x][e] \in Nat
      BY <1>1, <3>1, <3>2
    <3> QED BY <1>1, <2>1, <3>3, <3>4 DEF Stamped
  <2> QED BY <2>2, <2>3, CursorMoves
<1> QED BY <1>2, <1>3

LEMMA PageCoversNext ==
  ASSUME TypeOK, PagesHeld, CursorInv, [Next]_vars, NEW x \in Devices
  PROVE  PageCovers(x)'
<1> SUFFICES ASSUME NEW j \in Keys, pull'[x].page[j].ver > 0
             PROVE  /\ EntityOf[j] = pull'[x].e /\ pull'[x].page[j].ts <= asked'
                    /\ \A k \in Keys :
                         EntityOf[k] = pull'[x].e /\ doc'[k].ver > 0
                           /\ doc'[k].ts > cursor'[x][pull'[x].e]
                           /\ doc'[k].ts <= pull'[x].page[j].ts
                         => pull'[x].page[k] = doc'[k] \/ k \in tied'
  BY DEF PageCovers, OnPage
<1>1. ~(NoDoc.ver > 0)
  BY DEF NoDoc
<1>2. pull[x].st # "page" => ~(pull[x].page[j].ver > 0)
  BY DEF PagesHeld, PageHeld
<1>3. CASE pull'[x] = pull[x]
  <2>1. /\ EntityOf[j] = pull[x].e /\ pull[x].page[j].ts <= asked
        /\ \A k \in Keys :
             EntityOf[k] = pull[x].e /\ doc[k].ver > 0
               /\ doc[k].ts > cursor[x][pull[x].e] /\ doc[k].ts <= pull[x].page[j].ts
             => pull[x].page[k] = doc[k] \/ k \in tied
    BY <1>3 DEF CursorInv, PageCovers, OnPage
  <2>2. cursor'[x] = cursor[x]
    BY <1>1, <1>3, CursorMoves, PageEnds
  <2>3. pull[x].page[j].ts \in Nat /\ asked \in Nat /\ asked' \in Nat
    <3>1. pull[x].page[j] \in Doc /\ TypeOK'
      BY Typed, TypeNext
    <3> QED BY <3>1 DEF TypeOK, Doc
  <2>4. asked <= asked'
    BY DocTimes
  <2>7. \A k \in Keys : doc'[k].ts \in Nat
    BY TypeNext DEF TypeOK, Doc
  <2>5. ASSUME NEW k \in Keys, ~(doc'[k] = doc[k] /\ (k \in tied => k \in tied'))
        PROVE  ~(doc'[k].ts <= pull[x].page[j].ts)
    <3>1. doc'[k].ts > asked'
      BY <2>5, DocTimes
    <3> QED BY <2>1, <2>3, <2>4, <2>7, <3>1
  <2>6. pull[x].page[j].ts <= asked'
    BY <2>1, <2>3, <2>4
  <2> QED BY <1>3, <2>1, <2>2, <2>5, <2>6
<1>4. CASE Fetched(x)
  <2>1. /\ doc' = doc /\ asked' = tick /\ cursor' = cursor /\ pull'[x].e = pull[x].e
        /\ tied' = tied
        /\ \A k \in Keys : pull'[x].page[k] = IF k \in FirstPage(x) THEN doc[k] ELSE NoDoc
    BY <1>4 DEF Fetched, PullQuery, local
  <2>2. j \in FirstPage(x) /\ pull'[x].page[j] = doc[j]
    BY <1>1, <2>1
  <2>3. EntityOf[j] = pull[x].e /\ doc[j].ver > 0
    BY <2>2 DEF FirstPage, Fresh
  <2>4. doc[j].ts <= tick
    BY DEF CursorInv, Stamped
  <2>5. ASSUME NEW k \in Keys, EntityOf[k] = pull[x].e, doc[k].ver > 0,
               doc[k].ts > cursor[x][pull[x].e], doc[k].ts <= doc[j].ts
        PROVE  pull'[x].page[k] = doc[k] \/ k \in tied
    <3>1. k \in Fresh(x)
      BY <2>5 DEF Fresh
    <3>2. CASE k = j
      BY <2>2, <3>2
    <3>3. CASE k # j /\ doc[k].ts = doc[j].ts
      BY <2>3, <2>5, <3>3 DEF CursorInv, Tied
    <3>4. CASE doc[k].ts # doc[j].ts
      <4>1. doc[k].ts \in Nat /\ doc[j].ts \in Nat
        BY DEF TypeOK, Doc
      <4>2. Before(k, j)
        BY <2>5, <3>4, <4>1 DEF Before
      <4> QED BY <2>1, <2>2, <3>1, <4>2, FirstPageClosed
    <3> QED BY <3>2, <3>3, <3>4
  <2> QED BY <2>1, <2>2, <2>3, <2>4, <2>5
<1> QED BY <1>1, <1>2, <1>3, <1>4, PullMoves

LEMMA ShownPassedNext ==
  ASSUME TypeOK, CloudInv, CursorInv, [Next]_vars, NEW x \in Devices
  PROVE  ShownPassed(x)'
<1> SUFFICES ASSUME NEW k \in Keys, doc'[k].ver > 0,
                    doc'[k].ts <= cursor'[x][EntityOf[k]]
             PROVE  doc'[k].c.n \in seen'[x][k] \/ k \in tied'
  BY DEF ShownPassed
<1>1. /\ cursor[x] \in [1..NumEntities -> Nat] /\ EntityOf[k] \in 1..NumEntities
      /\ asked \in Nat /\ pull[x].e \in 1..NumEntities
  BY EntityAssumption DEF TypeOK, Pull
<1>2. doc[k].ver > 0 /\ doc[k].ts <= cursor[x][EntityOf[k]]
        => doc[k].c.n \in seen[x][k] \/ k \in tied
  BY DEF CursorInv, ShownPassed
<1>3. seen[x][k] \subseteq seen'[x][k]
  BY StepCases, SeenGrows
<1>4. CASE cursor'[x] = cursor[x]
  <2>1. cursor[x][EntityOf[k]] \in Nat /\ cursor[x][EntityOf[k]] <= asked
    BY <1>1 DEF CursorInv, Stamped
  <2>3. asked' \in Nat /\ doc'[k].ts \in Nat
    BY TypeNext DEF TypeOK, Doc
  <2>2. doc'[k] = doc[k] /\ (k \in tied => k \in tied')
    BY <1>1, <1>4, <2>1, <2>3, DocTimes
  <2> QED BY <1>2, <1>3, <1>4, <2>2
<1>5. ASSUME NEW last \in Keys, PullApply(x, last)
      PROVE  doc'[k].c.n \in seen'[x][k] \/ k \in tied'
  <2>1. /\ last \in OnPage(x) /\ ApplyPage(x) /\ doc' = doc /\ tied' = tied
        /\ cursor'[x] = [cursor[x] EXCEPT ![pull[x].e] = pull[x].page[last].ts]
    BY <1>5, PageEnds
  <2>2. CASE doc[k].ts <= cursor[x][EntityOf[k]]
    BY <1>2, <1>3, <2>1, <2>2
  <2>3. CASE ~(doc[k].ts <= cursor[x][EntityOf[k]])
    <3>1. EntityOf[k] = pull[x].e /\ doc[k].ts <= pull[x].page[last].ts
      BY <1>1, <2>1, <2>3
    <3>2. doc[k].ts > cursor[x][pull[x].e]
      <4>1. doc[k].ts \in Nat
        <5>1. doc[k] \in Doc
          BY Typed
        <5> QED BY <5>1 DEF Doc
      <4>2. cursor[x][EntityOf[k]] \in Nat
        BY <1>1
      <4>3. doc[k].ts > cursor[x][EntityOf[k]]
        BY <2>3, <4>1, <4>2
      <4> QED BY <3>1, <4>3
    <3>3. CASE k \in tied
      BY <2>1, <3>3
    <3>4. CASE k \notin tied
      <4>1. pull[x].page[k] = doc[k]
        BY <2>1, <3>1, <3>2, <3>4 DEF CursorInv, PageCovers
      <4>2. k \in OnPage(x)
        BY <2>1, <4>1 DEF OnPage
      <4>3. seen'[x][k] = seen[x][k] \cup {pull[x].page[k].c.n}
        BY <2>1, <4>2, PageRecord
      <4> QED BY <2>1, <4>1, <4>3
    <3> QED BY <3>3, <3>4
  <2> QED BY <2>2, <2>3
<1> QED BY <1>4, <1>5, CursorMoves

LEMMA CursorInvHolds == Spec => []CursorInv
<1>1. TypeOK /\ CloudInv /\ PagesHeld /\ CursorInv /\ [Next]_vars => CursorInv'
  <2> SUFFICES ASSUME TypeOK, CloudInv, PagesHeld, CursorInv, [Next]_vars
               PROVE  CursorInv'
    OBVIOUS
  <2>1. Tied'
    BY TiedNext
  <2>2. \A x \in Devices : Stamped(x)' /\ PageCovers(x)' /\ ShownPassed(x)'
    BY StampedNext, PageCoversNext, ShownPassedNext
  <2> QED BY <2>1, <2>2 DEF CursorInv
<1> QED BY <1>1, CursorInit, TypeCorrect, CloudInvHolds, PagesHeldAlways, PTL DEF Spec

\* The cursor never passes a change the device was not shown, whatever the
\* page size and whatever pages, failed entities, crashes and background
\* pulls came between (sync-service.ts, pullEntity), unless the document shares
\* its serverTimestamp with another one of its collection, where the strict ">"
\* of firestore-sync-api.ts:98 does skip one.
THEOREM NothingSkipped == Spec => []NoChangeSkipped
<1>1. CursorInv => NoChangeSkipped
  BY DEF CursorInv, ShownPassed, NoChangeSkipped
<1> QED BY <1>1, CursorInvHolds, PTL

(***************************************************************************)
(* The contents in use, and the greatest of all edits.                     *)
(***************************************************************************)
\* A content some device made, and one that may be none at all.
Made(c) ==
  c \in Content /\ c.n > 0 /\ c.by \in Devices /\ c.at = c.n + Skew[c.by]

Real(c) == c = NoContent \/ Made(c)

Later(u, v) == (u.at > v.at) \/ (u.at = v.at /\ u.by > v.by)

\* No content beats what stands above it.
Above(u, v) == v.n = 0 \/ u = v \/ (u.n > 0 /\ LocalWins(u, v))

LEMMA MadeFields ==
  ASSUME NEW c, Made(c)
  PROVE  /\ c.n \in Nat /\ c.n > 0 /\ c.by \in Nat /\ c.at \in Int
         /\ c.del \in BOOLEAN /\ c.at = c.n + Skew[c.by] /\ c \in Content
BY DEF Made, Content

LEMMA RealFields ==
  ASSUME NEW c, Real(c)
  PROVE  /\ c.n \in Nat /\ c.del \in BOOLEAN
         /\ c.n = 0 => c = NoContent
         /\ c.n > 0 => Made(c)
<1>1. NoContent.n = 0 /\ NoContent.del = FALSE
  BY DEF NoContent
<1>2. CASE c = NoContent
  <2>1. c.n = 0
    BY <1>1, <1>2
  <2>2. c.del \in BOOLEAN
    BY <1>1, <1>2, Zenon
  <2> QED BY <1>2, <2>1, <2>2
<1>3. CASE Made(c)
  <2>1. c.n \in Nat /\ c.n > 0 /\ c.del \in BOOLEAN
    BY <1>3, MadeFields
  <2> QED BY <1>3, <2>1
<1> QED BY <1>2, <1>3 DEF Real

LEMMA WinsByCases ==
  ASSUME NEW u, NEW v
  PROVE  LocalWins(u, v) <=>
           (u.del /\ ~v.del) \/ ((u.del = v.del) /\ Later(u, v))
BY Zenon DEF LocalWins, Later

LEMMA LaterOrder ==
  ASSUME NEW u, NEW v, NEW w, Made(u), Made(v), Made(w)
  PROVE  /\ Later(u, v) => ~Later(v, u)
         /\ Later(u, v) /\ Later(v, w) => Later(u, w)
         /\ ~Later(u, v) /\ ~Later(v, u) =>
              u.at = v.at /\ u.by = v.by /\ u.n = v.n
<1>1. /\ u.at \in Int /\ v.at \in Int /\ w.at \in Int
      /\ u.by \in Int /\ v.by \in Int /\ w.by \in Int
      /\ u.n \in Int /\ v.n \in Int
  BY MadeFields
<1>2. u.at = u.n + Skew[u.by] /\ v.at = v.n + Skew[v.by]
  BY MadeFields
<1>3. Skew[u.by] \in Int /\ Skew[v.by] \in Int
  BY SkewAssumption DEF Made
<1> QED BY <1>1, <1>2, <1>3 DEF Later

LEMMA WinsTotal ==
  ASSUME NEW u, NEW v, Made(u), Made(v), ~LocalWins(u, v)
  PROVE  u = v \/ LocalWins(v, u)
<1> SUFFICES ASSUME ~LocalWins(v, u) PROVE u = v
  OBVIOUS
<1>1. u.del \in BOOLEAN /\ v.del \in BOOLEAN
  BY MadeFields
<1>2. u.del = v.del /\ ~Later(u, v) /\ ~Later(v, u)
  BY <1>1, WinsByCases, Zenon
<1>3. u.at = v.at /\ u.by = v.by /\ u.n = v.n
  BY <1>2, LaterOrder
<1>4. u \in Content /\ v \in Content
  BY MadeFields
<1> QED BY <1>2, <1>3, <1>4 DEF Content

LEMMA WinsOneWay ==
  ASSUME NEW u, NEW v, Made(u), Made(v), LocalWins(u, v)
  PROVE  ~LocalWins(v, u)
<1>1. Later(u, v) => ~Later(v, u)
  BY LaterOrder
<1> QED BY <1>1, WinsByCases, Zenon

LEMMA WinsOnwards ==
  ASSUME NEW u, NEW v, NEW w, Made(u), Made(v), Made(w),
         LocalWins(u, v), LocalWins(v, w)
  PROVE  LocalWins(u, w)
<1>1. u.del \in BOOLEAN /\ v.del \in BOOLEAN /\ w.del \in BOOLEAN
  BY MadeFields
<1>2. Later(u, v) /\ Later(v, w) => Later(u, w)
  BY LaterOrder
<1>3. /\ (u.del /\ ~v.del) \/ ((u.del = v.del) /\ Later(u, v))
      /\ (v.del /\ ~w.del) \/ ((v.del = w.del) /\ Later(v, w))
  BY WinsByCases, Zenon
<1>4. (u.del /\ ~w.del) \/ ((u.del = w.del) /\ Later(u, w))
  <2>1. CASE u.del /\ ~w.del
    BY <2>1, Zenon
  <2>2. CASE ~(u.del /\ ~w.del)
    <3>1. u.del = v.del /\ v.del = w.del
      BY <1>1, <1>3, <2>2, Zenon
    <3> QED BY <1>2, <1>3, <3>1, Zenon
  <2> QED BY <2>1, <2>2, Zenon
<1> QED BY <1>4, WinsByCases, Zenon

\* Above is an order on contents, and a total one.
LEMMA AboveOrder ==
  ASSUME NEW u, NEW v, NEW w, Real(u), Real(v), Real(w)
  PROVE  /\ Above(u, u)
         /\ Above(u, v) /\ Above(v, u) => u = v
         /\ Above(u, v) /\ Above(v, w) => Above(u, w)
         /\ u.n > 0 /\ v.n > 0 /\ ~LocalWins(u, v) => Above(v, u)
<1>1. /\ u.n \in Nat /\ v.n \in Nat /\ w.n \in Nat
      /\ u.n = 0 => u = NoContent
      /\ v.n = 0 => v = NoContent
      /\ u.n > 0 => Made(u)
      /\ v.n > 0 => Made(v)
      /\ w.n > 0 => Made(w)
  BY RealFields
<1>2. Above(u, u)
  BY DEF Above
<1>3. Above(u, v) /\ Above(v, u) => u = v
  BY <1>1, WinsOneWay DEF Above
<1>4. Above(u, v) /\ Above(v, w) => Above(u, w)
  BY <1>1, WinsOnwards DEF Above
<1>5. u.n > 0 /\ v.n > 0 /\ ~LocalWins(u, v) => Above(v, u)
  BY <1>1, WinsTotal DEF Above
<1> QED BY <1>2, <1>3, <1>4, <1>5

\* Device d gives record k a new content, and nothing else happens.
Rewrites(d, k, del) ==
  /\ Exists(row[d][k]) => (row[d][k].c.del => del)
  /\ row'[d][k].c = NewContent(d, del) /\ row'[d][k].ver = row[d][k].ver
  /\ queue'[d][k].st = "queued"
  /\ Exists(row[d][k]) \/ winner[k].n = 0 \/ k \in SharedIds
  /\ \A x \in Devices, j \in Keys : x # d \/ j # k =>
       row'[x][j] = row[x][j] /\ queue'[x][j] = queue[x][j]
  /\ push' = push /\ pull' = pull /\ doc' = doc /\ log' = log
  /\ dropped' = dropped /\ edits' = edits + 1
  /\ winner'[k] = Best(NewContent(d, del), winner[k])
  /\ \A j \in Keys \ {k} : winner'[j] = winner[j]

\* No edit is made, and no stray edit is forgotten.
Rests == edits' = edits /\ winner' = winner /\ dropped \subseteq dropped'

LEMMA EditCases ==
  ASSUME TypeOK, [Next]_vars
  PROVE  Rests \/ \E d \in Devices, k \in Keys, del \in BOOLEAN : Rewrites(d, k, del)
<1>1. CASE UNCHANGED vars
  BY <1>1 DEF vars, Rests
<1>2. ASSUME NEW d \in Devices, NEW k \in Keys,
             Create(d, k) \/ Update(d, k) \/ SoftDelete(d, k)
      PROVE  \E del \in BOOLEAN : Rewrites(d, k, del)
  <2>1. EditStep(d)
    BY <1>2 DEF EditStep
  <2>2. row[d][k] \in Row /\ row[d][k].c.del \in BOOLEAN /\ queue[d][k] \in Entry
    <3>1. row[d][k] \in Row /\ queue[d][k] \in Entry
      BY DEF TypeOK
    <3>2. row[d][k].c \in Content
      BY <3>1 DEF Row
    <3> QED BY <3>1, <3>2 DEF Content
  <2>3. PICK del \in BOOLEAN :
          /\ Exists(row[d][k]) => (row[d][k].c.del => del)
          /\ Write(d, k, NewContent(d, del))
    BY <1>2, <2>2 DEF Create, Update, SoftDelete
  <2>4. Exists(row[d][k]) \/ winner[k].n = 0 \/ k \in SharedIds
    BY <1>2 DEF Create, Update, SoftDelete
  <2>5. /\ row' = [row EXCEPT ![d][k] = [@ EXCEPT !.c = NewContent(d, del), !.st = "pending"]]
        /\ queue' = [queue EXCEPT ![d][k] = Enqueued(@, NewContent(d, del).n)]
        /\ edits' = edits + 1 /\ push' = push /\ pull' = pull
        /\ doc' = doc /\ log' = log /\ dropped' = dropped
        /\ winner' = [winner EXCEPT ![k] = Best(NewContent(d, del), @)]
    BY <2>3 DEF Write, cloud
  <2>6. /\ row'[d][k] = [row[d][k] EXCEPT !.c = NewContent(d, del), !.st = "pending"]
        /\ queue'[d][k] = Enqueued(queue[d][k], NewContent(d, del).n)
        /\ \A x \in Devices, j \in Keys : x # d \/ j # k =>
             row'[x][j] = row[x][j] /\ queue'[x][j] = queue[x][j]
    BY <2>5 DEF TypeOK
  <2>7. row'[d][k].c = NewContent(d, del) /\ row'[d][k].ver = row[d][k].ver
    BY <2>2, <2>6 DEF Row
  <2>8. queue'[d][k].st = "queued"
    <3>1. NewContent(d, del).n \in Nat
      BY ContentTypes DEF Content
    <3> QED BY <2>2, <2>6, <3>1, EntryFields
  <2>9. /\ winner'[k] = Best(NewContent(d, del), winner[k])
        /\ \A j \in Keys \ {k} : winner'[j] = winner[j]
    BY <2>5 DEF TypeOK
  <2> QED BY <2>3, <2>4, <2>5, <2>6, <2>7, <2>8, <2>9 DEF Rewrites
<1>3. ASSUME NEW d \in Devices,
             \/ BackgroundMigrates(d) \/ BackgroundPush(d) \/ BackgroundPull(d)
             \/ Launch(d) \/ SignInAgain(d) \/ ScreenStep(d)
             \/ \E k \in Keys : BackoffElapsed(d, k)
             \/ \E w \in BOOLEAN : CycleStart(d, w)
             \/ PushStep(d) \/ PullStep(d) \/ CrashStep(d)
      PROVE  Rests
  BY <1>3 DEF BackgroundMigrates, BackgroundPush, BackgroundPull, Launch,
     SignInAgain, Migrated, ScreenStep, Retry, Discard, BackoffElapsed, CycleStart, PushStep,
     PushBuild, PushReply, Reconcile, ReconcileRow, PullStep, PullStart,
     PullQuery, PullApply, CrashStep, Crash, CrashInReconcile, CrashInPull, Die,
     bounds, history, Rests
<1>4. ASSUME NEW d \in Devices, CloudStep(d) \/ FaultStep(d)
      PROVE  Rests
  BY <1>4 DEF CloudStep, FaultStep, CloudApply, CloudReject, CloudLoseReply,
     CloudFault, PullFail, bounds, history, Rests
<1> QED BY <1>1, <1>2, <1>3, <1>4 DEF Next, EditStep

\* A content that some device made by edit n, and that w stands above; two
\* edits never have the same identity.
Under(c, w, n) ==
  Real(c) /\ c.n <= n /\ Above(w, c) /\ (c.n = w.n => c = w)

Winning(j) == Under(winner[j], winner[j], edits)

LEMMA NewIsMade ==
  ASSUME TypeOK, NEW d \in Devices, NEW del \in BOOLEAN
  PROVE  /\ Made(NewContent(d, del)) /\ NewContent(d, del).n = edits + 1
         /\ NewContent(d, del).del = del
<1>1. edits \in Nat
  BY DEF TypeOK
<1>2. NewContent(d, del) \in Content
  BY ContentTypes
<1>3. /\ NewContent(d, del).n = edits + 1 /\ NewContent(d, del).by = d
      /\ NewContent(d, del).at = edits + 1 + Skew[d]
      /\ NewContent(d, del).del = del
  BY DEF NewContent
<1> QED BY <1>1, <1>2, <1>3 DEF Made

\* Whatever the clocks, the winner is the greater of the winner and the edit.
LEMMA BestIsAbove ==
  ASSUME NEW c, NEW w, Made(c), Real(w), c.n # w.n
  PROVE  /\ Best(c, w) \in {c, w} /\ Above(Best(c, w), c) /\ Above(Best(c, w), w)
         /\ Best(c, w) = w => w.n > 0 /\ ~LocalWins(c, w)
<1>1. /\ w.n \in Nat /\ (w.n = 0 => w = NoContent) /\ (w.n > 0 => Made(w))
      /\ c.n \in Nat /\ c.n > 0 /\ Real(c)
  BY RealFields, MadeFields DEF Real
<1>2. CASE w.n = 0
  BY <1>1, <1>2 DEF Best, Above
<1>3. CASE w.n > 0 /\ LocalWins(c, w)
  BY <1>1, <1>3 DEF Best, Resolve, Above
<1>4. CASE w.n > 0 /\ ~LocalWins(c, w)
  BY <1>1, <1>4, WinsTotal DEF Best, Resolve, Above
<1> QED BY <1>1, <1>2, <1>3, <1>4

\* The new edit and the winner it leaves.
LEMMA RewritesWin ==
  ASSUME TypeOK, NEW d \in Devices, NEW k \in Keys, NEW del \in BOOLEAN,
         Rewrites(d, k, del), Winning(k)
  PROVE  LET c == NewContent(d, del)  w == winner[k]  w2 == winner'[k] IN
         /\ Made(c) /\ c.n = edits + 1 /\ c.del = del
         /\ w2 \in {c, w} /\ Above(w2, c) /\ Above(w2, w)
         /\ w2 = w => w.n > 0 /\ ~LocalWins(c, w)
<1>1. edits \in Nat /\ Real(winner[k]) /\ winner[k].n <= edits
  BY DEF TypeOK, Winning, Under
<1>2. /\ Made(NewContent(d, del)) /\ NewContent(d, del).n = edits + 1
      /\ NewContent(d, del).del = del
  BY NewIsMade
<1>3. NewContent(d, del).n # winner[k].n
  <2>1. winner[k].n \in Nat
    BY <1>1, RealFields
  <2> QED BY <1>1, <1>2, <2>1
<1>4. winner'[k] = Best(NewContent(d, del), winner[k])
  BY DEF Rewrites
<1> QED BY <1>1, <1>2, <1>3, <1>4, BestIsAbove

\* What was under the winner stays under it.
LEMMA UnderGrows ==
  ASSUME TypeOK, [Next]_vars, NEW j \in Keys, Winning(j),
         NEW c, Under(c, winner[j], edits)
  PROVE  Under(c, winner'[j], edits')
<1>1. edits \in Nat /\ Real(c) /\ Real(winner[j]) /\ c.n \in Nat
  BY RealFields DEF TypeOK, Winning, Under
<1>2. CASE Rests
  BY <1>2 DEF Rests, Under
<1>3. ASSUME NEW d \in Devices, NEW k \in Keys, NEW del \in BOOLEAN, Rewrites(d, k, del)
      PROVE  Under(c, winner'[j], edits')
  <2>1. c.n <= edits'
    BY <1>1, <1>3 DEF Rewrites, Under
  <2>2. CASE j # k
    BY <1>3, <2>1, <2>2 DEF Rewrites, Under
  <2>3. CASE j = k
    <3>1. /\ winner'[k] \in {NewContent(d, del), winner[k]}
          /\ Made(NewContent(d, del)) /\ Above(winner'[k], winner[k])
      BY <1>3, <2>3, RewritesWin
    <3>2. Real(winner'[k])
      BY <1>1, <2>3, <3>1 DEF Real
    <3>3. Above(winner[k], c)
      BY <2>3 DEF Under
    <3>4. Above(winner'[k], c)
      BY <1>1, <2>3, <3>1, <3>2, <3>3, AboveOrder
    <3>5. NewContent(d, del).n = edits + 1 /\ c.n <= edits
      BY NewIsMade DEF Under
    <3>6. NewContent(d, del).n # c.n
      BY <1>1, <3>5
    <3>7. c.n = winner[k].n => c = winner[k]
      BY <2>3 DEF Under
    <3>8. c.n = winner'[k].n => c = winner'[k]
      BY <3>1, <3>6, <3>7
    <3> QED BY <1>1, <2>1, <2>3, <3>4, <3>8 DEF Under
  <2> QED BY <2>2, <2>3
<1> QED BY <1>2, <1>3, EditCases

LEMMA WinningNext ==
  ASSUME TypeOK, [Next]_vars, NEW j \in Keys, Winning(j)
  PROVE  Winning(j)'
<1>1. edits \in Nat /\ Real(winner[j]) /\ winner[j].n \in Nat /\ winner[j].n <= edits
  BY RealFields DEF TypeOK, Winning, Under
<1>2. CASE Rests
  BY <1>2 DEF Rests, Under, Winning
<1>3. ASSUME NEW d \in Devices, NEW k \in Keys, NEW del \in BOOLEAN, Rewrites(d, k, del)
      PROVE  Winning(j)'
  <2>1. edits' = edits + 1
    BY <1>3 DEF Rewrites
  <2>2. CASE j # k
    BY <1>1, <1>3, <2>1, <2>2 DEF Rewrites, Under, Winning
  <2>3. CASE j = k
    <3>1. /\ winner'[k] \in {NewContent(d, del), winner[k]}
          /\ Made(NewContent(d, del)) /\ NewContent(d, del).n = edits + 1
      BY <1>3, <2>3, RewritesWin
    <3>2. Real(winner'[k]) /\ winner'[k].n <= edits + 1
      BY <1>1, <2>3, <3>1 DEF Real
    <3> QED BY <2>1, <2>3, <3>2, AboveOrder DEF Under, Winning
  <2> QED BY <2>2, <2>3
<1> QED BY <1>2, <1>3, EditCases

\* Every content in use for a record is under the record's winner.
Ranked(x, j) ==
  LET op == push[x].ops[j]
      p == pull[x].page[j]
      w == winner[j]
  IN  /\ Under(row[x][j].c, w, edits) /\ Under(doc[j].c, w, edits)
      /\ Sent(op) => Under(op.c, w, edits)
      /\ op.st = "conflict" => Under(op.rc, w, edits)
      /\ p.ver > 0 => Under(p.c, w, edits)

AllRanked == \A j \in Keys : Winning(j) /\ \A x \in Devices : Ranked(x, j)

LEMMA RankedInit == Init => AllRanked
<1> SUFFICES ASSUME Init, NEW j \in Keys, NEW x \in Devices
             PROVE  Ranked(x, j) /\ Winning(j)
  BY DEF AllRanked, Init, Winning, Under, Real, Above, NoContent
<1>1. /\ row[x][j].c = NoContent /\ doc[j].c = NoContent /\ winner[j] = NoContent
      /\ push[x].ops[j].st = "none" /\ ~(pull[x].page[j].ver > 0) /\ edits = 0
  BY DEF Init, NoRow, NoDoc, IdlePush, NoOp, IdlePull, NoPage
<1>2. Under(NoContent, NoContent, 0)
  BY DEF Under, Real, Above, NoContent
<1> QED BY <1>1, <1>2 DEF Ranked, Winning, Sent

LEMMA RankedNext ==
  ASSUME TypeOK, AllRanked, [Next]_vars,
         NEW x \in Devices, NEW j \in Keys
  PROVE  Ranked(x, j)'
<1> DEFINE r == row[x][j]     r2 == row'[x][j]
           op == push[x].ops[j] op2 == push'[x].ops[j]
           p == pull[x].page[j] p2 == pull'[x].page[j]
           D == doc[j]        D2 == doc'[j]
           U(c) == Under(c, winner'[j], edits')
<1>0. r \in Row /\ op \in Op
  BY Typed
<1>1. U(r.c) /\ U(D.c)
  BY UnderGrows DEF AllRanked, Ranked
<1>2. Sent(op) => U(op.c)
  BY UnderGrows DEF AllRanked, Ranked
<1>3. op.st = "conflict" => U(op.rc)
  BY UnderGrows DEF AllRanked, Ranked
<1>4. p.ver > 0 => U(p.c)
  BY UnderGrows DEF AllRanked, Ranked
<1>5. U(D2.c)
  <2>1. CASE D2 = D
    BY <1>1, <2>1
  <2>2. ASSUME NEW d \in Devices, Taken(push[d].ops[j], j)
        PROVE  U(D2.c)
    <3>1. D2.c = push[d].ops[j].c /\ Sent(push[d].ops[j])
      BY <2>2, Typed, DocMoves DEF Sent
    <3> QED BY <3>1, UnderGrows DEF AllRanked, Ranked
  <2> QED BY <2>1, <2>2, DocSteps
<1>6. Steps(x, j)
  BY StepCases
<1>7. U(r2.c)
  <2>1. CASE Edited(x, j)
    <3>1. edits' # edits
      BY <2>1 DEF Edited, TypeOK
    <3>2. PICK d \in Devices, k \in Keys, del \in BOOLEAN : Rewrites(d, k, del)
      BY <3>1, EditCases DEF Rests
    <3>3. CASE x # d \/ j # k
      BY <1>1, <3>2, <3>3 DEF Rewrites
    <3>4. CASE x = d /\ j = k
      <4>1. r2.c = NewContent(d, del) /\ edits' = edits + 1
        BY <3>2, <3>4 DEF Rewrites
      <4>2. /\ Made(NewContent(d, del)) /\ NewContent(d, del).n = edits + 1
            /\ Above(winner'[j], NewContent(d, del))
        BY <3>2, <3>4, RewritesWin DEF AllRanked
      <4>3. NewContent(d, del).n <= edits + 1
        BY <4>2 DEF TypeOK
      <4>4. winner'[j] = NewContent(d, del) \/ winner'[j] = winner[j]
        BY <3>2, <3>4, RewritesWin DEF AllRanked
      <4>5. winner[j].n \in Nat /\ winner[j].n <= edits /\ edits \in Nat
        BY RealFields DEF AllRanked, Winning, Under, TypeOK
      <4>6. NewContent(d, del).n = winner'[j].n => NewContent(d, del) = winner'[j]
        BY <4>2, <4>4, <4>5
      <4> QED BY <4>1, <4>2, <4>3, <4>6 DEF Under, Real
    <3> QED BY <3>3, <3>4
  <2>2. CASE Reconciled(x, j)
    <3>1. Replied(op) /\ r2 = RowAfter(r, op)
      BY <2>2 DEF Reconciled
    <3>2. CASE op.st = "gone"
      <4>1. r2.c = NoContent
        BY <3>1, <3>2 DEF RowAfter, NoRow
      <4>2. edits' \in Nat
        BY EditCases DEF Rests, Rewrites, TypeOK
      <4>3. Real(winner'[j])
        BY WinningNext DEF AllRanked, Winning, Under
      <4>4. NoContent.n = 0 /\ (winner'[j].n = 0 => winner'[j] = NoContent)
        BY <4>3, RealFields DEF NoContent
      <4>5. U(NoContent)
        BY <4>2, <4>4 DEF Under, Real, Above
      <4> QED BY <4>1, <4>5
    <3>3. CASE op.st # "gone"
      <4>1. r2.c = r.c \/ (op.st = "conflict" /\ r2.c = op.rc)
        BY <1>0, <3>1, <3>3, RowAfterCases
      <4> QED BY <1>1, <1>3, <4>1
    <3> QED BY <3>2, <3>3
  <2>3. CASE Paged(x, j)
    BY <1>1, <1>4, <2>3, PagedRow DEF Paged
  <2>4. CASE Quiet(x, j)
    <3>1. r2.c = r.c
      BY <2>4, RowStaysFields DEF Quiet
    <3> QED BY <1>1, <3>1
  <2>5. CASE Queried(x, j) \/ Built(x, j) \/ Replying(x, j)
    BY <1>1, <2>5 DEF Queried, Built, Replying
  <2> QED BY <1>6, <2>1, <2>2, <2>3, <2>4, <2>5 DEF Steps
<1>8. Sent(op2) => U(op2.c)
  <2>1. CASE Built(x, j)
    BY <1>1, <2>1 DEF Built
  <2>2. CASE Replying(x, j)
    BY <1>2, <2>2 DEF Replying, Sent
  <2>3. CASE ~Built(x, j) /\ ~Replying(x, j)
    <3>1. op2 = op \/ ~Sent(op2)
      BY <1>6, <2>3, Zenon DEF Steps, Quiet, Queried, Edited, Reconciled, Paged, OpStays, Sent
    <3> QED BY <1>2, <3>1
  <2> QED BY <2>1, <2>2, <2>3
<1>9. op2.st = "conflict" => U(op2.rc)
  <2>1. CASE Replying(x, j)
    BY <1>1, <2>1 DEF Replying, Replies
  <2>2. CASE ~Replying(x, j)
    <3>1. op2 = op \/ op2.st \in {"none", "claimed", "sent"}
      BY <1>6, <2>2, Zenon DEF Steps, Quiet, Queried, Built, Edited, Reconciled, Paged, OpStays, Sent
    <3> QED BY <1>3, <3>1
  <2> QED BY <2>1, <2>2
<1>10. p2.ver > 0 => U(p2.c)
  <2>1. p2 = p \/ p2 = D \/ p2 = NoDoc
    BY <1>6, Zenon DEF Steps, Quiet, Queried, Built, Replying, Edited, Reconciled, Paged, PageStays
  <2>2. ~(NoDoc.ver > 0)
    BY DEF NoDoc
  <2> QED BY <1>1, <1>4, <2>1, <2>2
<1> QED BY <1>5, <1>7, <1>8, <1>9, <1>10 DEF Ranked

LEMMA RankedAlways == Spec => []AllRanked
<1>1. TypeOK /\ AllRanked /\ [Next]_vars => AllRanked'
  BY RankedNext, WinningNext DEF AllRanked
<1> QED BY <1>1, RankedInit, TypeCorrect, PTL DEF Spec

\* What a device was shown is or was in the cloud, and no content comes from
\* an edit that is yet to be made.
Counted(x, j) ==
  seen[x][j] \subseteq log[j] /\ \A n \in log[j] : n \in Nat /\ n <= edits

AllCounted == \A x \in Devices, j \in Keys : Counted(x, j)

LEMMA CountedInit == Init => AllCounted
BY DEF Init, AllCounted, Counted

LEMMA CountedNext ==
  ASSUME TypeOK, CloudInv, AllRanked, AllCounted, [Next]_vars,
         NEW x \in Devices, NEW j \in Keys
  PROVE  Counted(x, j)'
<1>1. /\ seen[x][j] \subseteq log[j] /\ \A n \in log[j] : n \in Nat /\ n <= edits
      /\ edits \in Nat
  BY DEF AllCounted, Counted, TypeOK
<1>2. edits' \in {edits, edits + 1}
  BY EditCases DEF Rests, Rewrites
<1>3. \/ log'[j] = log[j]
      \/ \E d \in Devices : Taken(push[d].ops[j], j)
  BY StepCases, Zenon DEF Steps, Quiet, Queried, Built, Replying, Replies, Edited,
     Reconciled, Paged, DocStays
<1>4. ASSUME NEW d \in Devices, Taken(push[d].ops[j], j)
      PROVE  /\ log'[j] = log[j] \cup {push[d].ops[j].c.n}
             /\ push[d].ops[j].c.n \in Nat /\ push[d].ops[j].c.n <= edits
  <2>1. log'[j] = log[j] \cup {push[d].ops[j].c.n} /\ Sent(push[d].ops[j])
    BY <1>4 DEF Taken, Sent
  <2>2. Under(push[d].ops[j].c, winner[j], edits)
    BY <2>1 DEF AllRanked, Ranked
  <2> QED BY <2>1, <2>2, RealFields DEF Under
<1>5. log[j] \subseteq log'[j] /\ \A n \in log'[j] : n \in Nat /\ n <= edits
  BY <1>1, <1>3, <1>4
<1>6. seen'[x][j] \subseteq seen[x][j] \cup log[j]
  <2>1. /\ pull[x].page[j].ver > 0 => pull[x].page[j].c.n \in log[j]
        /\ push[x].ops[j].st = "applied" => push[x].ops[j].c.n \in log[j]
        /\ push[x].ops[j].st = "conflict" => push[x].ops[j].rc.n \in log[j]
    BY DEF CloudInv, Logged
  <2>2. \/ seen'[x][j] = seen[x][j]
        \/ seen'[x][j] = seen[x][j] \cup Shown(push[x].ops[j])
        \/ /\ pull[x].page[j].ver > 0
           /\ seen'[x][j] = seen[x][j] \cup {pull[x].page[j].c.n}
    BY StepCases, Zenon DEF Steps, Quiet, Queried, Built, Replying, Edited,
       Reconciled, Paged, SeenStays
  <2>3. Shown(push[x].ops[j]) \subseteq log[j]
    BY <2>1 DEF Shown
  <2> QED BY <2>1, <2>2, <2>3
<1> QED BY <1>1, <1>2, <1>5, <1>6 DEF Counted

LEMMA CountedAlways == Spec => []AllCounted
<1>1. TypeOK /\ CloudInv /\ AllRanked /\ AllCounted /\ [Next]_vars => AllCounted'
  BY CountedNext DEF AllCounted
<1> QED BY <1>1, CountedInit, RankedAlways, TypeCorrect, CloudInvHolds, PTL DEF Spec

(***************************************************************************)
(* A settled device holds what the cloud holds.                            *)
(***************************************************************************)
\* What the screen lists and what is dead is an edit the cloud has not
\* acknowledged, and so is what went astray; an op in flight carries the row as
\* it is or as it was before an edit the cloud has not seen.  Without this a tap
\* on a stale list could discard a row that the cloud has acknowledged.
Honest(x, j) ==
  LET r == row[x][j]  q == queue[x][j]  op == push[x].ops[j] IN
  /\ q.st = "dead" => r.st # "synced"
  /\ up[x] /\ q.listed => r.st # "synced"
  /\ op.st # "none" => q.st # "dead"
  /\ op.st # "none" /\ q.id # op.qid => ~q.listed
  /\ op.st # "none" /\ q.st = "none" => r.st # "synced"
  /\ q.st = "none" => ~q.listed
  /\ q.st # "none" => Exists(r)
  /\ Sent(op) => Exists(r)
  /\ Sent(op) => r.c = op.c \/ (r.c.n # op.c.n /\ r.c.n \notin seen[x][j])
  /\ j \in stray[x] => ~Acked(x, j)

AllHonest == \A x \in Devices, j \in Keys : Honest(x, j)

LEMMA HonestInit == Init => AllHonest
BY DEF Init, AllHonest, Honest, NoRow, NoEntry, IdlePush, NoOp, Sent, Exists

\* An error answer counts against the entry of its op.
LEMMA EntryAfterTransient ==
  ASSUME NEW own, NEW q, NEW op, q.id = op.qid, op.st \in {"transient", "fatal"}
  PROVE  EntryAfter(own, q, op) = Failed(q, TRUE)
         \/ EntryAfter(own, q, op) = Failed(q, FALSE)
<1>1. EntryAfter(own, q, op) = Failed(q, op.st = "transient")
  BY DEF EntryAfter
<1>2. (op.st = "transient") = TRUE \/ (op.st = "transient") = FALSE
  OBVIOUS
<1> QED BY ONLY <1>1, <1>2

\* What reconcile leaves of the entry of its record.
LEMMA ReconciledEntryCases ==
  ASSUME TypeOK, NEW x \in Devices, NEW j \in Keys, Reconciled(x, j),
         push[x].ops[j].st # "gone", Exists(row[x][j])
  PROVE  LET q == queue[x][j]  q2 == queue'[x][j] IN
         /\ up'[x] => up[x]
         /\ \/ q2 = q /\ (~up'[x] \/ q.id # push[x].ops[j].qid)
            \/ /\ q2.st = "queued" /\ q2.listed = q.listed
               /\ row'[x][j].st = row[x][j].st
            \/ q2.st \in {"dead", "queued"} /\ row'[x][j].st = "failed"
            \/ q2 = NoEntry
<1> DEFINE r == row[x][j]  r2 == row'[x][j]
           q == queue[x][j]  q2 == queue'[x][j]
           op == push[x].ops[j]
<1>1. r \in Row /\ op \in Op /\ q \in Entry
  BY Typed DEF TypeOK
<1>2. Replied(op) /\ r2 = RowAfter(r, op) /\ ReconciledEntry(x, j)
  BY DEF Reconciled
<1>3. up'[x] => up[x]
  BY <1>2 DEF ReconciledEntry
<1>4. CASE ~up'[x] /\ q2 = q
  BY <1>3, <1>4
<1>5. CASE q2 = EntryAfter(r, q, op) /\ q.id # op.qid
  BY <1>3, <1>5 DEF EntryAfter
<1>6. CASE q2 = EntryAfter(r, q, op) /\ q.id = op.qid
  <2>1. CASE q2 = NoEntry
    BY <1>3, <2>1
  <2>2. CASE q2 = Reopened(q) /\ op.st \notin {"transient", "fatal"}
    <3>1. q2.st = "queued" /\ q2.listed = q.listed
      BY <1>1, <2>2, EntryFields
    <3>2. op.st = "conflict" /\ KeepsLocal(r, op.rc)
      BY <1>6, <2>2, <3>1 DEF EntryAfter, NoEntry
    <3>3. r2.st = r.st
      BY <1>1, <1>2, <3>2, RowAfterCases
    <3> QED BY <1>3, <3>1, <3>3
  <2>3. CASE op.st \in {"transient", "fatal"}
    <3>1. q2 = Failed(q, TRUE) \/ q2 = Failed(q, FALSE)
      BY <1>6, <2>3, EntryAfterTransient
    <3>2. q2.st \in {"dead", "queued"}
      BY <1>1, <3>1, EntryEffects
    <3>3. r2.st = "failed"
      BY <1>1, <1>2, <2>3, RowAfterCases
    <3> QED BY <1>3, <3>2, <3>3
  <2> QED BY <1>6, <2>1, <2>2, <2>3, EntryAfterCases
<1> QED BY <1>2, <1>4, <1>5, <1>6 DEF ReconciledEntry

LEMMA HonestQuiet ==
  ASSUME TypeOK, AllHonest, NEW x \in Devices, NEW j \in Keys, Quiet(x, j)
  PROVE  Honest(x, j)'
<1> DEFINE r == row[x][j]       r2 == row'[x][j]
           op == push[x].ops[j] op2 == push'[x].ops[j]
           q == queue[x][j]     q2 == queue'[x][j]
           S == seen[x][j]
<1>1. /\ q.st = "dead" => r.st # "synced"
      /\ up[x] /\ q.listed => r.st # "synced"
      /\ op.st # "none" => q.st # "dead"
      /\ op.st # "none" /\ q.id # op.qid => ~q.listed
      /\ op.st # "none" /\ q.st = "none" => r.st # "synced"
      /\ q.st = "none" => ~q.listed
      /\ q.st # "none" => Exists(r)
      /\ Sent(op) => Exists(r)
      /\ Sent(op) => r.c = op.c \/ (r.c.n # op.c.n /\ r.c.n \notin S)
      /\ j \in stray[x] => ~Acked(x, j)
  BY DEF AllHonest, Honest
<1>2. QuietEntry(x, j) /\ (op2 = op \/ ~Sent(op2)) /\ seen'[x][j] = S
  BY DEF Quiet, OpStays, SeenStays
<1>3. NoEntry.st = "none" /\ ~NoEntry.listed
  BY DEF NoEntry
<1>4. CASE MigratedNow(x, j)
  <2>1. /\ q2 = NoEntry /\ op2 = op /\ (j \in stray'[x] <=> Exists(r))
        /\ r2 = IF Exists(r) THEN [r EXCEPT !.st = "pending"] ELSE r
    BY <1>4 DEF MigratedNow
  <2>2. r \in Row
    BY Typed
  <2>3. /\ Exists(r) => r2.st = "pending"
        /\ ~Exists(r) => r2.st = "absent"
        /\ r2.c = r.c
    BY <2>1, <2>2 DEF Row, Exists
  <2>4. j \in stray'[x] => ~Acked(x, j)'
    BY <2>1, <2>3 DEF Acked
  <2>5. Exists(r2) <=> Exists(r)
    BY <2>3 DEF Exists
  <2>6. r2.st # "synced"
    BY <2>3
  <2> QED BY <1>1, <1>2, <1>3, <2>1, <2>3, <2>4, <2>5, <2>6 DEF Honest, Sent
<1>5. CASE r2 = r
  <2>1. Acked(x, j)' <=> Acked(x, j)
    BY <1>2, <1>5 DEF Acked
  <2>2. Sent(op2) => op2 = op /\ Sent(op)
    BY <1>2
  <2>3. CASE RestsOn(x, j)
    <3>1. /\ q2.st = q.st /\ q2.id = q.id /\ q2.listed = q.listed /\ up'[x] = up[x]
          /\ j \in stray'[x] <=> j \in stray[x]
          /\ op2 = op \/ op2.st = "none"
      BY <2>3 DEF RestsOn, EntryRests, DiscardRests
    <3> QED BY <1>1, <1>2, <1>5, <2>1, <2>2, <3>1 DEF Honest
  <2>4. CASE DiesWith(x, j)
    <3>1. /\ q2 = q /\ ~up'[x] /\ op2.st = "none"
          /\ j \in stray'[x] <=> j \in stray[x]
      BY <2>4 DEF DiesWith, DiscardRests
    <3> QED BY <1>1, <1>2, <1>5, <2>1, <2>2, <3>1 DEF Honest
  <2>5. CASE ClaimedNow(x, j)
    <3>1. /\ q.st = "queued" /\ q2.st = "processing" /\ q2.id = q.id
          /\ q2.listed = q.listed /\ up'[x] = up[x]
          /\ op2.st = "claimed" /\ op2.qid = q.id
          /\ j \in stray'[x] <=> j \in stray[x]
      BY <2>5 DEF ClaimedNow, DiscardRests
    <3> QED BY <1>1, <1>2, <1>5, <2>1, <3>1 DEF Honest, Sent
  <2>6. CASE LostRow(x, j)
    <3>1. /\ ~Exists(r) /\ op2.st = "none" /\ (q2 = q \/ q2 = NoEntry)
          /\ up'[x] = up[x]
          /\ j \in stray'[x] <=> j \in stray[x]
      BY <2>6 DEF LostRow, DiscardRests
    <3> QED BY <1>1, <1>2, <1>3, <1>5, <2>1, <2>2, <3>1 DEF Honest
  <2>7. CASE RelistedNow(x, j)
    <3>1. /\ q2.st = q.st \/ (q.st = "processing" /\ q2.st = "queued")
          /\ q2.id = q.id /\ (q2.listed <=> q.st = "dead") /\ op2 = op
          /\ j \in stray'[x] <=> j \in stray[x]
      BY <2>7 DEF RelistedNow, DiscardRests
    <3> QED BY <1>1, <1>2, <1>5, <2>1, <2>2, <3>1 DEF Honest
  <2>8. CASE RetriedNow(x, j)
    <3>1. /\ q.listed /\ q2.st = "queued" /\ q2.id = q.id /\ ~q2.listed /\ op2 = op
          /\ j \in stray'[x] <=> j \in stray[x]
      BY <2>8 DEF RetriedNow, DiscardRests
    <3> QED BY <1>1, <1>2, <1>5, <2>1, <2>2, <3>1 DEF Honest
  <2>9. CASE DiscardedNow(x, j)
    <3>1. up[x] /\ q.listed /\ q2 = NoEntry /\ op2 = op
      BY <2>9 DEF DiscardedNow
    <3>2. r.st # "synced" /\ Exists(r)
      BY <1>1, <3>1
    <3>3. ~Acked(x, j)
      BY <3>2 DEF Acked, Exists
    <3> QED BY <1>1, <1>2, <1>3, <1>5, <2>1, <2>2, <3>1, <3>2, <3>3 DEF Honest
  <2> QED BY <1>2, <1>4, <2>3, <2>4, <2>5, <2>6, <2>7, <2>8, <2>9 DEF QuietEntry
<1> QED BY <1>2, <1>4, <1>5 DEF QuietEntry

LEMMA HonestNext ==
  ASSUME TypeOK, CloudInv, OpsShape, PullAlone, PagesHeld, AllRanked, AllCounted,
         AllHonest, NEW x \in Devices, NEW j \in Keys, Steps(x, j)
  PROVE  Honest(x, j)'
<1> DEFINE r == row[x][j]       r2 == row'[x][j]
           op == push[x].ops[j] op2 == push'[x].ops[j]
           q == queue[x][j]     q2 == queue'[x][j]
           p == pull[x].page[j] S == seen[x][j]
<1>0. r \in Row /\ op \in Op
  BY Typed
<1>1. /\ q.st = "dead" => r.st # "synced"
      /\ up[x] /\ q.listed => r.st # "synced"
      /\ op.st # "none" => q.st # "dead"
      /\ op.st # "none" /\ q.id # op.qid => ~q.listed
      /\ op.st # "none" /\ q.st = "none" => r.st # "synced"
      /\ q.st = "none" => ~q.listed
      /\ q.st # "none" => Exists(r)
      /\ Sent(op) => Exists(r)
      /\ Sent(op) => r.c = op.c \/ (r.c.n # op.c.n /\ r.c.n \notin S)
      /\ j \in stray[x] => ~Acked(x, j)
  BY DEF AllHonest, Honest
<1>2. NoEntry.st = "none" /\ ~NoEntry.listed
  BY DEF NoEntry
<1>3. CASE Quiet(x, j)
  BY <1>3, HonestQuiet
<1>4. CASE Queried(x, j) \/ Built(x, j) \/ Replying(x, j)
  <2>1. /\ r2 = r /\ seen'[x][j] = S /\ EntryRests(x, j)
        /\ \/ op2 = op
           \/ /\ Exists(r) /\ op.st # "none" /\ op2.st # "none"
              /\ op2.qid = op.qid /\ op2.c = r.c
           \/ /\ Sent(op) /\ op.st # "none" /\ op2.st # "none"
              /\ op2.qid = op.qid /\ op2.c = op.c
    BY <1>4 DEF Queried, Built, Replying, SeenStays, Sent
  <2>2. Acked(x, j)' <=> Acked(x, j)
    BY <2>1 DEF Acked
  <2>3. /\ q2.st = q.st /\ q2.id = q.id /\ q2.listed = q.listed
        /\ up'[x] = up[x] /\ (j \in stray'[x] <=> j \in stray[x])
    BY <2>1 DEF EntryRests, DiscardRests
  <2> QED BY <1>1, <2>1, <2>2, <2>3 DEF Honest
<1>7. CASE Edited(x, j)
  <2>1. /\ op2 = op /\ seen'[x][j] = S /\ up'[x] = up[x] /\ j \notin stray'[x]
        /\ q2.st = "queued" /\ q2.listed = q.listed
        /\ q.st = "none" \/ q2.id = q.id
    BY <1>7, Zenon DEF Edited, EditedEntry, SeenStays
  <2>2. PICK del \in BOOLEAN : /\ r2.c = NewContent(x, del)
                               /\ r2.st = "pending" /\ Exists(r2)
    BY <1>7, EditedRow
  <2>3. NewContent(x, del).n = edits + 1 /\ edits \in Nat
    BY NewIsMade DEF TypeOK
  <2>4. edits + 1 \notin S
    BY <2>3 DEF AllCounted, Counted
  <2>5. Sent(op) => op.c.n # edits + 1
    <3>1. Sent(op) => Real(op.c) /\ op.c.n <= edits
      BY DEF AllRanked, Ranked, Under
    <3> QED BY <2>3, <3>1, RealFields
  <2>6. Sent(op) => r2.c.n # op.c.n /\ r2.c.n \notin S
    BY <2>2, <2>3, <2>4, <2>5
  <2> QED BY <1>1, <2>1, <2>2, <2>6 DEF Honest
<1>8. CASE Reconciled(x, j)
  <2>1. Replied(op) /\ r2 = RowAfter(r, op) /\ op2.st = "none" /\ ReconciledEntry(x, j)
    BY <1>8 DEF Reconciled
  <2>2. Sent(op) /\ op.st # "gone" /\ op.st # "none"
    BY <2>1 DEF CloudInv, Behind, Replied, Sent
  <2>3. j \in stray'[x] => ~Acked(x, j)'
    BY <2>1 DEF ReconciledEntry
  <2>4. Exists(r2)
    BY <1>0, <1>1, <2>1, <2>2, RowAfterCases DEF Exists
  <2>5. /\ up'[x] => up[x]
        /\ \/ q2 = q /\ (~up'[x] \/ q.id # op.qid)
           \/ q2.st = "queued" /\ q2.listed = q.listed /\ r2.st = r.st
           \/ q2.st \in {"dead", "queued"} /\ r2.st = "failed"
           \/ q2 = NoEntry
    BY <1>1, <1>8, <2>2, ReconciledEntryCases
  <2>6. ~Sent(op2)
    BY <2>1 DEF Sent
  <2>7. CASE q2 = q /\ (~up'[x] \/ q.id # op.qid)
    BY <1>1, <2>1, <2>2, <2>3, <2>4, <2>5, <2>6, <2>7 DEF Honest
  <2>8. CASE q2.st = "queued" /\ q2.listed = q.listed /\ r2.st = r.st
    BY <1>1, <2>1, <2>3, <2>4, <2>5, <2>6, <2>8 DEF Honest
  <2>9. CASE q2.st \in {"dead", "queued"} /\ r2.st = "failed"
    BY <2>1, <2>3, <2>4, <2>6, <2>9 DEF Honest
  <2>10. CASE q2 = NoEntry
    BY <1>2, <2>1, <2>3, <2>4, <2>6, <2>10 DEF Honest
  <2> QED BY <2>5, <2>7, <2>8, <2>9, <2>10
<1>9. CASE Paged(x, j)
  <2>1. /\ p.ver > 0 /\ (op2 = op \/ op2.st = "none") /\ (up'[x] => up[x])
        /\ PagedEntry(x, j)
    BY <1>9 DEF Paged
  <2>2. op2.st = "none" /\ ~Sent(op2)
    BY <2>1, NoPageBesideOp DEF Sent
  <2>3. Exists(r2)
    BY <1>9, PagedRow
  <2>4. j \in stray'[x] => ~Acked(x, j)'
    BY <2>1 DEF PagedEntry
  <2>5. CASE /\ q.st # "none" /\ r2 = [r EXCEPT !.ver = p.ver]
             /\ q2.st = "queued" /\ q2.listed = q.listed
    <3>1. r2.st = r.st
      BY <1>0, <2>5 DEF Row
    <3> QED BY <1>1, <2>1, <2>2, <2>3, <2>4, <2>5, <3>1 DEF Honest
  <2>6. CASE q2 = NoEntry
    BY <1>2, <2>2, <2>3, <2>4, <2>6 DEF Honest
  <2> QED BY <2>1, <2>5, <2>6 DEF PagedEntry
<1> QED BY <1>3, <1>4, <1>7, <1>8, <1>9 DEF Steps

LEMMA HonestAlways == ~Overlap => (Spec => []AllHonest)
<1> SUFFICES ASSUME ~Overlap
             PROVE  Spec => []AllHonest
  OBVIOUS
<1>1. TypeOK /\ CloudInv /\ OpsShape /\ PullAlone /\ PagesHeld /\ AllRanked
        /\ AllCounted /\ AllHonest /\ [Next]_vars => AllHonest'
  <2> SUFFICES ASSUME TypeOK, CloudInv, OpsShape, PullAlone, PagesHeld, AllRanked,
                      AllCounted, AllHonest, [Next]_vars,
                      NEW x \in Devices, NEW j \in Keys
               PROVE  Honest(x, j)'
    BY DEF AllHonest
  <2> QED BY StepCases, HonestNext
<1>2. Spec => []PullAlone
  BY PullAloneAlways
<1> QED BY <1>1, <1>2, HonestInit, TypeCorrect, CloudInvHolds, OpsShapeAlways,
           PagesHeldAlways, RankedAlways, CountedAlways, PTL DEF Spec

\* A row that has the version of the document has its content, or owes it an
\* edit.
Agreed(x, j) ==
  row[x][j].ver = doc[j].ver => row[x][j].c = doc[j].c \/ Carried(x, j)

AllAgreed == \A x \in Devices, j \in Keys : Agreed(x, j)

\* A row whose document the cursor has passed has its version, unless the
\* document shares its stamp.
Caught(x, j) ==
  doc[j].ver > 0 /\ doc[j].ts <= cursor[x][EntityOf[j]] =>
    row[x][j].ver = doc[j].ver \/ j \in tied

AllCaught == \A x \in Devices, j \in Keys : Caught(x, j)

LEMMA AgreedInit == Init => AllAgreed /\ AllCaught
BY DEF Init, AllAgreed, Agreed, AllCaught, Caught, NoRow, NoDoc

LEMMA AgreedNext ==
  ASSUME TypeOK, CloudInv, AllCarried, AllCarried', AllHonest, AllAgreed,
         NEW x \in Devices, NEW j \in Keys, Steps(x, j)
  PROVE  Agreed(x, j)'
<1> DEFINE r == row[x][j]     r2 == row'[x][j]
           op == push[x].ops[j]
           p == pull[x].page[j]
           D == doc[j]        D2 == doc'[j]
<1>1. /\ r.ver \in Nat /\ op.base \in Nat /\ op.rv \in Nat /\ p.ver \in Nat
      /\ D.ver \in Nat /\ r \in Row /\ op \in Op
  BY Typed
<1>2. /\ r.ver <= D.ver
      /\ Sent(op) => op.st # "gone"
      /\ D.ver = 0 => D.c = NoContent
      /\ ~Exists(r) => r.ver = 0 /\ r.c = NoContent
      /\ op.st = "applied" /\ op.base + 1 = D.ver => D.c = op.c
      /\ op.st = "conflict" /\ op.rv = D.ver => D.c = op.rc
      /\ p.ver > 0 /\ p.ver = D.ver => D.c = p.c
  BY DEF CloudInv, Behind, Named
<1>3. /\ r.ver = D.ver => r.c = D.c \/ Carried(x, j)
      /\ Sent(op) => Exists(r)
      /\ Sent(op) => r.c = op.c \/ (r.c.n # op.c.n /\ r.c.n \notin seen[x][j])
      /\ op.st # "none" => Carried(x, j) \/ ~Exists(r)
      /\ op.st # "none" /\ queue[x][j].st = "none" => r.st # "synced"
  BY DEF AllAgreed, Agreed, AllHonest, Honest, AllCarried, OwedIsCarried
<1>4. ASSUME NEW d \in Devices, Taken(push[d].ops[j], j)
      PROVE  r.ver # D2.ver
  <2>1. D2.ver = D.ver + 1
    BY <1>4, Typed, DocMoves
  <2> QED BY <1>1, <1>2, <2>1
<1>5. CASE Quiet(x, j)
  <2>1. r2.c = r.c /\ r2.ver = r.ver
    BY <1>5, RowStaysFields DEF Quiet
  <2>2. CASE DocStays(j)
    <3>1. Carried(x, j) => Carried(x, j)' \/ ~Exists(r)
      BY <1>5, QuietCarried
    <3>2. ~Exists(r) /\ r.ver = D.ver => r.c = D.c
      BY <1>2
    <3> QED BY <1>3, <2>1, <2>2, <3>1, <3>2 DEF DocStays, Agreed
  <2> QED BY <1>4, <1>5, <2>1, <2>2 DEF Quiet, Agreed
<1>6. CASE Queried(x, j) \/ Built(x, j)
  BY <1>3, <1>6 DEF Queried, Built, DocStays, EntryRests, DiscardRests, Agreed, Carried
<1>7. CASE Replying(x, j)
  <2>1. r2 = r /\ EntryRests(x, j) /\ (Taken(op, j) \/ DocStays(j))
    BY <1>7 DEF Replying, Replies
  <2> QED BY <1>3, <1>4, <2>1 DEF DocStays, EntryRests, DiscardRests, Agreed, Carried
<1>8. CASE Edited(x, j)
  BY <1>8 DEF Edited, EditedEntry, Agreed, Carried
<1>9. CASE Reconciled(x, j)
  <2>1. /\ Replied(op) /\ r2 = RowAfter(r, op) /\ D2 = D /\ ReconciledEntry(x, j)
        /\ seen'[x][j] = seen[x][j] \cup Shown(op)
    BY <1>9 DEF Reconciled, DocStays
  <2>2. Sent(op) /\ op.st # "gone" /\ op.st # "none"
    BY <1>2, <2>1 DEF Replied, Sent
  <2>3. Exists(r) /\ Carried(x, j)
    BY <1>3, <2>2
  <2>4. CASE r2.st \in {"pending", "failed"}
    BY <2>4 DEF Agreed, AllCarried, OwedIsCarried
  <2>5. CASE /\ op.st = "conflict" /\ LocalWins(r.c, op.rc)
             /\ r2.st = r.st /\ r2.st \notin {"pending", "failed"}
    <3>1. queue[x][j].st # "none"
      <4>1. r.st \in {"absent", "pending", "synced", "failed"}
        BY <1>1 DEF Row
      <4> QED BY <1>3, <2>2, <2>3, <2>5, <4>1 DEF Exists
    <3>2. \/ queue'[x][j] = queue[x][j]
          \/ queue'[x][j].st \in {"dead", "queued"}
          \/ queue'[x][j] = NoEntry
      BY <1>9, <2>2, <2>3, ReconciledEntryCases
    <3>3. queue'[x][j] # NoEntry
      <4>1. KeepsLocal(r, op.rc)
        BY <2>3, <2>5 DEF KeepsLocal
      <4>2. queue[x][j] # NoEntry /\ Reopened(queue[x][j]) # NoEntry
        <5>1. queue[x][j] \in Entry
          BY DEF TypeOK
        <5>2. Reopened(queue[x][j]).st = "queued"
          BY <5>1, EntryFields
        <5> QED BY <3>1, <5>2 DEF NoEntry
      <4> QED BY <2>1, <2>5, <4>1, <4>2 DEF ReconciledEntry, EntryAfter
    <3>4. queue'[x][j].st # "none"
      BY <3>1, <3>2, <3>3
    <3> QED BY <3>4 DEF Agreed, Carried
  <2>6. CASE op.st = "conflict" /\ r2.c = op.rc /\ r2.ver = op.rv
    BY <1>2, <2>1, <2>6 DEF Agreed
  <2>7. CASE op.st = "applied" /\ r2.c = r.c /\ r2.ver = op.base + 1
    <3>1. CASE r.c = op.c
      BY <1>2, <2>1, <2>7, <3>1 DEF Agreed
    <3>2. CASE r.c # op.c
      <4>1. Overtaken(r, op)
        BY <2>3, <2>7, <3>2 DEF Overtaken
      <4>2. r2.c.n \notin seen'[x][j]
        BY <1>3, <2>1, <2>2, <2>7, <3>2 DEF Shown
      <4>3. ~Acked(x, j)'
        BY <4>2 DEF Acked
      <4>4. j \in stray'[x]
        BY <2>1, <4>1, <4>3 DEF ReconciledEntry
      <4> QED BY <4>4 DEF Agreed, Carried
    <3> QED BY <3>1, <3>2
  <2>8. CASE r2.st = "failed"
    BY <2>4, <2>8
  <2> QED BY <1>1, <2>1, <2>2, <2>3, <2>4, <2>5, <2>6, <2>7, <2>8, RowAfterCases
<1>10. CASE Paged(x, j)
  <2>1. p.ver > 0 /\ D2 = D /\ PagedEntry(x, j)
    BY <1>10 DEF Paged, DocStays
  <2>2. CASE queue'[x][j].st = "queued"
    BY <2>2 DEF Agreed, Carried
  <2>3. CASE r2 = Synced(p.c, p.ver)
    BY <1>2, <2>1, <2>3 DEF Synced, Agreed
  <2> QED BY <2>1, <2>2, <2>3 DEF PagedEntry
<1> QED BY <1>5, <1>6, <1>7, <1>8, <1>9, <1>10 DEF Steps

LEMMA CaughtNext ==
  ASSUME TypeOK, CloudInv, LoneInv, CursorInv, AllCaught, [Next]_vars,
         NEW x \in Devices, NEW k \in Keys
  PROVE  Caught(x, k)'
<1> SUFFICES ASSUME doc'[k].ver > 0, doc'[k].ts <= cursor'[x][EntityOf[k]],
                    k \notin tied'
             PROVE  row'[x][k].ver = doc'[k].ver
  BY DEF Caught
<1>1. /\ cursor[x] \in [1..NumEntities -> Nat] /\ EntityOf[k] \in 1..NumEntities
      /\ asked \in Nat /\ pull[x].e \in 1..NumEntities
  BY EntityAssumption DEF TypeOK, Pull
<1>2. /\ row[x][k].ver \in Nat /\ doc[k].ver \in Nat
      /\ row'[x][k].ver \in Nat /\ row'[x][k].ver <= doc'[k].ver
  <2>1. TypeOK' /\ CloudInv'
    BY TypeNext, CloudInvNext
  <2> QED BY <2>1, Typed DEF CloudInv, Behind, TypeOK, Row
<1>3. row[x][k].ver <= row'[x][k].ver
  BY StepCases, VersionsGrow
<1>4. CASE /\ doc'[k] = doc[k] /\ doc[k].ts <= cursor[x][EntityOf[k]]
           /\ k \notin tied
  <2>1. row[x][k].ver = doc[k].ver
    BY <1>4 DEF AllCaught, Caught
  <2> QED BY <1>2, <1>3, <1>4, <2>1
<1>5. CASE cursor'[x] = cursor[x]
  <2>1. cursor[x][EntityOf[k]] \in Nat /\ cursor[x][EntityOf[k]] <= asked
    BY <1>1 DEF CursorInv, Stamped
  <2>2. asked' \in Nat /\ doc'[k].ts \in Nat
    BY TypeNext DEF TypeOK, Doc
  <2>3. doc'[k] = doc[k] /\ (k \in tied => k \in tied')
    BY <1>1, <1>5, <2>1, <2>2, DocTimes
  <2> QED BY <1>4, <1>5, <2>3
<1>6. ASSUME NEW last \in Keys, PullApply(x, last),
             ~(doc[k].ts <= cursor[x][EntityOf[k]])
      PROVE  row'[x][k].ver = doc'[k].ver
  <2>1. /\ last \in OnPage(x) /\ ApplyPage(x) /\ doc' = doc /\ tied' = tied
        /\ cursor'[x] = [cursor[x] EXCEPT ![pull[x].e] = pull[x].page[last].ts]
    BY <1>6, PageEnds
  <2>2. EntityOf[k] = pull[x].e /\ doc[k].ts <= pull[x].page[last].ts
    BY <1>1, <1>6, <2>1
  <2>3. doc[k].ts > cursor[x][pull[x].e]
    <3>1. doc[k].ts \in Nat
      <4>1. doc[k] \in Doc
        BY Typed
      <4> QED BY <4>1 DEF Doc
    <3>2. cursor[x][EntityOf[k]] \in Nat
      BY <1>1
    <3>3. doc[k].ts > cursor[x][EntityOf[k]]
      BY <1>6, <3>1, <3>2
    <3> QED BY <2>2, <3>3
  <2>4. pull[x].page[k] = doc[k]
    BY <2>1, <2>2, <2>3 DEF CursorInv, PageCovers
  <2>5. k \in OnPage(x)
    BY <2>1, <2>4 DEF OnPage
  <2>6. row[x][k] \in Row
    BY Typed
  <2>7. \/ row'[x][k] = [row[x][k] EXCEPT !.ver = pull[x].page[k].ver]
        \/ row'[x][k] = Synced(pull[x].page[k].c, pull[x].page[k].ver)
    BY <2>1, <2>5, PageRecord
  <2>8. row'[x][k].ver = pull[x].page[k].ver
    BY <2>6, <2>7 DEF Row, Synced
  <2> QED BY <2>1, <2>4, <2>8
<1>7. ASSUME NEW last \in Keys, PullApply(x, last)
      PROVE  doc'[k] = doc[k] /\ tied' = tied
  BY <1>7, PageEnds
<1> QED BY <1>4, <1>5, <1>6, <1>7, CursorMoves

LEMMA AgreedAlways == ~Overlap => (Spec => [](AllAgreed /\ AllCaught))
<1> SUFFICES ASSUME ~Overlap
             PROVE  Spec => [](AllAgreed /\ AllCaught)
  OBVIOUS
<1>1. TypeOK /\ CloudInv /\ AllCarried /\ AllCarried' /\ AllHonest /\ AllAgreed
        /\ [Next]_vars => AllAgreed'
  <2> SUFFICES ASSUME TypeOK, CloudInv, AllCarried, AllCarried', AllHonest,
                      AllAgreed, [Next]_vars, NEW x \in Devices, NEW j \in Keys
               PROVE  Agreed(x, j)'
    BY DEF AllAgreed
  <2> QED BY StepCases, AgreedNext
<1>2. TypeOK /\ CloudInv /\ LoneInv /\ CursorInv /\ AllCaught /\ [Next]_vars
        => AllCaught'
  BY CaughtNext DEF AllCaught
<1>3. Spec => []AllHonest
  BY HonestAlways
<1>4. Spec => []LoneInv
  BY LoneInvHolds
<1>5. Spec => []AllCarried
  BY AllCarriedAlways
<1> QED BY <1>1, <1>2, <1>3, <1>4, <1>5, AgreedInit, TypeCorrect, CloudInvHolds,
           CursorInvHolds, PTL DEF Spec

\* A device with nothing left to push, to apply or to pull for a record, whose
\* last edit of it did not go astray, holds exactly what the cloud holds,
\* whatever conflicts, retries, lost replies, stale lists, crashes and
\* relaunches came before: the queue, the versions and the cursor together leave
\* no difference that nobody would repair.  It is proved of an app whose
\* background tasks do not run beside it, and of documents that share no stamp.
THEOREM SettledAgree == ~Overlap => (Spec => []SettledMeansConverged)
<1> SUFFICES ASSUME ~Overlap
             PROVE  Spec => []SettledMeansConverged
  OBVIOUS
<1>1. TypeOK /\ CloudInv /\ AllAgreed /\ AllCaught => SettledMeansConverged
  <2> SUFFICES ASSUME TypeOK, CloudInv, AllAgreed, AllCaught,
                      NEW d \in Devices, NEW k \in Keys, Settled(d, k),
                      k \notin tied
               PROVE  row[d][k].c = doc[k].c
    BY DEF SettledMeansConverged
  <2>1. ~Carried(d, k) /\ doc[k].ts <= cursor[d][EntityOf[k]]
    BY DEF Settled, Carried
  <2>2. row[d][k].ver \in Nat /\ doc[k].ver \in Nat /\ row[d][k].ver <= doc[k].ver
    BY Typed DEF CloudInv, Behind
  <2>3. doc[k].ver > 0 => row[d][k].ver = doc[k].ver
    BY <2>1 DEF AllCaught, Caught
  <2>4. row[d][k].ver = doc[k].ver
    BY <2>2, <2>3
  <2> QED BY <2>1, <2>4 DEF AllAgreed, Agreed
<1>2. Spec => [](AllAgreed /\ AllCaught)
  BY AgreedAlways
<1> QED BY <1>1, <1>2, TypeCorrect, CloudInvHolds, PTL

(***************************************************************************)
(* The cloud ends with the greatest of all edits.                          *)
(***************************************************************************)
\* The device clocks are so close that an edit has a later stamp than any
\* edit made before it.
ClocksAgree == \A d, e \in Devices :
  \/ Skew[d] + 1 > Skew[e]
  \/ Skew[d] + 1 = Skew[e] /\ d > e

\* With such clocks an edit beats whatever it does not contradict a delete of.
LEMMA NewIsAbove ==
  ASSUME ClocksAgree, TypeOK, NEW d \in Devices, NEW del \in BOOLEAN,
         NEW c, Real(c), c.n <= edits, c.del => del
  PROVE  c.n = 0 \/ LocalWins(NewContent(d, del), c)
<1> DEFINE e == NewContent(d, del)
<1>1. /\ Made(e) /\ e.n = edits + 1 /\ e.del = del
  BY NewIsMade
<1>2. e.by = d /\ e.at = edits + 1 + Skew[d]
  BY DEF NewContent
<1> HIDE DEF e
<1>3. CASE c.n = 0
  BY <1>3
<1>4. CASE c.n # 0
  <2>1. Made(c)
    BY <1>4, RealFields
  <2>2. c.n \in Nat /\ c.by \in Devices /\ c.at = c.n + Skew[c.by] /\ c.by \in Nat
    BY <2>1, MadeFields DEF Made
  <2>3. edits \in Nat /\ Skew[d] \in Int /\ Skew[c.by] \in Int /\ d \in Nat
    BY <2>2, SkewAssumption, DevicesAssumption DEF TypeOK
  <2>4. Skew[d] + 1 > Skew[c.by] \/ (Skew[d] + 1 = Skew[c.by] /\ d > c.by)
    BY <2>2 DEF ClocksAgree
  <2>5. Later(e, c)
    BY <1>2, <2>2, <2>3, <2>4 DEF Later
  <2>6. c.del \in BOOLEAN /\ e.del \in BOOLEAN
    BY <1>1, <2>1, MadeFields
  <2>7. (e.del /\ ~c.del) \/ ((e.del = c.del) /\ Later(e, c))
    BY <1>1, <2>5, <2>6, Zenon
  <2>8. LocalWins(e, c)
    BY <2>7, WinsByCases, Zenon
  <2> QED BY <2>8 DEF e
<1> QED BY <1>3, <1>4

\* A row or an op about the version of the document stands above its content,
\* and a row that was edited stands above its op.
Ahead(x, j) ==
  LET op == push[x].ops[j] IN
  /\ Sent(op) => Above(row[x][j].c, op.c)
  /\ row[x][j].ver = doc[j].ver => Above(row[x][j].c, doc[j].c)
  /\ Sent(op) /\ op.base = doc[j].ver => Above(op.c, doc[j].c)

AllAhead == \A x \in Devices, j \in Keys : Ahead(x, j)

LEMMA AheadInit == Init => AllAhead
<1> SUFFICES ASSUME Init, NEW x \in Devices, NEW j \in Keys
             PROVE  Ahead(x, j)
  BY DEF AllAhead
<1>1. doc[j] = NoDoc /\ NoDoc.c.n = 0 /\ ~Sent(push[x].ops[j])
  BY DEF Init, NoDoc, NoContent, IdlePush, NoOp, Sent
<1> QED BY <1>1 DEF Ahead, Above

LEMMA AheadNext ==
  ASSUME ClocksAgree, TypeOK, CloudInv, OpsShape, PullAlone, PagesHeld, LoneInv,
         AllHonest, AllRanked, AllFilled, AllAhead, NEW x \in Devices, NEW j \in Keys, Steps(x, j)
  PROVE  Ahead(x, j)'
<1> DEFINE r == row[x][j]     r2 == row'[x][j]
           op == push[x].ops[j] op2 == push'[x].ops[j]
           p == pull[x].page[j]
           D == doc[j]        D2 == doc'[j]
<1>1. /\ r.ver \in Nat /\ op.base \in Nat /\ D.ver \in Nat
      /\ r \in Row /\ op \in Op
  BY Typed
<1>2. /\ r.ver <= D.ver
      /\ Sent(op) => op.base <= D.ver /\ op.st # "gone"
      /\ ~Exists(r) => r.c = NoContent
      /\ op.st = "applied" /\ op.base + 1 = D.ver => D.c = op.c
      /\ op.st = "conflict" /\ op.rv = D.ver => D.c = op.rc
      /\ p.ver > 0 /\ p.ver = D.ver => D.c = p.c
  BY DEF CloudInv, Behind, Named
<1>3. /\ r.ver = D.ver => Above(r.c, D.c)
      /\ Sent(op) /\ op.base = D.ver => Above(op.c, D.c)
      /\ Sent(op) => Above(r.c, op.c) /\ Exists(r)
  BY DEF AllAhead, Ahead, AllHonest, Honest
<1>4. Exists(r) => r.c.n > 0
  <2>1. Exists(r) => r.c.n # 0
    BY DEF AllFilled, Filled
  <2>2. Real(r.c)
    BY DEF AllRanked, Ranked, Under
  <2>3. r.c.n \in Nat
    BY <2>2, RealFields
  <2> QED BY <2>1, <2>3
<1>5. Above(D.c, D.c) /\ Above(r.c, r.c)
  BY DEF Above
<1>6. ASSUME NEW d \in Devices, Taken(push[d].ops[j], j)
      PROVE  r.ver # D2.ver /\ (Sent(op) => op.base # D2.ver)
  <2>1. D2.ver = D.ver + 1
    BY <1>6, Typed, DocMoves
  <2> QED BY <1>1, <1>2, <2>1
<1>7. CASE Quiet(x, j)
  <2>1. r2.c = r.c /\ r2.ver = r.ver /\ (op2 = op \/ ~Sent(op2))
    BY <1>7, RowStaysFields DEF Quiet, OpStays
  <2>2. Sent(op2) => op2 = op /\ Above(r2.c, op2.c)
    BY <1>3, <2>1
  <2>3. CASE D2 = D
    BY <1>3, <2>1, <2>2, <2>3 DEF Ahead
  <2>4. ASSUME NEW d \in Devices, Taken(push[d].ops[j], j)
        PROVE  Ahead(x, j)'
    <3>1. r2.ver # D2.ver /\ (Sent(op2) => op2.base # D2.ver)
      BY <1>6, <2>1, <2>2, <2>4
    <3> QED BY <2>2, <3>1 DEF Ahead
  <2>5. D2 = D \/ \E d \in Devices : Taken(push[d].ops[j], j)
    BY <1>7 DEF Quiet, DocStays
  <2> QED BY <2>3, <2>4, <2>5
<1>8. CASE Queried(x, j)
  BY <1>3, <1>8 DEF Queried, DocStays, Ahead
<1>9. CASE Built(x, j)
  BY <1>3, <1>5, <1>9 DEF Built, DocStays, Ahead
<1>10. CASE Replying(x, j)
  <2>1. /\ r2 = r /\ op.st = "sent" /\ op2.c = op.c /\ op2.base = op.base
        /\ Taken(op, j) \/ D2 = D
    BY <1>10 DEF Replying, Replies, DocStays
  <2>2. Sent(op)
    BY <2>1 DEF Sent
  <2> QED BY <1>3, <1>6, <2>1, <2>2 DEF Ahead
<1>11. CASE Edited(x, j)
  <2>1. PICK del \in BOOLEAN :
          /\ Exists(r) => (r.c.del => del)
          /\ r2.c = NewContent(x, del) /\ r2.ver = r.ver
    BY <1>11, EditedRow
  <2>2. op2 = op /\ D2 = D
    BY <1>11 DEF Edited, DocStays
  <2>3. ASSUME r.ver = D.ver
        PROVE  Above(NewContent(x, del), D.c)
    <3>1. D.c.del => r.c.del
      BY <2>3, Zenon DEF LoneInv, Mourned
    <3>2. ~NoContent.del
      BY DEF NoContent
    <3>3. D.c.del => del
      BY <1>2, <2>1, <3>1, <3>2
    <3>4. Real(D.c) /\ D.c.n <= edits
      BY DEF AllRanked, Ranked, Under
    <3>5. D.c.n = 0 \/ LocalWins(NewContent(x, del), D.c)
      BY <3>3, <3>4, NewIsAbove
    <3>6. NewContent(x, del).n > 0
      BY NewIsMade, MadeFields
    <3> QED BY <3>5, <3>6 DEF Above
  <2>4. ASSUME Sent(op)
        PROVE  Above(NewContent(x, del), op.c)
    <3>1. op.c.del => r.c.del
      BY <2>4, Zenon DEF LoneInv, Mourned
    <3>2. op.c.del => del
      BY <1>3, <2>1, <2>4, <3>1
    <3>3. Real(op.c) /\ op.c.n <= edits
      BY <2>4 DEF AllRanked, Ranked, Under
    <3>4. op.c.n = 0 \/ LocalWins(NewContent(x, del), op.c)
      BY <3>2, <3>3, NewIsAbove
    <3>5. NewContent(x, del).n > 0
      BY NewIsMade, MadeFields
    <3> QED BY <3>4, <3>5 DEF Above
  <2> QED BY <1>3, <2>1, <2>2, <2>3, <2>4 DEF Ahead
<1>12. CASE Reconciled(x, j)
  <2>1. Replied(op) /\ r2 = RowAfter(r, op) /\ op2.st = "none" /\ D2 = D
    BY <1>12 DEF Reconciled, DocStays
  <2>2. Sent(op) /\ op.st # "gone"
    BY <1>2, <2>1 DEF Replied, Sent
  <2>3. Exists(r) /\ Above(r.c, op.c)
    BY <1>3, <2>2
  <2>4. r2.ver = D.ver => Above(r2.c, D.c)
    <3>1. CASE op.st = "conflict" /\ LocalWins(r.c, op.rc) /\ r2.c = r.c /\ r2.ver = op.rv
      BY <1>2, <1>4, <2>3, <3>1 DEF Above
    <3>2. CASE op.st = "conflict" /\ r2.c = op.rc /\ r2.ver = op.rv
      BY <1>2, <1>5, <3>2
    <3>3. CASE op.st = "applied" /\ r2.c = r.c /\ r2.ver = op.base + 1
      BY <1>2, <1>5, <2>3, <3>3
    <3>4. CASE r2.c = r.c /\ r2.ver = r.ver
      BY <1>3, <3>4
    <3> QED BY <1>1, <2>1, <2>2, <2>3, <3>1, <3>2, <3>3, <3>4, RowAfterCases
  <2> QED BY <2>1, <2>4 DEF Ahead, Sent
<1>13. CASE Paged(x, j)
  <2>0. ~Sent(op2)
    BY <1>13, NoPageBesideOp DEF Paged, Sent
  <2>1. /\ p.ver > 0 /\ D2 = D /\ r2.ver = p.ver
        /\ \/ Exists(r) /\ LocalWins(r.c, p.c) /\ r2.c = r.c
           \/ r2.c = p.c
    BY <1>13, PagedRow DEF Paged, DocStays
  <2>2. r2.ver = D.ver => Above(r2.c, D.c)
    BY <1>2, <1>4, <1>5, <2>1 DEF Above
  <2> QED BY <2>0, <2>1, <2>2 DEF Ahead
<1> QED BY <1>7, <1>8, <1>9, <1>10, <1>11, <1>12, <1>13 DEF Steps

\* Once the winner has been in the cloud it stays there.
Crowned(j) == winner[j].n \in log[j] => doc[j].c = winner[j]

AllCrowned == \A j \in Keys : Crowned(j)

LEMMA CrownedInit == Init => AllCrowned
BY DEF Init, AllCrowned, Crowned, NoDoc

\* No document that has the winner is written over, but by a later edit.
LEMMA WinnerStays ==
  ASSUME TypeOK, AllRanked, AllAhead, [Next]_vars, NEW j \in Keys,
         doc[j].c = winner[j]
  PROVE  doc'[j].c = winner[j]
<1>1. CASE doc'[j] = doc[j]
  BY <1>1
<1>2. ASSUME NEW d \in Devices, Taken(push[d].ops[j], j)
      PROVE  doc'[j].c = winner[j]
  <2> DEFINE op == push[d].ops[j]
  <2>1. doc'[j].c = op.c /\ op.base = doc[j].ver /\ Sent(op)
    BY <1>2, Typed, DocMoves DEF Sent
  <2>2. Above(op.c, winner[j])
    BY <2>1 DEF AllAhead, Ahead
  <2>3. Above(winner[j], op.c) /\ Real(op.c) /\ Real(winner[j])
    BY <2>1 DEF AllRanked, Ranked, Winning, Under
  <2>4. op.c = winner[j]
    BY <2>2, <2>3, AboveOrder
  <2> QED BY <2>1, <2>4
<1> QED BY <1>1, <1>2, DocSteps

LEMMA CrownedNext ==
  ASSUME TypeOK, AllRanked, AllCounted, AllAhead, AllCrowned, [Next]_vars,
         NEW j \in Keys
  PROVE  Crowned(j)'
<1> DEFINE D == doc[j]    D2 == doc'[j]
           w == winner[j] w2 == winner'[j]
<1>1. w.n \in log[j] => D.c = w
  BY DEF AllCrowned, Crowned
<1>2. CASE Rests
  <2>1. w2 = w
    BY <1>2 DEF Rests
  <2>2. CASE w.n \in log[j]
    BY <1>1, <2>1, <2>2, WinnerStays DEF Crowned
  <2>3. CASE w.n \notin log[j]
    <3>1. ASSUME NEW d \in Devices, Taken(push[d].ops[j], j), w.n \in log'[j]
          PROVE  D2.c = w
      <4>1. /\ D2.c = push[d].ops[j].c /\ Sent(push[d].ops[j])
            /\ log'[j] = log[j] \cup {push[d].ops[j].c.n}
        BY <3>1, Typed, DocMoves DEF Sent
      <4>2. push[d].ops[j].c.n = w.n
        BY <2>3, <3>1, <4>1
      <4>3. Under(push[d].ops[j].c, w, edits)
        BY <4>1 DEF AllRanked, Ranked
      <4> QED BY <4>1, <4>2, <4>3 DEF Under
    <3>2. DocStays(j) \/ \E d \in Devices : Taken(push[d].ops[j], j)
      BY LogSteps
    <3> QED BY <2>1, <2>3, <3>1, <3>2 DEF DocStays, Crowned
  <2> QED BY <2>2, <2>3
<1>3. ASSUME NEW d \in Devices, NEW k \in Keys, NEW del \in BOOLEAN, Rewrites(d, k, del)
      PROVE  Crowned(j)'
  <2>1. D2 = D /\ log'[j] = log[j]
    BY <1>3 DEF Rewrites
  <2>2. CASE w2 = w
    BY <1>1, <2>1, <2>2 DEF Crowned
  <2>3. CASE w2 # w
    <3>1. j = k
      BY <1>3, <2>3 DEF Rewrites
    <3>2. w2.n = edits + 1
      BY <1>3, <2>3, <3>1, RewritesWin DEF AllRanked
    <3>3. edits \in Nat /\ \A n \in log[j] : n \in Nat /\ n <= edits
      BY DEF AllCounted, Counted, TypeOK
    <3>4. edits + 1 \notin log[j]
      BY <3>3
    <3> QED BY <2>1, <3>2, <3>4 DEF Crowned
  <2> QED BY <2>2, <2>3
<1> QED BY <1>2, <1>3, EditCases

\* The winner is in the cloud, or in a row whose queue entry will carry it
\* there, or an edit of the record went astray.
Held(k) ==
  \/ k \in dropped
  \/ doc[k].c = winner[k]
  \/ \E d \in Devices : row[d][k].c = winner[k] /\ queue[d][k].st # "none"

AllHeld == \A k \in Keys : Held(k)

LEMMA HeldInit == Init => AllHeld
BY DEF Init, AllHeld, Held, NoDoc

\* An error, or a conflict that the row wins, does not end its queue entry.
LEMMA KeptEntry ==
  ASSUME TypeOK, NEW x \in Devices, NEW j \in Keys, Reconciled(x, j),
         queue[x][j].st # "none",
         \/ push[x].ops[j].st \in {"transient", "fatal"}
         \/ push[x].ops[j].st = "conflict" /\ KeepsLocal(row[x][j], push[x].ops[j].rc)
  PROVE  queue'[x][j].st # "none"
<1> DEFINE r == row[x][j]  q == queue[x][j]  q2 == queue'[x][j]  op == push[x].ops[j]
<1>1. q \in Entry
  BY DEF TypeOK
<1>2. q2 = q \/ q2 = EntryAfter(r, q, op)
  BY DEF Reconciled, ReconciledEntry
<1>3. CASE q2 = q
  BY <1>3
<1>4. CASE q2 = EntryAfter(r, q, op) /\ q.id # op.qid
  BY <1>4 DEF EntryAfter
<1>5. CASE q2 = EntryAfter(r, q, op) /\ q.id = op.qid /\ op.st \in {"transient", "fatal"}
  <2>1. q2 = Failed(q, TRUE) \/ q2 = Failed(q, FALSE)
    BY <1>5, EntryAfterTransient
  <2>2. q2.st \in {"dead", "queued"}
    BY <1>1, <2>1, EntryEffects
  <2> QED BY <2>2
<1>6. CASE /\ q2 = EntryAfter(r, q, op) /\ q.id = op.qid
           /\ op.st = "conflict" /\ KeepsLocal(r, op.rc)
  <2>1. q2 = Reopened(q)
    BY <1>6 DEF EntryAfter
  <2>2. q2.st = "queued"
    BY <1>1, <2>1, EntryFields
  <2> QED BY <2>2
<1> QED BY <1>2, <1>3, <1>4, <1>5, <1>6

\* The side the resolver does not keep is the winner, if the other one was.
LEMMA LosesToWinner ==
  ASSUME NEW w, NEW c, Real(w), Real(c), w.n > 0, c.n # 0, Above(w, c),
         ~LocalWins(w, c)
  PROVE  c = w
<1>1. c.n > 0
  BY RealFields
<1>2. Above(c, w)
  BY <1>1, AboveOrder
<1> QED BY <1>2, AboveOrder

LEMMA HeldByDevice ==
  ASSUME TypeOK, CloudInv, AllHonest, AllRanked, AllFilled, AllCounted, AllAhead,
         AllCrowned, [Next]_vars, Rests, NEW d \in Devices, NEW k \in Keys,
         row[d][k].c = winner[k], queue[d][k].st # "none"
  PROVE  Held(k)'
<1> DEFINE r == row[d][k]     r2 == row'[d][k]
           q == queue[d][k]   q2 == queue'[d][k]
           op == push[d].ops[k]
           p == pull[d].page[k]
           D == doc[k]        D2 == doc'[k]
           w == winner[k]
<1>0. r \in Row /\ op \in Op
  BY Typed
<1>1. winner'[k] = w /\ edits' = edits
  BY DEF Rests
<1>2. Exists(r)
  BY DEF AllHonest, Honest
<1>3. Real(w) /\ w.n > 0
  <2>1. Real(w)
    BY DEF AllRanked, Winning, Under
  <2>2. w.n # 0
    BY <1>2 DEF AllFilled, Filled
  <2>3. w.n \in Nat
    BY <2>1, RealFields
  <2> QED BY <2>1, <2>2, <2>3
<1>4. r2.c = w /\ q2.st # "none" => Held(k)'
  BY <1>1 DEF Held
<1>5. D.c = w => Held(k)'
  <2>1. D.c = w => D2.c = w
    BY WinnerStays
  <2> QED BY <1>1, <2>1 DEF Held
<1>6. ASSUME NEW c, Under(c, w, edits), c.n # 0, ~LocalWins(w, c)
      PROVE  c = w
  BY <1>3, <1>6, LosesToWinner DEF Under
<1>13. w.n \in log[k] => Held(k)'
  BY <1>5 DEF AllCrowned, Crowned
<1>7. CASE Quiet(d, k)
  <2>1. QuietEntry(d, k)
    BY <1>7 DEF Quiet
  <2>2. CASE MigratedNow(d, k)
    <3>1. CASE r.c.n \in seen[d][k]
      <4>1. w.n \in log[k]
        BY <3>1 DEF AllCounted, Counted
      <4> QED BY <1>13, <4>1
    <3>2. CASE r.c.n \notin seen[d][k]
      BY <1>2, <2>2, <3>2 DEF MigratedNow, Held
    <3> QED BY <3>1, <3>2
  <2>3. ~LostRow(d, k)
    BY <1>2 DEF LostRow
  <2>4. DiscardedNow(d, k) => Held(k)'
    BY DEF DiscardedNow, Held
  <2>5. (RestsOn(d, k) \/ DiesWith(d, k) \/ ClaimedNow(d, k)
           \/ RelistedNow(d, k) \/ RetriedNow(d, k)) => q2.st # "none"
    BY DEF RestsOn, EntryRests, DiesWith, ClaimedNow, RelistedNow, RetriedNow
  <2> QED BY <1>4, <2>1, <2>2, <2>3, <2>4, <2>5 DEF QuietEntry
<1>8. CASE Queried(d, k) \/ Built(d, k) \/ Replying(d, k)
  <2>1. r2 = r /\ q2.st = q.st
    BY <1>8 DEF Queried, Built, Replying, EntryRests
  <2> QED BY <1>4, <2>1
<1>9. ~Edited(d, k)
  <2>1. edits \in Nat
    BY DEF TypeOK
  <2>2. edits + 1 # edits
    BY <2>1
  <2> QED BY <1>1, <2>2, Zenon DEF Edited
<1>10. CASE Reconciled(d, k)
  <2>1. Replied(op) /\ r2 = RowAfter(r, op)
    BY <1>10 DEF Reconciled
  <2>2. Sent(op) /\ op.st # "gone"
    <3>1. Sent(op)
      BY <2>1 DEF Replied, Sent
    <3> QED BY <3>1 DEF CloudInv, Behind
  <2>3. /\ op.st = "applied" => op.c.n \in log[k]
        /\ op.st = "conflict" => op.rc.n \in log[k]
    BY DEF CloudInv, Logged
  <2>4. CASE op.st = "conflict" /\ LocalWins(r.c, op.rc) /\ r2.c = r.c
    <3>1. q2.st # "none"
      BY <1>2, <1>10, <2>4, KeptEntry DEF KeepsLocal
    <3> QED BY <1>4, <2>4, <3>1
  <2>5. CASE op.st = "conflict" /\ ~KeepsLocal(r, op.rc)
    <3>1. ~LocalWins(w, op.rc)
      BY <1>2, <2>5 DEF KeepsLocal
    <3>2. Under(op.rc, w, edits) /\ op.rc.n # 0
      BY <2>5 DEF AllRanked, Ranked, AllFilled, Filled
    <3>3. op.rc = w
      BY <1>6, <3>1, <3>2
    <3> QED BY <1>13, <2>3, <2>5, <3>3
  <2>6. CASE op.st = "applied"
    <3>1. CASE r.c = op.c
      BY <1>13, <2>3, <2>6, <3>1
    <3>2. CASE r.c # op.c
      BY <1>2, <1>10, <2>6, <3>2 DEF Overtaken, Reconciled, ReconciledEntry, Held
    <3> QED BY <3>1, <3>2
  <2>7. CASE op.st \in {"transient", "fatal"} /\ r2.c = r.c
    <3>1. q2.st # "none"
      BY <1>10, <2>7, KeptEntry
    <3> QED BY <1>4, <2>7, <3>1
  <2> QED BY <1>0, <1>2, <2>1, <2>2, <2>4, <2>5, <2>6, <2>7, RowAfterCases
<1>11. CASE Paged(d, k)
  <2>1. p.ver > 0 /\ PagedEntry(d, k)
    BY <1>11 DEF Paged
  <2>2. CASE r2 = [r EXCEPT !.ver = p.ver] /\ q2.st = "queued"
    <3>1. r2.c = r.c
      BY <1>0, <2>2 DEF Row
    <3> QED BY <1>4, <2>2, <3>1
  <2>3. CASE ~KeepsLocal(r, p.c)
    <3>1. ~LocalWins(w, p.c)
      BY <1>2, <2>3 DEF KeepsLocal
    <3>2. Under(p.c, w, edits) /\ p.c.n # 0
      BY <2>1 DEF AllRanked, Ranked, AllFilled, Filled
    <3>3. p.c = w
      BY <1>6, <3>1, <3>2
    <3>4. p.c.n \in log[k]
      BY <2>1 DEF CloudInv, Logged
    <3> QED BY <1>13, <3>3, <3>4
  <2> QED BY <2>1, <2>2, <2>3 DEF PagedEntry
<1>12. Steps(d, k)
  BY StepCases
<1> QED BY <1>7, <1>8, <1>9, <1>10, <1>11, <1>12 DEF Steps

LEMMA HeldNext ==
  ASSUME ClocksAgree, TypeOK, CloudInv, AllHonest, AllRanked, AllFilled,
         AllCounted, AllAhead, AllCrowned, AllHeld, [Next]_vars, NEW k \in Keys
  PROVE  Held(k)'
<1>1. Held(k)
  BY DEF AllHeld
<1>2. CASE Rests
  <2>1. CASE k \in dropped
    BY <1>2, <2>1 DEF Rests, Held
  <2>2. CASE doc[k].c = winner[k]
    BY <1>2, <2>2, WinnerStays DEF Rests, Held
  <2>3. ASSUME NEW d \in Devices, row[d][k].c = winner[k], queue[d][k].st # "none"
        PROVE  Held(k)'
    BY <1>2, <2>3, HeldByDevice
  <2> QED BY <1>1, <2>1, <2>2, <2>3 DEF Held
<1>3. ASSUME NEW d \in Devices, NEW j \in Keys, NEW del \in BOOLEAN, Rewrites(d, j, del)
      PROVE  Held(k)'
  <2>1. doc' = doc /\ dropped' = dropped
    BY <1>3 DEF Rewrites
  <2>2. CASE j # k
    <3>1. winner'[k] = winner[k]
      BY <1>3, <2>2 DEF Rewrites
    <3>2. \A e \in Devices : row'[e][k] = row[e][k] /\ queue'[e][k] = queue[e][k]
      BY <1>3, <2>2 DEF Rewrites
    <3> QED BY <1>1, <2>1, <3>1, <3>2 DEF Held
  <2>3. CASE j = k
    <3> DEFINE c == NewContent(d, del)  w == winner[k]  w2 == winner'[k]
    <3>1. row'[d][k].c = c /\ queue'[d][k].st = "queued"
      BY <1>3, <2>3 DEF Rewrites
    <3>2. CASE w2 = c
      BY <3>1, <3>2 DEF Held
    <3>3. CASE w2 = w /\ w2 # c
      <4>1. w.n > 0 /\ ~LocalWins(c, w)
        BY <1>3, <2>3, <3>3, RewritesWin DEF AllRanked
      <4>2. Real(w) /\ w.n <= edits
        BY DEF AllRanked, Winning, Under
      <4>3. ASSUME NEW e \in Devices, row[e][k].c = w, queue[e][k].st # "none"
            PROVE  Held(k)'
        <5>1. CASE e # d
          <6>1. row'[e][k] = row[e][k] /\ queue'[e][k] = queue[e][k]
            BY <1>3, <5>1 DEF Rewrites
          <6> QED BY <3>3, <4>3, <6>1 DEF Held
        <5>2. CASE e = d
          <6>1. Exists(row[d][k])
            BY <4>3, <5>2 DEF AllHonest, Honest
          <6>2. w.del => del
            BY <1>3, <2>3, <4>3, <5>2, <6>1 DEF Rewrites
          <6>3. w.n = 0 \/ LocalWins(c, w)
            BY <4>2, <6>2, NewIsAbove
          <6> QED BY <4>1, <6>3
        <5> QED BY <5>1, <5>2
      <4> QED BY <1>1, <2>1, <3>3, <4>3 DEF Held
    <3>4. w2 \in {c, w}
      BY <1>3, <2>3, RewritesWin DEF AllRanked
    <3> QED BY <3>2, <3>3, <3>4
  <2> QED BY <2>2, <2>3
<1> QED BY <1>2, <1>3, EditCases

LEMMA HeldAlways == ClocksAgree /\ ~Overlap => (Spec => []AllHeld)
<1> SUFFICES ASSUME ClocksAgree, ~Overlap
             PROVE  Spec => []AllHeld
  OBVIOUS
<1>1. TypeOK /\ CloudInv /\ OpsShape /\ PullAlone /\ PagesHeld /\ LoneInv
        /\ AllHonest /\ AllRanked /\ AllFilled /\ AllAhead /\ [Next]_vars => AllAhead'
  <2> SUFFICES ASSUME TypeOK, CloudInv, OpsShape, PullAlone, PagesHeld, LoneInv,
                      AllHonest, AllRanked, AllFilled, AllAhead, [Next]_vars,
                      NEW x \in Devices, NEW j \in Keys
               PROVE  Ahead(x, j)'
    BY DEF AllAhead
  <2> QED BY StepCases, AheadNext
<1>2. TypeOK /\ AllRanked /\ AllCounted /\ AllAhead /\ AllCrowned /\ [Next]_vars
        => AllCrowned'
  BY CrownedNext DEF AllCrowned
<1>3. TypeOK /\ CloudInv /\ AllHonest /\ AllRanked /\ AllFilled /\ AllCounted
        /\ AllAhead /\ AllCrowned /\ AllHeld /\ [Next]_vars => AllHeld'
  BY HeldNext DEF AllHeld
<1>4. Spec => [](PullAlone /\ LoneInv)
  BY PullAloneAlways, LoneInvHolds, PTL
<1>5. Spec => []AllHonest
  BY HonestAlways
<1>6. Spec => [](AllRanked /\ AllCounted /\ AllFilled)
  BY RankedAlways, CountedAlways, FilledAlways, PTL
<1>7. Spec => [](OpsShape /\ PagesHeld)
  BY OpsShapeAlways, PagesHeldAlways, PTL
<1> QED BY <1>1, <1>2, <1>3, <1>4, <1>5, <1>6, <1>7, AheadInit, CrownedInit,
           HeldInit, TypeCorrect, CloudInvHolds, PTL DEF Spec

\* Once nothing is left to push for a record, and no edit of it ever went
\* astray, the cloud holds the greatest of all edits ever made to it: whatever
\* conflicts, lost replies, retries, crashes and relaunches the devices went
\* through, no edit was lost to one that should have lost to it.  The clocks
\* have to agree so far that an edit beats the content it was made on (the
\* resolver compares wall clocks), and no background task may run beside the
\* app.
THEOREM SettledIsWinner == ClocksAgree /\ ~Overlap => (Spec => []SettledMeansWinner)
<1>1. AllHeld => SettledMeansWinner
  BY DEF AllHeld, Held, SettledMeansWinner, Settled
<1>2. ClocksAgree /\ ~Overlap => (Spec => []AllHeld)
  BY HeldAlways
<1> QED BY <1>1, <1>2, PTL

(***************************************************************************)
(* What the nightly collector deletes stays deleted.                       *)
(***************************************************************************)
LEMMA GcTypeNext == TypeOK /\ [GcNext]_gcVars => TypeOK'
<1> SUFFICES ASSUME TypeOK, [GcNext]_gcVars
             PROVE  TypeOK'
  OBVIOUS
<1>1. CASE Next
  BY <1>1, TypeNext
<1>2. CASE UNCHANGED gcVars
  BY <1>2, TypeNext DEF gcVars
<1>3. ASSUME NEW k \in Keys, Collect(k)
      PROVE  TypeOK'
  <2>1. NoDoc \in Doc
    BY DEF NoDoc, Doc, NoContent, Content
  <2>2. doc' \in [Keys -> Doc]
    BY <1>3, <2>1 DEF Collect, TypeOK
  <2> QED BY <1>3, <2>2 DEF Collect, bounds, history, TypeOK
<1>4. ASSUME NEW d \in Devices, NEW k \in Keys, UpdateVanished(d, k)
      PROVE  TypeOK'
  <2>1. edits + 1 \in Nat /\ queue[d][k] \in Entry
    BY DEF TypeOK
  <2>2. queue' = [queue EXCEPT ![d][k] = Enqueued(queue[d][k], edits + 1)]
    BY <1>4 DEF UpdateVanished
  <2>3. Enqueued(queue[d][k], edits + 1) \in Entry
    BY <2>1, EnqueuedType
  <2>4. queue' \in [Devices -> [Keys -> Entry]]
    BY <2>2, <2>3 DEF TypeOK
  <2> QED BY <1>4, <2>1, <2>4 DEF UpdateVanished, cloud, history, TypeOK
<1> QED BY <1>1, <1>2, <1>3, <1>4 DEF GcNext

LEMMA GcTypeAlways == GcSpec => []TypeOK
<1>1. GcInit => TypeOK
  BY TypeInit DEF GcInit
<1> QED BY <1>1, GcTypeNext, PTL DEF GcSpec

LEMMA GcRankedNext == TypeOK /\ AllRanked /\ [GcNext]_gcVars => AllRanked'
<1> SUFFICES ASSUME TypeOK, AllRanked, [GcNext]_gcVars
             PROVE  AllRanked'
  OBVIOUS
<1>1. CASE [Next]_vars
  BY <1>1, RankedNext, WinningNext DEF AllRanked
<1>2. ASSUME NEW k \in Keys, Collect(k)
      PROVE  AllRanked'
  <2>1. /\ row' = row /\ push' = push /\ pull' = pull /\ winner' = winner
        /\ edits' = edits /\ \A j \in Keys : doc'[j] \in {doc[j], NoDoc}
    BY <1>2 DEF Collect, bounds, history, TypeOK
  <2>2. ASSUME NEW j \in Keys
        PROVE  Under(NoDoc.c, winner[j], edits)
    <3>1. Real(winner[j]) /\ edits \in Nat
      BY DEF AllRanked, Winning, Under, TypeOK
    <3>2. winner[j].n = 0 => winner[j] = NoContent
      BY <3>1, RealFields
    <3> QED BY <3>1, <3>2 DEF Under, Real, Above, NoDoc, NoContent
  <2> QED BY <2>1, <2>2 DEF AllRanked, Winning, Ranked
<1>3. ASSUME NEW d \in Devices, NEW k \in Keys, UpdateVanished(d, k)
      PROVE  AllRanked'
  <2>1. /\ row' = row /\ push' = push /\ pull' = pull /\ winner' = winner
        /\ doc' = doc /\ edits' = edits + 1 /\ edits \in Nat
    BY <1>3 DEF UpdateVanished, cloud, history, TypeOK
  <2>2. ASSUME NEW c, NEW w, Under(c, w, edits)
        PROVE  Under(c, w, edits')
    <3>1. c.n \in Nat
      BY <2>2, RealFields DEF Under
    <3> QED BY <2>1, <2>2, <3>1 DEF Under
  <2> QED BY <2>1, <2>2 DEF AllRanked, Winning, Ranked
<1>4. CASE UNCHANGED gcVars
  BY <1>1, <1>4 DEF gcVars
<1> QED BY <1>1, <1>2, <1>3, <1>4 DEF GcNext

\* A synced row, and a conflict, have the version of some document.
Versioned(x, j) ==
  /\ row[x][j].st = "synced" => row[x][j].ver > 0
  /\ push[x].ops[j].st = "conflict" => push[x].ops[j].rv > 0

AllVersioned == \A x \in Devices, j \in Keys : Versioned(x, j)

LEMMA VersionedNext ==
  ASSUME TypeOK, AllVersioned, NEW x \in Devices, NEW j \in Keys, Steps(x, j)
  PROVE  Versioned(x, j)'
<1> DEFINE r == row[x][j]     r2 == row'[x][j]
           op == push[x].ops[j] op2 == push'[x].ops[j]
<1>1. /\ op.base \in Nat /\ doc[j].ver \in Nat /\ r \in Row /\ op \in Op
  BY Typed
<1>2. /\ r.st = "synced" => r.ver > 0
      /\ op.st = "conflict" => op.rv > 0
  BY DEF AllVersioned, Versioned
<1>3. CASE Quiet(x, j)
  <2>1. /\ r2.ver = r.ver /\ r2.st \in {r.st, "pending"}
        /\ op2 = op \/ op2.st \in {"none", "claimed"}
    BY <1>3, RowStaysFields DEF Quiet, OpStays, Sent
  <2> QED BY <1>2, <2>1 DEF Versioned
<1>4. CASE Queried(x, j) \/ Built(x, j)
  <2>1. r2 = r /\ (op2 = op \/ op2.st = "sent")
    BY <1>4 DEF Queried, Built
  <2> QED BY <1>2, <2>1 DEF Versioned
<1>5. CASE Replying(x, j)
  <2>1. r2 = r /\ (op2.st = "conflict" => op2.rv = doc[j].ver /\ doc[j].ver # 0)
    BY <1>5 DEF Replying, Replies
  <2> QED BY <1>1, <1>2, <2>1 DEF Versioned
<1>6. CASE Edited(x, j)
  <2>1. r2.st = "pending" /\ op2 = op
    BY <1>6, EditedRow, Zenon DEF Edited
  <2> QED BY <1>2, <2>1 DEF Versioned
<1>7. CASE Reconciled(x, j)
  <2>1. Replied(op) /\ r2 = RowAfter(r, op) /\ op2.st = "none"
    BY <1>7 DEF Reconciled
  <2>2. CASE op.st = "gone"
    <3>1. r2.st = "absent"
      BY <2>1, <2>2 DEF RowAfter, NoRow
    <3> QED BY <2>1, <3>1 DEF Versioned
  <2>3. CASE op.st # "gone"
    <3>1. \/ op.st = "conflict" /\ r2.ver = op.rv
          \/ op.st = "applied" /\ r2.ver = op.base + 1
          \/ r2.st = "failed"
          \/ r2 = r
      BY <1>1, <2>1, <2>3, RowAfterCases
    <3> QED BY <1>1, <1>2, <2>1, <3>1 DEF Versioned
  <2> QED BY <2>2, <2>3
<1>8. CASE Paged(x, j)
  <2>1. /\ r2.ver = pull[x].page[j].ver /\ pull[x].page[j].ver > 0
        /\ op2 = op \/ op2.st = "none"
    BY <1>8, PagedRow DEF Paged
  <2> QED BY <1>2, <2>1 DEF Versioned
<1> QED BY <1>3, <1>4, <1>5, <1>6, <1>7, <1>8 DEF Steps

LEMMA GcVersionedNext == TypeOK /\ AllVersioned /\ [GcNext]_gcVars => AllVersioned'
<1> SUFFICES ASSUME TypeOK, AllVersioned, [GcNext]_gcVars,
                    NEW x \in Devices, NEW j \in Keys
             PROVE  Versioned(x, j)'
  BY DEF AllVersioned
<1>1. CASE [Next]_vars
  BY <1>1, StepCases, VersionedNext
<1>2. CASE \/ \E k \in Keys : Collect(k)
           \/ \E d \in Devices, k \in Keys : UpdateVanished(d, k)
  BY <1>2 DEF Collect, UpdateVanished, AllVersioned, Versioned
<1>3. CASE UNCHANGED gcVars
  BY <1>1, <1>3 DEF gcVars
<1> QED BY <1>1, <1>2, <1>3 DEF GcNext

\* After a collection a device has the record as a delete that the cloud
\* once had, and sends nothing the cloud would take.
Buried(x, j) ==
  LET r == row[x][j]  op == push[x].ops[j] IN
  /\ winner[j].n # 0
  /\ Exists(r) => r.c.del /\ r.ver > 0
  /\ op.st \notin {"applied", "conflict"}
  /\ op.st = "sent" => op.base > 0
  /\ ~(pull[x].page[j].ver > 0)

GoneForGood(j) == doc[j].ver = 0 /\ \A x \in Devices : Buried(x, j)

AllGone == \A j \in collected : GoneForGood(j)

LEMMA WinnerKnown ==
  ASSUME TypeOK, [Next]_vars, NEW j \in Keys, winner[j].n # 0
  PROVE  winner'[j].n # 0
<1>1. CASE Rests
  BY <1>1 DEF Rests
<1>2. ASSUME NEW d \in Devices, NEW k \in Keys, NEW del \in BOOLEAN, Rewrites(d, k, del)
      PROVE  winner'[j].n # 0
  <2>1. CASE j # k
    BY <1>2, <2>1 DEF Rewrites
  <2>2. CASE j = k
    <3>1. winner'[k] \in {NewContent(d, del), winner[k]}
      BY <1>2 DEF Rewrites, Best, Resolve
    <3>2. NewContent(d, del).n # 0
      BY NewIsMade, MadeFields
    <3> QED BY <2>2, <3>1, <3>2
  <2> QED BY <2>1, <2>2
<1> QED BY <1>1, <1>2, EditCases

\* No device makes up the id of a record that exists or existed.
LEMMA NoSecondCreate ==
  ASSUME SharedIds = {}, TypeOK, [Next]_vars, NEW x \in Devices, NEW j \in Keys,
         winner[j].n # 0, Edited(x, j)
  PROVE  Exists(row[x][j])
<1>1. edits' # edits
  BY DEF Edited, TypeOK
<1>2. PICK d \in Devices, k \in Keys, del \in BOOLEAN : Rewrites(d, k, del)
  BY <1>1, EditCases DEF Rests
<1>3. CASE x = d /\ j = k
  BY <1>2, <1>3 DEF Rewrites
<1>4. CASE x # d \/ j # k
  <2>1. row'[x][j] = row[x][j]
    BY <1>2, <1>4 DEF Rewrites
  <2> QED BY <2>1, EditedRow
<1> QED BY <1>3, <1>4

LEMMA GoneNext ==
  ASSUME SharedIds = {}, TypeOK, [Next]_vars, NEW j \in Keys, GoneForGood(j)
  PROVE  GoneForGood(j)'
<1>1. doc'[j] = doc[j]
  <2>1. ASSUME NEW d \in Devices, Taken(push[d].ops[j], j)
        PROVE  FALSE
    <3>1. push[d].ops[j].base = doc[j].ver /\ push[d].ops[j].st = "sent"
      BY <2>1 DEF Taken
    <3> QED BY <3>1 DEF GoneForGood, Buried
  <2> QED BY <2>1, DocSteps
<1>2. ASSUME NEW x \in Devices
      PROVE  Buried(x, j)'
  <2> DEFINE r == row[x][j]     r2 == row'[x][j]
             op == push[x].ops[j] op2 == push'[x].ops[j]
             p == pull[x].page[j] p2 == pull'[x].page[j]
  <2>1. r \in Row /\ op \in Op /\ doc[j].ver = 0
    BY Typed DEF GoneForGood
  <2>2. /\ winner[j].n # 0
        /\ Exists(r) => r.c.del /\ r.ver > 0
        /\ op.st \notin {"applied", "conflict"}
        /\ op.st = "sent" => op.base > 0
        /\ ~(p.ver > 0)
    BY DEF GoneForGood, Buried
  <2>3. winner'[j].n # 0
    BY <2>2, WinnerKnown
  <2>4. Steps(x, j)
    BY StepCases
  <2>5. ~(p2.ver > 0)
    <3>1. p2 = p \/ p2 = NoDoc \/ p2 = doc[j]
      BY <2>4, Zenon DEF Steps, Quiet, Queried, Built, Replying, Edited, Reconciled, Paged,
         PageStays
    <3> QED BY <2>1, <2>2, <3>1 DEF NoDoc
  <2>6. ~Paged(x, j)
    BY <2>2 DEF Paged
  <2>7. Exists(r2) => r2.c.del /\ r2.ver > 0
    <3>1. CASE Quiet(x, j)
      BY <2>2, <3>1, RowStaysFields DEF Quiet
    <3>2. CASE Queried(x, j) \/ Built(x, j) \/ Replying(x, j)
      BY <2>2, <3>2 DEF Queried, Built, Replying
    <3>3. CASE Edited(x, j)
      <4>1. Exists(r)
        BY <2>2, <3>3, NoSecondCreate
      <4>2. PICK del \in BOOLEAN :
              /\ r.c.del => del
              /\ r2.c = NewContent(x, del) /\ r2.ver = r.ver
        BY <3>3, <4>1, EditedRow
      <4>3. NewContent(x, del).del = del
        BY NewIsMade
      <4>4. r2.c.del
        BY <2>2, <4>1, <4>2, <4>3, Zenon
      <4> QED BY <2>2, <4>1, <4>2, <4>4
    <3>4. CASE Reconciled(x, j)
      <4>1. Replied(op) /\ r2 = RowAfter(r, op)
        BY <3>4 DEF Reconciled
      <4>2. CASE op.st = "gone"
        BY <4>1, <4>2 DEF RowAfter, NoRow, Exists
      <4>3. CASE op.st # "gone"
        <5>1. \/ Exists(r) /\ r2.c = r.c /\ r2.ver = r.ver
              \/ r2 = r
          BY <2>1, <2>2, <4>1, <4>3, RowAfterCases
        <5> QED BY <2>2, <5>1
      <4> QED BY <4>2, <4>3
    <3> QED BY <2>4, <2>6, <3>1, <3>2, <3>3, <3>4 DEF Steps
  <2>8. op2.st \notin {"applied", "conflict"} /\ (op2.st = "sent" => op2.base > 0)
    <3>1. CASE Built(x, j)
      <4>1. op2.st = "sent" /\ op2.base = r.ver /\ Exists(r)
        BY <3>1 DEF Built
      <4> QED BY <2>2, <4>1
    <3>2. CASE Replying(x, j)
      <4>1. op.st = "sent" /\ Replies(op, op2, j)
        BY <3>2 DEF Replying
      <4>2. ~Taken(op, j)
        BY <2>1, <2>2, <4>1 DEF Taken
      <4>3. op2.st \in {"transient", "fatal", "gone"}
        BY <2>1, <4>1, <4>2 DEF Replies
      <4> QED BY <4>3
    <3>3. CASE ~Built(x, j) /\ ~Replying(x, j)
      <4>1. op2 = op \/ op2.st \in {"none", "claimed"}
        BY <2>4, <3>3, Zenon DEF Steps, Quiet, Queried, Edited, Reconciled, Paged, OpStays, Sent
      <4> QED BY <2>2, <4>1
    <3> QED BY <3>1, <3>2, <3>3
  <2> QED BY <2>3, <2>5, <2>7, <2>8 DEF Buried
<1> QED BY <1>1, <1>2 DEF GoneForGood

LEMMA AllGoneNext ==
  ASSUME Retained, SharedIds = {}, TypeOK, AllRanked, AllVersioned, AllGone,
         collected \subseteq Keys, [GcNext]_gcVars
  PROVE  AllGone' /\ collected' \subseteq Keys
<1>1. CASE [Next]_vars /\ collected' = collected
  BY <1>1, GoneNext DEF AllGone
<1>2. ASSUME NEW k \in Keys, Collect(k)
      PROVE  AllGone' /\ collected' \subseteq Keys
  <2>1. /\ row' = row /\ push' = push /\ pull' = pull /\ winner' = winner
        /\ doc' = [doc EXCEPT ![k] = NoDoc] /\ collected' = collected \cup {k}
        /\ doc[k].c.del /\ \A d \in Devices : CaughtUp(d, k)
    BY <1>2 DEF Collect, history
  <2>2. doc'[k].ver = 0 /\ \A j \in Keys \ {k} : doc'[j] = doc[j]
    BY <2>1 DEF TypeOK, NoDoc
  <2>3. ASSUME NEW x \in Devices
        PROVE  Buried(x, k)'
    <3>1. /\ row[x][k].st = "synced" /\ row[x][k].c = doc[k].c
          /\ push[x].ops[k].st = "none" /\ k \notin OnPage(x)
      BY <2>1 DEF CaughtUp
    <3>2. row[x][k].ver > 0
      BY <3>1 DEF AllVersioned, Versioned
    <3>3. Under(doc[k].c, winner[k], edits)
      BY DEF AllRanked, Ranked
    <3>4. doc[k].c.n # 0
      <4>1. Real(doc[k].c) /\ ~NoContent.del
        BY <3>3 DEF Under, NoContent
      <4> QED BY <2>1, <4>1, RealFields
    <3>5. winner[k].n # 0
      <4>1. Above(winner[k], doc[k].c)
        BY <3>3 DEF Under
      <4> QED BY <3>4, <4>1 DEF Above
    <3> QED BY <2>1, <3>1, <3>2, <3>5 DEF Buried, OnPage
  <2>4. ASSUME NEW j \in collected, j # k
        PROVE  GoneForGood(j)'
    BY <2>1, <2>2, <2>4 DEF AllGone, GoneForGood, Buried
  <2> QED BY <2>1, <2>2, <2>3, <2>4 DEF AllGone, GoneForGood
<1>3. ASSUME NEW d \in Devices, NEW k \in Keys, UpdateVanished(d, k)
      PROVE  AllGone' /\ collected' \subseteq Keys
  BY <1>3 DEF UpdateVanished, cloud, history, AllGone, GoneForGood, Buried
<1>4. CASE UNCHANGED gcVars
  BY <1>1, <1>4 DEF gcVars
<1> QED BY <1>1, <1>2, <1>3, <1>4 DEF GcNext

\* A tombstone that is collected once every device has pulled it never comes
\* back: a device that edits or pushes the record afterwards is told that it
\* is gone, and whatever it still shows of it is a delete.  The ids must not
\* be made up twice: a shared id, as the salon row has, could be created again.
THEOREM CollectedIsGone ==
  Retained /\ SharedIds = {} => (GcSpec => []CollectedStaysDeleted)
<1> SUFFICES ASSUME Retained, SharedIds = {}
             PROVE  GcSpec => []CollectedStaysDeleted
  OBVIOUS
<1> DEFINE GcInv == AllRanked /\ AllVersioned /\ AllGone /\ collected \subseteq Keys
<1>1. GcInit => GcInv
  <2>1. Init => AllVersioned
    BY DEF Init, AllVersioned, Versioned, NoRow, IdlePush, NoOp
  <2> QED BY <2>1, RankedInit DEF GcInit, AllGone
<1>2. TypeOK /\ GcInv /\ [GcNext]_gcVars => GcInv'
  BY GcRankedNext, GcVersionedNext, AllGoneNext
<1>3. GcInv => CollectedStaysDeleted
  BY DEF AllGone, GoneForGood, Buried, CollectedStaysDeleted
<1> QED BY <1>1, <1>2, <1>3, GcTypeAlways, PTL DEF GcSpec

=============================================================================
