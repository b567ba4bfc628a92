# Formal model of Salon Khata

Salon Khata is an offline-first React Native app for salon owners: every write
goes to SQLite on the phone, a sync engine exchanges rows with Firestore, a
manual backup uploads the whole encrypted database, and cloud functions grant
subscriptions, pay referral rewards and collect old tombstones. This directory
holds TLA+ modules of it, TLC runs over small instances of them, and proofs of
their safety properties for every instance.

Paths below are relative to the repository (`src/sync/...` is the app,
`functions/src/...` the cloud functions).

**The most important results** are three violations: every start of the app drops
the queue of pushes it still owes, an edit made while its row is being pushed is
taken for pushed, and the transaction that grants a payment reads after it has
written, which the server SDK refuses (section 6). The other modules and
properties describe what the code does beside that.

## 1. The system

| Part | State it keeps | Operations | Talks to |
| --- | --- | --- | --- |
| Bill entry (`features/income`) | a form: lines, staff, discount, customer, payment; copies of staff, price list and rules | every tap, hydration of an edit, save | repositories, entitlements |
| Other forms (`features/expenses`, `advances`, `customers`, `services`) | a form filled once, a loaded list, a detail sheet | fill, edit, save, quick actions | repositories |
| Repositories, change tracker (`src/repositories`, `sync/change-tracker.ts`) | business rows with `sync_status`, `sync_version`, `updated_at/by` | create, update, soft delete, each with `trackChange` and `markDirty` in one SQLite transaction | push queue, dirty flag, event bus |
| Dashboard and reports (`domain/report-service.ts`, screens) | none | sums over headers, sums over lines | repositories |
| Push queue (`queue-manager.ts`) | `sync_queue`: one entry per record, `queued / processing / dead`, attempts, backoff | claim, success, failure, reopen, orphan reset | sync service, status screen |
| Sync service (`sync-service.ts`) | `pushInFlight`, `pullInFlight`, cursors in `sync_state` | `pushOnce`, `pullOnce`, reconcile, apply page | queue, adapter, resolver |
| Conflict resolver (`conflict-resolver.ts`) | none | `resolve` | sync service |
| Firestore adapter (`firestore-sync-api.ts`) | the documents, their `_sync.version` and server stamp | optimistic transaction per op, page query | Firestore |
| Sync scheduler (`sync-scheduler.ts`) | `currentRun`, pending rerun, debounce, periodic, drain | start, stop, triggers | sync service, AppState, network |
| Background task (`background-sync-task.ts`) | none | migrations, push and pull beside the scheduler | sync service |
| Tombstone collector (`functions/src/index.ts`) | none | nightly delete of old tombstones | Firestore |
| Backup (`src/backup`, `src/cloud`, `db-meta.ts`) | dirty flag and counter, `inFlight`, cancel token; cloud lock, index, blobs | `runNow`, `runBackupOnce`, lock, commit, upload | AuthProvider, Firestore, Storage |
| Session (`features/auth`, `features/onboarding`, `src/session`) | Firebase's cached user, the session, the current and the stored salon, the code being verified | sign-in, splash timeout, resolve, onboarding's Finish, sign-out | both schedulers, subscription provider |
| Entitlements (`domain/subscription`, `features/subscription`) | subscription rows by date | trial bootstrap, `getLatest`, `evaluate` | screens, sync |
| Billing and referrals (`functions/src/razorpay`, `functions/src/*referral*`, `cloud/razorpay-billing.ts`) | billing state, windows, payment and event markers, referrals, rewards, request documents | webhook, verify, record, grant, cancel, expire, claim | Razorpay, Firestore, the app |

What is hard in it:

* **Awaits.** JavaScript runs one handler at a time, but `pushOnce`,
  `pullEntity`, `runCycle`, `runBackupOnce` and every cloud function wait for
  the network; edits, other cycles, sign-outs and other deliveries run
  meanwhile. What was read before an await is used after it.
* **Stale forms.** A form is filled once; rows, prices, rules, staff and the
  subscription change under it, by a pull that reloads nothing.
* **Several durable writes.** The row and its queue entry after a push, a page
  and its cursor, the steps of onboarding's Finish, an event's marker and its
  grant are written separately; the process may die between them.
* **Lost answers and redelivery.** A transaction may commit and its answer be
  lost; Razorpay and Firestore triggers deliver one report many times, at once.
* **Several devices** write the same record offline, with skewed clocks, and
  delete what another edits.
* **Leftovers** of a stopped scheduler, an abandoned verification, an expired
  lease, an onboarding cut short.

`PROJECT.json` lists each hazard at its line with the properties aimed at it.

## 2. Modules

| Module | Models | Follows |
| --- | --- | --- |
| `ConflictResolver` | `resolve()` as operators over contents (write identity, author, stamp, tombstone) | conflict-resolver.ts |
| `ResolverOrder` | replicas that meet the same concurrent edits in different orders and on either side of `resolve` | the two callers in sync-service.ts |
| `SyncEngine` | rows, queues, cursors, pushes, pulls, the Firestore documents, crashes, relaunches, the status screen; extends `ConflictResolver` | change-tracker, queue-manager, sync-service, firestore-sync-api, deserializer, migrations |
| `CloudRecord` | what the cloud copy promises: an abstract register per key | specification only |
| `TombstoneGc` | `SyncEngine` composed with the collector and with late edits of vanished rows | functions/src/index.ts |
| `SyncScheduler` | triggers, timers, coalescing, draining, start and stop on one device | sync-scheduler.ts |
| `Backup` | attempts of several devices, dirty flag, lock, index, storage | backup-pipeline, backup-scheduler, db-meta, device-lock, backup-index |
| `Billing` | payments, their reports, markers, grants, rewards, endings, referral claims, and what the app is told | functions/src, cloud/razorpay-billing.ts |
| `Bills` | the bill form, prices, commissions, customers, the stored bills and the reports | features/income, commission-service, income-repository, report screens |
| `Records` | expenses, advances, customers and services: list, sheet, form, row | their screens and repositories |
| `Session` | who is signed in and what runs because of it; onboarding; subscription windows on the device | AppRoot, AuthProvider, auth and onboarding screens, session-storage, evaluate, SubscriptionProvider |
| `ResolverOrderProofs`, `BackupProofs`, `SyncSchedulerProofs`, `BillingProofs`, `BillsProofs`, `RecordsProofs`, `SessionProofs` | the theorems of the module each is named after | |
| `SyncProofs` | the theorems of `SyncEngine` and `TombstoneGc`: the queue of a device, then devices, cloud and collector together | |
| `MC_*` | values of constants for TLC | |

**SyncEngine.** A record's business data is one *content*, identified by the
write that made it, so that the model can say which write won. `row[d][k]`
carries content, status and version; `queue[d][k]` is the unique entry of the
record. `push[d]` is the `pushOnce` in flight: `build` and `reconcile` are the
synchronous stretches in which no other handler of the device runs (`CanRun`),
`await` is the await. `CycleStart` claims, `PushBuild` builds a group's ops from
the live rows, `CloudApply / CloudReject / CloudFault / CloudLoseReply` are the
outcomes of `runOccWrite`, `PushReply` ends the await and `Reconcile` handles one
answer with both of its durable writes; `CrashInReconcile` is the process death
between them. `PullQuery`, `PullApply`, `PullFail` and `CrashInPull` do the same
for a page. A commit may get the stamp of another one that runs at once, unless a
query was answered in between (`Stored`, with `asked`). `Launch` is the cold start:
the migrations (`Migrated`), which drop the queue, before `resetOrphanedProcessing`,
which finds nothing; `BackgroundMigrates` is the same migrations run by a background
task (counted with the crashes), and `SignInAgain` a start of the scheduler within
one process, where claimed entries are put back while their push still waits.
`Retry` and `Discard` act on the list the screen loaded earlier. A row may be edited
at any await, its own op in flight included.

History variables are read by properties only, but for two guards that ask whether an
id was ever made up (`winner`) or shown (`seen`): `log`, `seen` and `winner`; `stray`,
the records whose last edit on a device went astray, because the user discarded it,
the migrations dropped its entry, or the answer to an older op was taken for its own
(`Overtaken`); `dropped` and `discarded`, the records any edit of which ever did; and
`tied`, the documents that share a stamp with another of their collection. A
property that names one of them says in which case the code breaks the plain
promise; section 6 has the plain promises and their violations.

One switch is left: `Overlap`, under which the OS runs the background tasks beside a
cycle of the app, as background-sync-task.ts:69 and backup/background-task.ts:53
permit. It is on in `sync_paging` and off in the other runs of `SyncEngine`; section 6
says what it breaks, and section 4 which theorems hold with it.

**SyncScheduler.** Of a trigger only its membership in `PULL_TRIGGERS` matters
to a cycle, so a rerun or drain is "push" or "full". A push and a pull are one
await each, taking `Batch` ready rows and whatever the cloud holds. Slots name
the cycles in flight: `current` is the tracked one, and `stop()` may leave others
running. `Finish` is the end of `runCycle` with `scheduleDrain` and `attempt`'s
finally.

**Backup.** Each attempt sends four requests (lock, key, metadata, upload);
the cloud's step and the device's continuation are separate actions, so anything
may fall between. `holds` is the number of local writes in the snapshot, `count`
the counter compared by `clearDirtyIfUnchanged`. A failed or cancelled stage ends
the attempt through `End`, the pipeline's finally.

**Billing.** A *job* is one report of a payment or of an end: a webhook event, a
call of `recordPaidSubscription`, or one delivery of a verify request. It walks
through the stages of its handler (`marked`, `resolved`, `read`, `granted`), one
database call each; a job that throws or dies goes back to idle, with its marker
deleted or not. `Read` is what `grantPaidSubscription` takes before its transaction,
its time (`at`, the code's `nowIso`) included, and `GrantTx` the transaction.
Firestore retries a transaction until its reads are current, so it is one step; what
was taken outside it may be stale: a window that follows on none starts at `at`,
while the end of the last one is compared with the time of the transaction
(`Start`). `LateReads` says whether a transaction may read after it has written. The
code does so and the server SDK refuses it: with it `FALSE` every grant throws
(`Refused`), which is the run `grant_reads_late`; the run `billing_grants` takes
`TRUE`, to check everything else the code says about grants. Clients wait by polling,
and what they told the owner is `told`.

**Bills.** `form` is the screen: the copies it loaded (`staff`, `offers`,
`listed`), what was typed, and `items`, one line per service with the price and
rule it was priced with. `Priced` is the recalculation that some taps make and
others do not. `Save` and `SaveFromSheet` share `SaveBill`: the owner's row, the
customer, the header and the lines, in the code's order with its separate
transactions. Report operators (`Income`, `Split`, `CommissionOf`, `RevenueOf`,
`RevenueOfService`) are the queries.

**Records.** One kind of record per behaviour. `shown` is the list as loaded,
`sheet` the row the detail sheet loaded, `form` the fields with `was`, what it was
filled from. Pulls change rows and reload nothing. Midnight passes over open forms
as well: the screen holds a date, so what was today's is so no longer (`DayPasses`).

**Session.** `fb` is the user Firebase has, `events` the auth states it still has
to hand over, `app` what AuthProvider holds; `Resolve` is `resolveSalonFor` and
routes the screens; a trial that cannot be made at the sign-in is caught and the
user let in without it (`LetIn`). `writes` are the AsyncStorage calls not carried
out. `otp.busy` is `submitting` and `otp.seen` what of it is rendered: between the two
a change of the code still counts, so a second verification can be sent beside the
first; `late` counts, for each account, those that outlive their screen. `Finish`
commits three groups of transactions, of which a death or an exception keeps the
first ones. The sync cycle is one exchange of subscription rows.

**CloudRecord** is implemented by `SyncEngine` under the mapping
`record <- [k \in Keys |-> doc[k].c]`; `log` and `seen` map to themselves.

## 3. Runs

| Run | Instance | Question |
| --- | --- | --- |
| `sync_cloud` | 2 devices, 1 record, 3 edits and 1 after the collection, 1 fault, 2 attempts, 1 collection | do settled devices agree on the winner; is an edit lost to a loser; are deletes kept, after their collection too; does the cloud copy implement `CloudRecord`? |
| `sync_paging` | 3 records of 2 types, pages of 1, 2 edits, 1 crash or run of the migrations; background task on | is a row wrongly called synced but for an overtaken edit, does a cursor skip a change but at a tie, or a group leave a claim? |
| `sync_liveness` | 2 edits, an id both devices create, 1 crash, 1 fault | does a row that owes a write lose its entry in any but the known ways, do settled devices hold what the cloud holds, and does everything settle? |
| `scheduler_cycles` | 2 salons, 3 slots, 2 starts, 2 writes, 1 fault, 1 network loss, batches of 1 | does the app catch up whatever was coalesced or left behind? |
| `backup_attempts` | 2 devices, 2 versions, 2 writes, one each of fault, expiry, sign-out, crash | does a clear flag mean a backup, and does the lock hold? |
| `billing_grants` | 2 salons, 1 subscription, 2 payments, webhook, two deliveries of verify, administrator, failed charge, cancellation, 2 claims by both paths, 2 days, 1 fault or death | one window and one reward per payment, one referral per salon, windows that stack, and an app that tells the truth? |
| `ledger` | 3 staff, 2 services, 2 bills, 2 customers, 1 phone, 2 taps, 3 saves, 1 change elsewhere | do stored bills and reports agree and stay what they were? |
| `records` | 2 rows, 2 parties, 2 phones, 4 taps, 2 changes elsewhere; each of the four kinds | do stale forms, sheets and lists spoil records? |
| `session` | 2 accounts, 2 codes, 2 verifications, 1 grant, 3 days, 2 mishaps (kill, fault, failed trial, revocation, wipe) | does everything follow the session, and does the user get in? |
| `relaunch_drops_queue` | 2 devices, 1 record, 2 edits, 1 crash | `UnsyncedIsQueued` is violated: section 6 |
| `edit_in_flight` | 2 devices, 1 record, 2 edits | `SyncedIsAcked` is violated: section 6 |
| `grant_reads_late` | 1 payment, 1 event, 1 verify request, no fault, `LateReads = FALSE` | `PaidIsGranted` is violated: section 6 |

**Properties.** Each passing run's properties have a mutant, a plausible change of
the code (an untracked write, a page of the newest records, a dropped guard, a
line that is not priced again) under which TLC finds that property violated.

| Run | Properties |
| --- | --- |
| `sync_cloud` | `SettledMeansWinner`, `NoEditLostToALoser`, `TombstonesStick`, `ImplementsCloudRecord`, `CollectedStaysDeleted` |
| `sync_paging` | `SyncedIsAckedOrStray`, `NoChangeSkipped`, `NoOrphanWhileIdle` |
| `sync_liveness` | `UnsyncedIsCarried`, `SettledMeansConverged`, `EventuallyConverges` |
| `scheduler_cycles` | `NoMoreCyclesThanStarts`, `RerunIsServed`, `CatchesUp` |
| `backup_attempts` | `CleanMeansBackedUp`, `BlobHasMetadata`, `LeaseHolderUploads` |
| `billing_grants` | `OneGrantPerPayment`, `WindowsStack`, `RewardsAreEarned`, `OneReferralPerSalon`, `ToldIsGranted` |
| `ledger` | `ReportsAgree`, `CommissionExplained`, `CreditIsCollectable`, `OwnerIsUnique`, `UntouchedEditKeepsMoney`, `LockHolds` |
| `records` | `OnePhoneEach`, `OnlyStaleFormsReopen`, `GoneStaysGone`, `EditKeepsTheRest` |
| `session` | `SessionOnly`, `StoredFollowsSession`, `SeededOnce`, `OpenWindowIsHonoured`, `GetsIn` |

**Bounds.** Every bound is a constant named `Max...` and guards one kind of step.
Two devices suffice for each pair of conflicting writers; three edits give a
device's write, a concurrent one and one made after their resolution, so that a
kept local edit is pushed again over another; the second device's clock is one
edit behind, so stamps of edits tie. In `sync_cloud` the second edit may be made while
the first one's op is in flight and the third after it went astray. The collection
waits for every device to have pulled the tombstone (`Retained`); the constraint
`FourthIsLate` keeps a fourth edit for a collected record, so that a late edit is pushed
and refused, the row vanishes, and a screen still open on it edits once more. `PageSize = 1` puts a page boundary between any two
records, `MaxAttempts = 2` reaches both a retry and a dead letter. In the
scheduler `Batch = 1` with two writes makes a push report more work, `MaxDrain = 1`
reaches the cap, two starts and three slots let a left-behind cycle meet a new
one, and `MaxTimers = 1` merges drains of one kind that are outstanding together.
In billing two payments make a renewal, and three jobs of one payment every race
between a read and a transaction; the constraint `OneKind` keeps two kinds of
behaviours, those in which a code is claimed, days pass and the next payment comes,
and those in which a delivery is doubled, fails or is stopped, a charge is declined
or the subscription ends. A bill needs two taps for one that prices and
one that does not, two saves for an edit and one more for a second bill; prices,
costs and rates are chosen so that every rounding and every gender falls back
once. Days, windows and grace of one make trial, window and grace meet on each
boundary. Two mishaps let an onboarding be cut short and then a process die.

**Symmetry** is used where the permuted values occur in no ordering or choice:
backup devices, bills and customers, rows and parties; never beside a liveness
property. `AnnFirst` in `MC_Session` fixes which of two interchangeable accounts
gets the first code. `FirstEdit` in `MC_SyncEngine` does the same for the first edit of
`sync_paging`: devices differ in their clock and in their rank at a tie, and records of
one type in their order at a tie, neither of which that run asks about.

`CHECK_DEADLOCK FALSE` appears where the system may come to rest: an app that is
signed out, a backup nobody asks for, forms nobody taps, payments that are all
made. `SyncEngine` never rests, since a cycle can always start, and is checked
for deadlock.

**Fairness.** Only weak fairness is used, for steps that stay enabled until they
happen. `SyncEngine`: a push or pull that started runs on, the backend answers,
the periodic timer starts cycles that pull (sync-scheduler.ts:340-346), backoffs
end, and a dead process is launched again. `SyncScheduler`: cycles in flight end,
and the periodic, debounce, drain and rerun timers fire; `CatchesUp` assumes in
its premise that the app eventually stays signed in, in front and online.
`Billing` (only in `grant_reads_late`): Razorpay redelivers what was not answered with
200, and a handler that runs goes on or is refused. `Session`: a boot ends one way or the other, Firebase reports what
it has cached, the JavaScript thread runs what is queued. Nothing is assumed of
edits, taps, crashes, faults, lifecycle or network.

## 4. Proofs

Checked by TLAPS for every value of the constants, under the assumptions named
beside them: install ids are positive numbers, the records are finitely many,
sizes are positive, bounds are naturals, and the values that stand for "nothing"
are none of the things they stand beside. The hypotheses of the theorems are explained below.

| Theorem | States | Argument |
| --- | --- | --- |
| `ResolverOrderProofs!OrderIndependence` | `[]SameEditsSameContent` | `Greatest`: a replica holds one of the edits it met, and none of those beats it; `LocalWins` is asymmetric, transitive and total on distinct edits, so the greatest is unique |
| `ResolverOrderProofs!DeletesAreKept` | `[]DeleteIsKept` | a delete is greater than any live edit |
| `SyncProofs!TypeCorrect` | `[]TypeOK` | inductive; one lemma per statement on a row, an entry or an op, then one step per action |
| `SyncProofs!NoOrphan` | `[]NoOrphanWhileIdle` | `ClaimsHeld`: a processing entry belongs, by its id, to the op in flight for its record. The id is needed: an entry may be discarded, or dropped by the migrations, and enqueued anew while the op of the old one is answered. `OpsShape` ties the ops to the stage of the push. No hypothesis. |
| `SyncProofs!UnsyncedCarried` | `~Overlap => []UnsyncedIsCarried` | `AllCarried`: the row of an op in flight is carried too, or an error answer would leave a failed row without an entry; `PullAlone`: without the background task no page is applied beside a push |
| `SyncProofs!NothingSkipped` | `[]NoChangeSkipped` | `CursorInv`: documents of one collection share a stamp only if they are in `tied` (`Tied`), no cursor is ahead of the last query and no later commit is stamped at or before it (`Stamped`), a fetched page holds, as it is now, every untied document between the cursor and any record of the page (`PageCovers`), and what the cursor has passed was shown. No hypothesis; the exception is in the property. |
| `SyncProofs!SyncedRowsAreAcked` | `[]SyncedIsAckedOrStray` | `AllKnown`: an answer stamps the content its op carried, which it acknowledges, or a later one, which goes astray there. No hypothesis. |
| `SyncProofs!EditsLoseToBetter` | `NoEditLostToALoser` | `AllOwned`: a content that was neither shown nor acknowledged has a queue entry or is astray, so every answer and every page asks the resolver before the row is replaced. No hypothesis; the exceptions are in the property. |
| `SyncProofs!TombstonesAreKept` | `~Overlap => TombstonesStick` | `LoneInv`: the op in flight is about the version its row has and a page is never older than the row (`InStep`), and a row or op at the version of a tombstone is a delete itself (`Mourned`) |
| `SyncProofs!CloudImplements` | `~Overlap => ImplementsCloudRecord` | step by step, from `LoneInv` and `CloudInv`: a commit is `CloudRecord`'s write, because the content behind the version an op is based on was seen by its device; an answer or a page is its showing of what was held; everything else stutters |
| `SyncProofs!SettledAgree` | `~Overlap => []SettledMeansConverged` | `AllCounted` (what was shown is or was in the cloud), `AllHonest` (what is dead, listed or astray is an edit the cloud has not acknowledged, and an op carries the row as it is or as it was before such an edit), `AllAgreed` (equal versions mean equal contents, or the row owes an edit or is astray), `AllCaught` (a row has the version of what the cursor has passed, but for ties) |
| `SyncProofs!SettledIsWinner` | `ClocksAgree /\ ~Overlap => []SettledMeansWinner` | `AllRanked` (every content in use is under the winner), `AllAhead` (a row or op about the version of the document stands above its content), `AllCrowned` (a winner that is or was in the cloud is what the cloud holds), `AllHeld` (the winner is in the cloud, or in a row whose entry will carry it, unless an edit of the record ever went astray) |
| `SyncProofs!CollectedIsGone` | `Retained /\ SharedIds = {} => []CollectedStaysDeleted` of `GcSpec` | `AllGone`: what a device still has of the record is a delete with a version (`Buried`; `AllVersioned`: a synced row has one), so all it can send is an update, which the cloud refuses for want of the document |
| `SyncSchedulerProofs!SchedulerTypeCorrect` | `[]TypeOK` | inductive |
| `SyncSchedulerProofs!CyclesAreBounded` | `[]NoMoreCyclesThanStarts` | `CycleInv`: the cycles nobody tracks, and one more while signed in, are at most the starts; a start or a stop leaves one behind at most, and the end of one that untracks another is one less itself |
| `SyncSchedulerProofs!RerunsAreServed` | `[]RerunIsServed` | the same invariant: what is tracked is alive, and a trigger is only remembered beside a tracked cycle |
| `BackupProofs!TypeCorrect` | `[]TypeOK` | inductive |
| `BackupProofs!CleanIsBackedUp` | `[]CleanMeansBackedUp` | `Prepared`: what an attempt knows at each stage: the counter it read is at most what its snapshot holds, its version id names that snapshot, and from the upload on the metadata exists. The flag is cleared when counter and snapshot still agree, so the stored version is the witness. |
| `BackupProofs!NoBareBlob` | `[]BlobHasMetadata` | from the same invariant |
| `BackupProofs!LeaseIsExclusive` | `[]LeaseHolderUploads` | `LeaseInv`: a lease that lasts makes its device the owner of a live lock |
| `BillingProofs!GrantedOnce` | `[]OneGrantPerPayment` | `BillingInv`: a window of a payment has its key in `processed` and no key is there twice (`AccountsKnown`); what a job has read before its transaction is still true enough (`JobsKnow`, `MappingKnows`) |
| `BillingProofs!WindowsAreStacked` | `[]WindowsStack` | `LedgerInv` (`Stacked`): `billing/state` names the last row and its end, and each window starts where the one before it ended, or was written when that was over |
| `BillingProofs!RewardsFollowPayments` | `[]RewardsAreEarned` | `LedgerInv`: a rewarded window names a claim and a processed payment of the salon that was referred (`GrantsKnow`), and a count is at most the grants there are (`CountsCovered`) |
| `BillingProofs!ReferredOnce` | `[]OneReferralPerSalon` | `InvitesOK`: a salon with a referral is marked as claimed, and both paths look at the mark inside their transaction |
| `BillingProofs!ToldTruly` | `[]ToldIsGranted` | `ToldInv`: a request succeeds only for a payment that is processed, and processed payments stay |
| `BillsProofs!OneOwner` | `[]OwnerIsUnique` | `OwnersInv`: a save makes an owner's row only where none is known, and no other step sets the flag |
| `BillsProofs!CommissionIsExplained` | `[]CommissionExplained` | `BillsInv` and `FormInv`: the lines of the form and of every bill earn what the rule they were priced with says, since each step that changes a price, a quantity or an employee prices anew |
| `BillsProofs!ReportsAlwaysAgree` | `[]ReportsAgree` | `BillsInv`: a header is the sum of the lines stored with it, and deleted lines have a deleted header. The figures of headers and items are then one sum over the joined lines, split by bill, employee, service or mode (`SumByClass`, `SumRenamed`) |
| `BillsProofs!UntouchedEdits` | `UntouchedEditKeepsMoney` | `Unpriced`: an edit that was not repriced holds price, quantity and commission of every line of its bill, and its discount, or no line at all, and then it cannot be saved |
| `BillsProofs!LockIsKept` | `LockHolds` | `BoundToBill`: an edit opened under the lock knows only staff of its bill or owners; `OwnerToChoose`: a line is left without an employee only while nobody is the default, so what it is booked to is another line's employee or the owner; `Loaded`: an owner on a form's list is one in the database |
| `BillsProofs!CreditStaysCollectable` | `[]CreditIsCollectable` | inductive with the types; the fast path from the sheet saves cash bills only |
| `RecordsProofs!PhonesAreUnique` | `[]OnePhoneEach` | `RecordsInv`; a save asks for the phone among all rows, and a pull clears the others |
| `RecordsProofs!DeletedStays` | `GoneStaysGone` | every writer of the screens asks for a live row |
| `RecordsProofs!PaymentsSurviveEdits` | `OnlyStaleFormsReopen` | `FormKnows`: a form holds what it was filled with but for what was touched, and payment is no field; one that was never filled belongs to a row that is gone or to an advance with nobody to choose |
| `RecordsProofs!EditsKeepTheRest` | `EditKeepsTheRest` | `FormKnows`, and `OneAtATime`: no sheet is open beside a form |
| `SessionProofs!SeedsOnce` | `[]SeededOnce` | `SeedInv`: a salon that is not on the phone has not been seeded; every step that seeds creates the salon, and only a wipe removes it, with what was seeded |
| `SessionProofs!SessionIsServed` | `[]SessionOnly` | `SessionInv` (`Serves`, `Follows`): what runs was started for the current salon, and the last event under way names the user Firebase has |
| `SessionProofs!StoredIsCurrent` | `[]StoredFollowsSession` | `Follows`: once no event is under way, the last storage call made carries the current salon |
| `SessionProofs!OpenWindowUnlocks` | `[]OpenWindowIsHonoured` | `WindowInv`: among a salon's rows the latest has the latest end, but for a trial, which the property excepts |

Every invariant and every safety property that a passing run checks is proved.

Sums in `Bills` are `SumFunction` of the community modules, a recursive function
over the subsets of its domain. The library has no theorem about it, and the
induction theorems it has take an operator, which the provers cannot instantiate.
The first part of `BillsProofs` therefore does induction on sets: the instances that
hold are a set of subsets, and a smallest one outside it is refuted
(`SizeInduction`, from the well-foundedness of `<` on `Nat`). From that follow the
value of a sum whatever order it is taken in (`SumRules`), and what adding an
instance, splitting by a class and renaming do to it.

The hypotheses say what the program would need. `~Overlap` says that the background
tasks never run beside the app; the code does not see to that, and section 6 says what
happens when they do. `ClocksAgree` says that an edit beats the content it was made on:
the resolver compares wall clocks, and a device whose clock is behind by more than the
time between two edits loses to what it has just seen. `Retained` says that no device
stays away, or owes a push, for longer than the retention of tombstones.
`SharedIds = {}` excludes ids that two devices make up alike (the salon's own row):
such a record could be created again after it was collected. `OwnerAssumption` of
`Bills` says that the staff after onboarding has one owner at most; the twin that
another install's onboarding makes, and a pull brings, is outside the model.

Model-checked only: liveness (`EventuallyConverges`, `CatchesUp`, `GetsIn`), because TLAPS does not reason about fairness and `ENABLED`.

## 5. What is not modelled

* Sync: an op whose request lands after the process that sent it died, a second
  salon on the device inside `SyncEngine`, queues longer than one claim there;
  the items of an income transaction apart from its header; a device that stays away
  longer than the retention of tombstones; the window between the collector's query and its batch (functions/src/index.ts:71:
  a tombstone rewritten in between is deleted early); the order in which entity
  types fail (sync-service.ts:189).
* Scheduler: a cycle that throws, timers suspended in the background, what a
  burst beyond `MAX_DRAIN` leaves for the periodic timer one by one.
* Backup: `latestVersionId` after a failed upload (backup-index.ts:87; nothing
  here reads it to restore); rows written by a pull, which do not call
  `markDirty` (deserializer.ts:34); parts of the lock and storage client without
  callers; encryption and compression.
* Billing: the creation of a checkout at Razorpay more than once (a second
  delivery of that trigger would create two subscriptions), forged requests, the
  `subscription.activated` event in an instance (see section 6).
* Screens: dates other than today, remarks, receipts, navigation, rendering,
  custom categories (two devices that run `ensureDefaults` before their first
  pull leave twin categories), settings, translations, periods of the reports.
* Observability, preferences, history and the event bus apart from its
  synchronous dispatch.

Every component, with its status and reason, is in `PROJECT.json`.

## 6. Where code and text disagree

Shown by violation runs:

* `relaunch_drops_queue`. `runAllMigrations()` runs on every start
  (src/application/AppRoot.tsx:51) and in both background tasks
  (background-sync-task.ts:46, backup/background-task.ts:53), and the migrations
  keep no record of having run. 014 drops `sync_queue` (:23) and the rows'
  `sync_status` (:47-52), 016 adds `sync_status` again as `pending`, 017 creates
  an empty queue. Every push still owed is lost at the next launch; nothing
  enqueues it again, and a later pull of the record overwrites the edit. The
  file calls itself "Fully idempotent — safe to re-run on every startup" (:14),
  and sync-scheduler.ts:59-61 promises that half-processed rows are requeued on a
  cold start.

* `edit_in_flight`. types.ts:39 calls `synced` "cloud acked the current local state".
  `pushOnce` awaits its answers with the rows open to edits; a row edited while its own
  op is in flight is stamped synced by the answer to the older content
  (sync-service.ts:498), and `markSuccess` deletes, by id, the entry that the edit had
  reset in place. The edit is never pushed, and the next pull of the device's own
  earlier write reverts it. `SyncedIsAckedOrStray` says that nothing else is ever
  called synced wrongly, and `SettledMeansWinner`, `NoEditLostToALoser` and
  `SettledMeansConverged` name such edits (`dropped`, `stray`) as exceptions.
* `grant_reads_late`. `upsertEntityInTx` reads its document
  (functions/src/firestore-helpers.ts:99) at its second use in the transaction of
  `grantPaidSubscription`, after the first has written; firebase-admin
  (functions/package.json:16) refuses a get after a write. Every grant throws, the
  webhook answers 500, and the redelivery throws again, where
  grant-paid-subscription.ts:90 says "When a salon pays, write paid subscription +
  payment ledger". The claim of a referral reads late in the same way. The SDK is not
  in the repository: that it refuses such a read is the assumption `LateReads = FALSE`,
  and `billing_grants` checks the rest with the opposite one.

Shown by the same models under other constants, and named as hypotheses or exceptions
where a property needs it:

* `Overlap` takes versions back. sync-service.ts:46-48 lets push and pull run
  concurrently because they "own disjoint mutations"; both write `sync_version` and the
  queue entry. A background pull fetches a page, the device's push is answered with a
  newer version, and the page is applied after it. With a third device and a clock
  that is behind, the answer to a push that a pull has overtaken can also leave a
  device settled on an old record, so `SettledMeansConverged` and
  `SettledMeansWinner` are claimed without it.
* `Overlap` with the background task's own migrations breaks `TombstonesStick` on a
  single device (3 edits, 1 crash bound), against conflict-resolver.ts:13, by which a
  delete wins over any live update. A background pull fetches the page, the delete of a
  record is pushed, the queue entry goes (migrations, or a discard on a stale screen),
  and the page is applied: with no entry the resolver is not asked and the row is live
  again. The answer to the delete then gives that row the version of the tombstone,
  so the next edit of it passes the version check and replaces the tombstone for
  every device. The attempt to prove `TombstonesStick` without `~Overlap` found it.
* Two commits with one serverTimestamp on a page boundary: the strict `>` of
  firestore-sync-api.ts:98 skips the second (the exception `tied` in
  `NoChangeSkipped`).
* A window that ends while the handler of the next payment runs is overlapped by as
  much: the new one starts at the `nowIso` of grant-paid-subscription.ts:103, while the
  end is compared with a later `Date.now()` (172-175, 292-296). `WindowsStack` speaks of
  days still to come when a window is written.
* queue-manager.ts:231: a start does not requeue entries claimed in the last
  60 seconds. No entry is left for it, since the migrations of that start have
  dropped the queue; it would bite as soon as they stop doing so.

Noticed while reading and modelling, not the subject of a run:

*Synchronisation and backup*

* sync-scheduler.ts:41 promises one attempt at a time. After `stop()` and
  `start()` two cycles run side by side, and the old one's finally untracks the
  new one. `NoMoreCyclesThanStarts` is the bound that does hold.
* A cycle left behind by a sign-out goes on into its pull for the old salon;
  drain and rerun timers survive `stop()`, and `drainCount` is not reset by it.
* `releaseLock` is sent after the sign-out, when firestore.rules denies it: the
  lock stays for its 24 hours, except when the user is back before it lands.
* db-meta.ts:13 ("in sync with the latest cloud snapshot") does not cover rows
  written by a pull, nor a later snapshot by another device.
* firestore-sync-api.ts:211-214: a vanished document drops the local row without
  the resolver, against docs/sync-engine.md:284-290.
* A first transient error already stamps the row `failed`, which
  docs/sync-engine.md describes as "push exceeded retry budget".
* On a push conflict the header and the items of an income transaction are
  rewritten outside a transaction (deserializer.ts:77).

*Billing*

* webhook.ts:142 says an activation without a payment id is informational. The
  payment id is looked for in the first entity of the event, which is then the
  subscription, so an activation would open a paid window under the
  subscription's id and the charge's own event a second one. The model has the
  event; no instance lets it happen.
* A referral claimed between the query and the grant's transaction earns no
  reward for that payment; `RewardsAreEarned` only bounds rewards from above.
* A function that dies after the marker was written leaves it: every redelivery
  is then a duplicate and the event is lost (`excused` in `PaidIsGranted`).
* A cancellation or completion marks the row that is current, whatever
  subscription it was bought with; paid windows ignore the trial made on the device.

*Bills*

* `customer_gender` is read by the edit form ("Restore customer gender",
  IncomeEntryScreen.tsx:289) and written by nobody: an edit opens with the
  salon's default, so Done in the sheet re-prices at the wrong price. Done also
  drops lines of services archived meanwhile.
* The update of a header does not look at `deleted_at`: an edit saved after the
  bill was deleted elsewhere leaves live lines under a deleted header, which the
  reports skip.
* A deleted customer keeps the phone (`UNIQUE`, migration 011:30): a bill tagged
  with it cannot be saved, after the owner's row was already committed. A pull's
  `INSERT OR REPLACE` takes away a local customer with the same phone
  (the exception in `CreditIsCollectable`).
* A rule changed after a line was priced is stored beside the old commission and
  does not explain it (the exception in `CommissionExplained`).
* The lock is checked when staff is picked: when it arrives in the middle of an
  edit, lines already assigned pass. `LockHolds` speaks of edits opened under it.
* A flat discount larger than the subtotal is stored whole, while the net is 0.
* An edit opened with no active staff or no active service is never filled.

*Other records*

* A credit expense of an earlier day can no longer be opened, paid or edited from
  any screen, while the "credit owed" banner keeps it in its total.
* "Preserve settled_at across edits" does not hold for a payment pulled while the
  form is open (the exception in `OnlyStaleFormsReopen`).
* An advance whose employee is inactive cannot be edited; a save of a row deleted
  meanwhile changes nothing and reports success; the phone of a deleted customer
  cannot be entered again; a customer sheet opened on a vanished row shows the
  previous customer's fields.

*Session*

* `SubscriptionProvider`'s refresh on `db:dirty` never works: `markDirty` emits
  inside the transaction, the refresh begins another, SQLite refuses it and the
  event bus drops the error. docs/subscription/PRD-subscription-referral.md
  counts on it.
* The background task is registered at boot only and unregistered at sign-out, so
  there is none after the next sign-in until a launch; its `isOnline()` is false
  until NetInfo has answered.
* A new install of an existing account onboards again: the new salon row wins,
  the default services are doubled by the next pull, and the fresh trial may hide
  the grace of a paid window (the exception in `OpenWindowIsHonoured`).
* After a Finish that was cut short, Finish fails until the app is launched
  again, which lets the user in with part of the catalogue.
* Finish creates the salon of the user Firebase has and resolves the session of
  the one AuthProvider knows.
* A change of the code between `setSubmitting(true)` and the render that disables the
  field clears `submittedCodeRef` (OtpScreen.tsx:62-73), so a second verification can
  be sent beside the first; `late` counts what comes of both.
* The bootstrap of the trial may fail at the sign-in and is only logged: the user is let
  in locked until the next launch or a synced subscription.
* After a failed verification the enabled Verify button does nothing until the
  code is edited.

## 7. Plan

1. Done: synchronisation, collector, scheduler, backup, billing and referrals,
   bills and reports, the other records, session and entitlements; every safety
   property that a run checks is proved.
2. Left to prove: a weaker conclusion of the synchronisation's theorems that need
   `~Overlap` (what a settled device may still be behind by), and that `CloudRecord`
   itself never loses the winner of the edits it was shown.
3. Left to model: the collector's query and batch as two steps, header and items
   through a conflict and a crash, the creation of checkouts, periods of reports.
