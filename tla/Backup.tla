------------------------------- MODULE Backup -------------------------------
(***************************************************************************)
(* The whole-database backup of one salon, run by hand on several devices: *)
(* src/backup/backup-pipeline.ts with the scheduler that starts and        *)
(* cancels it, the dirty flag of src/database/db-meta.ts, the cloud lock   *)
(* of src/cloud/device-lock.ts and the index of src/cloud/backup-index.ts. *)
(*                                                                         *)
(* An attempt waits four times: for the lock, for the key, for the commit  *)
(* of the metadata and for the upload.  Each request is answered by the    *)
(* cloud in one step and the answer is taken by the device in a later one, *)
(* so writes, sign-outs and other devices come between the two.            *)
(*                                                                         *)
(* Covered: lost answers, failed requests, a sign-out or a crash at any    *)
(* point, leases that expire and are stolen, a release that arrives late.  *)
(* Not covered: two salons on a device, restore (the code has none), a     *)
(* request that lands after the process that sent it has died.             *)
(***************************************************************************)
EXTENDS Integers, FiniteSets

CONSTANTS
  Devices,
  NoDevice,      \* the owner of a lock document that does not exist
  MaxVersions,   \* bound on the attempts that get as far as a version id
  MaxWrites,     \* bound on local writes, all devices together
  MaxFaults,     \* bound on failed requests and lost answers
  MaxExpiries,   \* bound on leases that expire
  MaxSignOuts,   \* bound on sign-outs
  MaxCrashes     \* bound on process deaths

ASSUME DevicesAssumption == NoDevice \notin Devices
ASSUME BoundsAssumption ==
  /\ MaxVersions \in Nat /\ MaxWrites \in Nat /\ MaxFaults \in Nat
  /\ MaxExpiries \in Nat /\ MaxSignOuts \in Nat /\ MaxCrashes \in Nat

VARIABLES
  change,    \* [Devices -> Nat]      change_count
  dirty,     \* [Devices -> BOOLEAN]  dirty_since is set
  session,   \* [Devices -> BOOLEAN]  signed in, backupScheduler started
  release,   \* [Devices -> BOOLEAN]  a releaseLock that has not landed
  \* The attempt behind inFlight, per device:
  stage,     \* "idle", or what it waits for
  answer,    \* what the cloud has answered to its request
  count,     \* dirty.changeCount, read at the start
  holds,     \* how many local writes the snapshot holds
  version,   \* versionId, 0 before it is built
  cancelled, \* cancelToken.isCancelled
  leased,    \* history: the lease it was granted still lasts
  \* The cloud:
  owner,     \* of the lock document, NoDevice when there is none
  live,      \* the lease has not expired
  by, saved, \* [Versions -> ...]  whose snapshot a version id is, and its holds
  metas,     \* version ids with a metadata document
  blobs,     \* version ids with a blob
  latest,    \* backup_index.latestVersionId, 0 for none
  writes, faults, expiries, signOuts, crashes  \* counters for the bounds

local == <<change, dirty, session>>
att == <<stage, answer, count, holds, version, cancelled, leased>>
lock == <<owner, live>>
named == <<by, saved>>
stored == <<metas, blobs, latest>>
cloud == <<lock, named, stored>>
counters == <<writes, faults, expiries, signOuts, crashes>>
vars == <<local, release, att, cloud, counters>>

Versions == 1..MaxVersions
Stages == {"idle", "lock", "pack", "meta", "upload"}
Used == {v \in Versions : by[v] # NoDevice}
Busy(d) == stage[d] # "idle"

Init ==
  /\ change = [d \in Devices |-> 0] /\ dirty = [d \in Devices |-> FALSE]
  /\ session = [d \in Devices |-> TRUE] /\ release = [d \in Devices |-> FALSE]
  /\ stage = [d \in Devices |-> "idle"] /\ answer = [d \in Devices |-> "none"]
  /\ count = [d \in Devices |-> 0] /\ holds = [d \in Devices |-> 0]
  /\ version = [d \in Devices |-> 0]
  /\ cancelled = [d \in Devices |-> FALSE] /\ leased = [d \in Devices |-> FALSE]
  /\ owner = NoDevice /\ live = FALSE
  /\ by = [v \in Versions |-> NoDevice] /\ saved = [v \in Versions |-> 0]
  /\ metas = {} /\ blobs = {} /\ latest = 0
  /\ writes = 0 /\ faults = 0 /\ expiries = 0 /\ signOuts = 0 /\ crashes = 0

(***************************************************************************)
(* The device.                                                             *)
(***************************************************************************)
\* A repository's transaction: the row and markDirty.
LocalWrite(d) ==
  /\ session[d] /\ writes < MaxWrites
  /\ change' = [change EXCEPT ![d] = @ + 1]
  /\ dirty' = [dirty EXCEPT ![d] = TRUE]
  /\ writes' = writes + 1
  /\ UNCHANGED <<session, release, att, cloud, faults, expiries, signOuts,
                 crashes>>

\* The finally of runBackupOnce.
End(d) ==
  /\ stage' = [stage EXCEPT ![d] = "idle"]
  /\ answer' = [answer EXCEPT ![d] = "none"]
  /\ count' = [count EXCEPT ![d] = 0] /\ holds' = [holds EXCEPT ![d] = 0]
  /\ version' = [version EXCEPT ![d] = 0]
  /\ cancelled' = [cancelled EXCEPT ![d] = FALSE]
  /\ leased' = [leased EXCEPT ![d] = FALSE]

\* The attempt sends its next request.
Send(d, request) ==
  /\ stage' = [stage EXCEPT ![d] = request]
  /\ answer' = [answer EXCEPT ![d] = "none"]

\* runNow and the preflight of runBackupOnce; a second call changes nothing.
RunNow(d) ==
  /\ session[d] /\ ~Busy(d)
  /\ Send(d, "lock")
  /\ count' = [count EXCEPT ![d] = change[d]]
  /\ UNCHANGED <<local, release, holds, version, cancelled, leased, cloud,
                 counters>>

\* The lock is granted: the snapshot, unless the disk is full or it fails.
LockAnswered(d) ==
  /\ stage[d] = "lock" /\ answer[d] # "none"
  /\ \/ /\ answer[d] = "ok" /\ ~cancelled[d]
        /\ Send(d, "pack")
        /\ holds' = [holds EXCEPT ![d] = change[d]]
        /\ UNCHANGED <<count, version, cancelled, leased>>
     \/ End(d)
  /\ UNCHANGED <<local, release, cloud, counters>>

\* The key arrives, or the vault fails: the blob is packed under a new id.
PackDone(d) ==
  /\ stage[d] = "pack"
  /\ \/ /\ ~cancelled[d]
        /\ \E v \in Versions \ Used :
             /\ \A u \in Versions \ Used : v <= u
             /\ version' = [version EXCEPT ![d] = v]
             /\ by' = [by EXCEPT ![v] = d]
             /\ saved' = [saved EXCEPT ![v] = holds[d]]
        /\ Send(d, "meta")
        /\ UNCHANGED <<count, holds, cancelled, leased>>
     \/ End(d) /\ UNCHANGED named
  /\ UNCHANGED <<local, release, lock, stored, counters>>

\* A catch that takes every error for a duplicate.
MetaAnsweredCatchAll(d) ==
  /\ stage[d] = "meta" /\ answer[d] # "none"
  /\ IF ~cancelled[d]
     THEN Send(d, "upload") /\ UNCHANGED <<count, holds, version, cancelled, leased>>
     ELSE End(d)
  /\ UNCHANGED <<local, release, cloud, counters>>

\* commitBackupMetadata returns: the upload starts.
MetaAnswered(d) ==
  /\ stage[d] = "meta" /\ answer[d] # "none"
  /\ IF answer[d] = "ok" /\ ~cancelled[d]
     THEN Send(d, "upload") /\ UNCHANGED <<count, holds, version, cancelled, leased>>
     ELSE End(d)
  /\ UNCHANGED <<local, release, cloud, counters>>

\* A clear that does not compare the counter.
ClearedAlways(d) == TRUE

\* clearDirtyIfUnchanged.
Cleared(d) == change[d] = count[d]

\* upload returns.  No check of the cancel token comes after it.
UploadAnswered(d) ==
  /\ stage[d] = "upload" /\ answer[d] # "none"
  /\ dirty' = IF answer[d] = "ok" /\ Cleared(d)
              THEN [dirty EXCEPT ![d] = FALSE] ELSE dirty
  /\ End(d)
  /\ UNCHANGED <<change, session, release, cloud, counters>>

\* resolveSalonFor(null): stop() cancels the attempt, releaseLock is sent.
SignOut(d) ==
  /\ session[d] /\ signOuts < MaxSignOuts
  /\ signOuts' = signOuts + 1
  /\ session' = [session EXCEPT ![d] = FALSE]
  /\ cancelled' = [cancelled EXCEPT ![d] = Busy(d)]
  /\ release' = [release EXCEPT ![d] = TRUE]
  /\ UNCHANGED <<change, dirty, stage, answer, count, holds, version, leased,
                 cloud, writes, faults, expiries, crashes>>

SignIn(d) ==
  /\ ~session[d]
  /\ session' = [session EXCEPT ![d] = TRUE]
  /\ UNCHANGED <<change, dirty, release, att, cloud, counters>>

\* The process dies and is relaunched: inFlight is memory, the flag is not.
Crash(d) ==
  /\ Busy(d) /\ crashes < MaxCrashes
  /\ crashes' = crashes + 1
  /\ End(d)
  /\ release' = [release EXCEPT ![d] = FALSE]
  /\ UNCHANGED <<local, cloud, writes, faults, expiries, signOuts>>

(***************************************************************************)
(* The cloud.                                                              *)
(***************************************************************************)
Sent(d, request) == stage[d] = request /\ answer[d] = "none"

\* A request that took effect is answered, or its answer is lost.
Answered(d, lost) ==
  /\ lost => faults < MaxFaults
  /\ faults' = IF lost THEN faults + 1 ELSE faults
  /\ answer' = [answer EXCEPT ![d] = IF lost THEN "error" ELSE "ok"]
  /\ UNCHANGED <<local, release, stage, count, holds, version, cancelled,
                 named, writes, expiries, signOuts, crashes>>

\* A steal that does not look at expiresAt.
MayAcquireAny(d) == TRUE

MayAcquire(d) == owner \in {NoDevice, d} \/ ~live

\* acquireOrRefreshLock: create, renew or steal.
LockGranted(d, lost) ==
  /\ Sent(d, "lock") /\ MayAcquire(d)
  /\ owner' = d /\ live' = TRUE
  /\ leased' = [leased EXCEPT ![d] = TRUE]
  /\ Answered(d, lost)
  /\ UNCHANGED stored

LockRefused(d) ==
  /\ Sent(d, "lock") /\ ~MayAcquire(d)
  /\ answer' = [answer EXCEPT ![d] = "other"]
  /\ UNCHANGED <<local, release, stage, count, holds, version, cancelled,
                 leased, cloud, counters>>

\* The transaction of commitBackupMetadata.
MetaCommitted(d, lost) ==
  /\ Sent(d, "meta")
  /\ metas' = metas \cup {version[d]}
  /\ latest' = version[d]
  /\ Answered(d, lost)
  /\ UNCHANGED <<leased, lock, blobs>>

\* putFile.
BlobStored(d, lost) ==
  /\ Sent(d, "upload")
  /\ blobs' = blobs \cup {version[d]}
  /\ Answered(d, lost)
  /\ UNCHANGED <<leased, lock, metas, latest>>

\* A request fails without effect.  After a sign-out it is refused by the
\* rules, or by the cancelled token, and needs no fault.
RequestFails(d) ==
  /\ Sent(d, "lock") \/ Sent(d, "meta") \/ Sent(d, "upload")
  /\ cancelled[d] \/ faults < MaxFaults
  /\ faults' = IF cancelled[d] THEN faults ELSE faults + 1
  /\ answer' = [answer EXCEPT ![d] = "error"]
  /\ UNCHANGED <<local, release, stage, count, holds, version, cancelled,
                 leased, cloud, writes, expiries, signOuts, crashes>>

\* releaseLock lands.  firestore.rules lets only a signed-in caller write,
\* and it is sent after the sign-out: it works only if the user is back.
ReleaseLands(d) ==
  /\ release[d]
  /\ release' = [release EXCEPT ![d] = FALSE]
  /\ IF session[d] /\ owner = d
     THEN /\ owner' = NoDevice /\ live' = FALSE
          /\ leased' = [leased EXCEPT ![d] = FALSE]
     ELSE UNCHANGED <<lock, leased>>
  /\ UNCHANGED <<local, stage, answer, count, holds, version, cancelled,
                 named, stored, counters>>

\* The clock of the device that asks next passes expiresAt.
LeaseExpires ==
  /\ live /\ expiries < MaxExpiries
  /\ expiries' = expiries + 1
  /\ live' = FALSE
  /\ leased' = [leased EXCEPT ![owner] = FALSE]
  /\ UNCHANGED <<local, release, stage, answer, count, holds, version,
                 cancelled, owner, named, stored, writes, faults, signOuts,
                 crashes>>

Next ==
  \/ \E d \in Devices :
       \/ LocalWrite(d) \/ RunNow(d) \/ LockAnswered(d) \/ PackDone(d)
       \/ MetaAnswered(d) \/ UploadAnswered(d)
       \/ SignOut(d) \/ SignIn(d) \/ Crash(d)
       \/ LockRefused(d) \/ RequestFails(d) \/ ReleaseLands(d)
       \/ \E lost \in BOOLEAN :
            LockGranted(d, lost) \/ MetaCommitted(d, lost) \/ BlobStored(d, lost)
  \/ LeaseExpires

Spec == Init /\ [][Next]_vars

(***************************************************************************)
(* Properties.                                                             *)
(***************************************************************************)
TypeOK ==
  /\ change \in [Devices -> Nat] /\ dirty \in [Devices -> BOOLEAN]
  /\ session \in [Devices -> BOOLEAN] /\ release \in [Devices -> BOOLEAN]
  /\ stage \in [Devices -> Stages]
  /\ answer \in [Devices -> {"none", "ok", "other", "error"}]
  /\ count \in [Devices -> Nat] /\ holds \in [Devices -> Nat]
  /\ version \in [Devices -> Versions \cup {0}]
  /\ \A d \in Devices : stage[d] \in {"meta", "upload"} => version[d] \in Used
  /\ cancelled \in [Devices -> BOOLEAN] /\ leased \in [Devices -> BOOLEAN]
  /\ owner \in Devices \cup {NoDevice} /\ live \in BOOLEAN
  /\ by \in [Versions -> Devices \cup {NoDevice}] /\ saved \in [Versions -> Nat]
  /\ metas \subseteq Versions /\ blobs \subseteq Versions
  /\ latest \in Versions \cup {0}
  /\ writes \in Nat /\ faults \in Nat /\ expiries \in Nat
  /\ signOuts \in Nat /\ crashes \in Nat

\* A device whose dirty flag is clear has a backup in the cloud that holds
\* every one of its writes, however writes, lost answers, crashes, stolen
\* leases and sign-outs fell between the stages of its attempts
\* (db-meta.ts:19-22, clearDirtyIfUnchanged).
CleanMeansBackedUp ==
  \A d \in Devices : ~dirty[d] /\ change[d] > 0 =>
    \E v \in metas \cap blobs : by[v] = d /\ saved[v] >= change[d]

\* No blob without its metadata document: backup-pipeline.ts commits it
\* first, so that nothing unreferenced is paid for in storage.
BlobHasMetadata == blobs \subseteq metas

\* While the lease it was granted lasts, the device that is packing,
\* committing or uploading is the owner of the lock: a second device gets
\* past the lock only by the expiry or the release of the first one's lease.
LeaseHolderUploads ==
  \A d \in Devices :
    stage[d] \in {"pack", "meta", "upload"} /\ leased[d] => owner = d /\ live
=============================================================================
