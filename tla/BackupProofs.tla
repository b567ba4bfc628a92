---------------------------- MODULE BackupProofs ----------------------------
(***************************************************************************)
(* Theorems about Backup, for any number of devices, versions, writes,     *)
(* faults, expiries, sign-outs and crashes: the types are kept, a device   *)
(* whose dirty flag is clear has a backup of all its writes, and no blob   *)
(* is stored without its metadata.                                         *)
(***************************************************************************)
EXTENDS Backup, TLAPS

LEMMA TypeInit == Init => TypeOK
<1> SUFFICES ASSUME Init PROVE TypeOK
  OBVIOUS
<1>1. \A d \in Devices : stage[d] \in {"meta", "upload"} => version[d] \in Used
  BY DEF Init
<1> QED
  BY <1>1, BoundsAssumption DEF Init, TypeOK, Stages, Versions

(***************************************************************************)
(* The types, and the counts below: every action keeps them.               *)
(***************************************************************************)
LEMMA EndKeepsTypes ==
  ASSUME TypeOK, NEW d \in Devices, End(d)
  PROVE  /\ stage' \in [Devices -> Stages]
         /\ answer' \in [Devices -> {"none", "ok", "other", "error"}]
         /\ count' \in [Devices -> Nat] /\ holds' \in [Devices -> Nat]
         /\ version' \in [Devices -> Versions \cup {0}]
         /\ cancelled' \in [Devices -> BOOLEAN]
         /\ leased' \in [Devices -> BOOLEAN]
         /\ \A e \in Devices : stage'[e] \in {"meta", "upload"} =>
              stage[e] \in {"meta", "upload"} /\ version'[e] = version[e]
  BY DEF End, TypeOK, Stages

LEMMA TypeNext == TypeOK /\ [Next]_vars => TypeOK'
<1> SUFFICES ASSUME TypeOK, [Next]_vars PROVE TypeOK'
  OBVIOUS
<1> USE DEF Stages
<1>1. ASSUME NEW d \in Devices, LocalWrite(d) PROVE TypeOK'
  BY <1>1 DEF TypeOK, LocalWrite, Used, cloud, lock, named, stored, att
<1>2. ASSUME NEW d \in Devices, RunNow(d) PROVE TypeOK'
  BY <1>2 DEF TypeOK, RunNow, Send, Used, local, cloud, lock, named, stored, counters
<1>3. ASSUME NEW d \in Devices, LockAnswered(d) PROVE TypeOK'
  <2> USE <1>3 DEF local, cloud, lock, named, stored, counters, Used
  <2>1. CASE Send(d, "pack") /\ holds' = [holds EXCEPT ![d] = change[d]]
                 /\ UNCHANGED <<count, version, cancelled, leased>>
    BY <2>1 DEF TypeOK, LockAnswered, Send
  <2>2. CASE End(d)
    BY <2>2, EndKeepsTypes DEF TypeOK, LockAnswered
  <2> QED BY <2>1, <2>2 DEF LockAnswered
<1>4. ASSUME NEW d \in Devices, PackDone(d) PROVE TypeOK'
  <2> USE <1>4 DEF local, lock, named, stored, counters
  <2>1. ASSUME NEW v \in Versions \ Used,
               version' = [version EXCEPT ![d] = v],
               by' = [by EXCEPT ![v] = d], saved' = [saved EXCEPT ![v] = holds[d]],
               Send(d, "meta"), UNCHANGED <<count, holds, cancelled, leased>>
        PROVE  TypeOK'
    <3>1. Used' = Used \cup {v}
      BY <2>1, DevicesAssumption DEF Used, TypeOK
    <3> QED BY <2>1, <3>1 DEF TypeOK, PackDone, Send
  <2>2. CASE End(d) /\ UNCHANGED named
    BY <2>2, EndKeepsTypes DEF TypeOK, PackDone, Used
  <2> QED BY <2>1, <2>2 DEF PackDone
<1>5. ASSUME NEW d \in Devices, MetaAnswered(d) PROVE TypeOK'
  <2> USE <1>5 DEF local, cloud, lock, named, stored, counters, Used
  <2>1. CASE Send(d, "upload") /\ UNCHANGED <<count, holds, version, cancelled, leased>>
    BY <2>1 DEF TypeOK, MetaAnswered, Send
  <2>2. CASE End(d)
    BY <2>2, EndKeepsTypes DEF TypeOK, MetaAnswered
  <2> QED BY <2>1, <2>2 DEF MetaAnswered
<1>6. ASSUME NEW d \in Devices, UploadAnswered(d) PROVE TypeOK'
  BY <1>6, EndKeepsTypes
  DEF TypeOK, UploadAnswered, cloud, lock, named, stored, counters, Used
<1>7. ASSUME NEW d \in Devices, SignOut(d) PROVE TypeOK'
  BY <1>7 DEF TypeOK, SignOut, Busy, cloud, lock, named, stored, Used
<1>8. ASSUME NEW d \in Devices, SignIn(d) PROVE TypeOK'
  BY <1>8 DEF TypeOK, SignIn, att, cloud, lock, named, stored, counters, Used
<1>9. ASSUME NEW d \in Devices, Crash(d) PROVE TypeOK'
  BY <1>9, EndKeepsTypes DEF TypeOK, Crash, local, cloud, lock, named, stored, Used
<1>10. ASSUME NEW d \in Devices, LockRefused(d) PROVE TypeOK'
  BY <1>10 DEF TypeOK, LockRefused, local, cloud, lock, named, stored, counters, Used
<1>11. ASSUME NEW d \in Devices, RequestFails(d) PROVE TypeOK'
  BY <1>11 DEF TypeOK, RequestFails, local, cloud, lock, named, stored, Used
<1>12. ASSUME NEW d \in Devices, ReleaseLands(d) PROVE TypeOK'
  <2>1. /\ release' = [release EXCEPT ![d] = FALSE]
        /\ UNCHANGED <<local, stage, answer, count, holds, version, cancelled,
                       named, stored, counters>>
    BY <1>12 DEF ReleaseLands
  <2>2. leased' \in [Devices -> BOOLEAN]
    BY <1>12 DEF TypeOK, ReleaseLands, lock
  <2>3. owner' \in Devices \cup {NoDevice} /\ live' \in BOOLEAN
    BY <1>12 DEF TypeOK, ReleaseLands, lock
  <2>4. release' \in [Devices -> BOOLEAN]
    BY <2>1 DEF TypeOK
  <2>5. Used' = Used
    BY <2>1 DEF Used, named
  <2> QED BY <2>1, <2>2, <2>3, <2>4, <2>5 DEF TypeOK, local, named, stored, counters
<1>13. ASSUME NEW d \in Devices, NEW lost \in BOOLEAN, LockGranted(d, lost) PROVE TypeOK'
  BY <1>13 DEF TypeOK, LockGranted, Answered, local, named, stored, Used
<1>14. ASSUME NEW d \in Devices, NEW lost \in BOOLEAN, MetaCommitted(d, lost) PROVE TypeOK'
  BY <1>14 DEF TypeOK, MetaCommitted, Sent, Answered, local, lock, named, Used
<1>15. ASSUME NEW d \in Devices, NEW lost \in BOOLEAN, BlobStored(d, lost) PROVE TypeOK'
  BY <1>15 DEF TypeOK, BlobStored, Sent, Answered, local, lock, named, Used
<1>16. ASSUME LeaseExpires PROVE TypeOK'
  <2>1. leased' \in [Devices -> BOOLEAN]
    BY <1>16 DEF TypeOK, LeaseExpires
  <2>2. /\ live' = FALSE /\ expiries' = expiries + 1
        /\ UNCHANGED <<local, release, stage, answer, count, holds, version,
                       cancelled, owner, named, stored, writes, faults,
                       signOuts, crashes>>
    BY <1>16 DEF LeaseExpires
  <2> QED
    <3>1. expiries' \in Nat
      BY <2>2 DEF TypeOK
    <3>2. Used' = Used
      BY <2>2 DEF Used, named
    <3> QED BY <2>1, <2>2, <3>1, <3>2 DEF TypeOK, local, named, stored
<1>17. ASSUME UNCHANGED vars PROVE TypeOK'
  BY <1>17 DEF TypeOK, vars, local, att, cloud, lock, named, stored, counters, Used
<1> QED
  BY <1>1, <1>2, <1>3, <1>4, <1>5, <1>6, <1>7, <1>8, <1>9, <1>10, <1>11, <1>12,
     <1>13, <1>14, <1>15, <1>16, <1>17 DEF Next

\* Every variable keeps its type, and an attempt that commits metadata or
\* uploads has a version id of its own.
THEOREM TypeCorrect == Spec => []TypeOK
  BY TypeInit, TypeNext, PTL DEF Spec

(***************************************************************************)
(* Clean means backed up.  The count is read before the snapshot is taken  *)
(* and never exceeds the count of the writes, so an equal count at the end *)
(* says that the snapshot holds every write.                               *)
(***************************************************************************)
Prepared(d) ==
  /\ stage[d] # "idle" => count[d] <= change[d]
  /\ stage[d] \in {"pack", "meta", "upload"} => count[d] <= holds[d]
  /\ stage[d] \in {"meta", "upload"} =>
       by[version[d]] = d /\ saved[version[d]] = holds[d]
  /\ stage[d] = "meta" /\ answer[d] = "ok" => version[d] \in metas
  /\ stage[d] = "upload" => version[d] \in metas
  /\ stage[d] = "upload" /\ answer[d] = "ok" => version[d] \in blobs

AllPrepared == \A d \in Devices : Prepared(d)

StoredInv == AllPrepared /\ CleanMeansBackedUp /\ BlobHasMetadata

LEMMA StoredInit == Init => StoredInv
  BY DEF Init, StoredInv, AllPrepared, Prepared, CleanMeansBackedUp, BlobHasMetadata

\* An attempt that ends leaves the others, and what they rest on, alone.
LEMMA EndKeepsPrepared ==
  ASSUME TypeOK, AllPrepared, NEW d \in Devices, End(d),
         UNCHANGED <<change, named, stored>>
  PROVE  AllPrepared'
  BY DEF TypeOK, End, AllPrepared, Prepared, named, stored

LEMMA StoredNext == TypeOK /\ StoredInv /\ [Next]_vars => StoredInv'
<1> SUFFICES ASSUME TypeOK, StoredInv, [Next]_vars PROVE StoredInv'
  OBVIOUS
<1> USE DEF StoredInv
<1>same. ASSUME UNCHANGED <<change, dirty, named, stored>>
         PROVE  CleanMeansBackedUp' /\ BlobHasMetadata'
  BY <1>same DEF CleanMeansBackedUp, BlobHasMetadata, named, stored
<1>1. ASSUME NEW d \in Devices, LocalWrite(d) PROVE StoredInv'
  <2> USE <1>1 DEF LocalWrite, att, cloud, lock, named, stored
  <2>1. AllPrepared'
    BY DEF TypeOK, AllPrepared, Prepared
  <2>2. CleanMeansBackedUp'
    BY DEF TypeOK, CleanMeansBackedUp
  <2> QED BY <2>1, <2>2 DEF BlobHasMetadata
<1>2. ASSUME NEW d \in Devices, RunNow(d) PROVE StoredInv'
  <2>1. AllPrepared'
    BY <1>2 DEF TypeOK, RunNow, Send, local, cloud, named, stored, AllPrepared, Prepared
  <2> QED BY <1>2, <2>1, <1>same DEF RunNow, local, cloud
<1>3. ASSUME NEW d \in Devices, LockAnswered(d) PROVE StoredInv'
  <2>1. UNCHANGED <<change, dirty, named, stored>>
    BY <1>3 DEF LockAnswered, local, cloud
  <2>2. CASE Send(d, "pack") /\ holds' = [holds EXCEPT ![d] = change[d]]
                 /\ UNCHANGED <<count, version, cancelled, leased>>
    <3>1. AllPrepared'
      BY <1>3, <2>1, <2>2
      DEF TypeOK, LockAnswered, Send, named, stored, AllPrepared, Prepared
    <3> QED BY <2>1, <3>1, <1>same
  <2> QED BY <1>3, <2>1, <2>2, <1>same, EndKeepsPrepared DEF LockAnswered
<1>4. ASSUME NEW d \in Devices, PackDone(d) PROVE StoredInv'
  <2>1. ASSUME NEW v \in Versions \ Used,
               version' = [version EXCEPT ![d] = v],
               by' = [by EXCEPT ![v] = d], saved' = [saved EXCEPT ![v] = holds[d]],
               Send(d, "meta"), UNCHANGED <<count, holds, cancelled, leased>>
        PROVE  StoredInv'
    <3> USE <1>4, <2>1 DEF PackDone, local, lock, stored, Send
    <3>1. \A u \in Used : by'[u] = by[u] /\ saved'[u] = saved[u]
      BY DEF TypeOK, Used
    <3>2. AllPrepared'
      BY <3>1 DEF TypeOK, AllPrepared, Prepared
    <3>3. CleanMeansBackedUp'
      <4>1. \A u \in metas : by[u] \in Devices => u \in Used
        BY DevicesAssumption DEF TypeOK, Used
      <4> QED BY <3>1, <4>1 DEF TypeOK, CleanMeansBackedUp
    <3> QED BY <3>2, <3>3 DEF BlobHasMetadata
  <2>2. CASE End(d) /\ UNCHANGED named
    BY <1>4, <2>2, <1>same, EndKeepsPrepared DEF PackDone, local
  <2> QED BY <1>4, <2>1, <2>2 DEF PackDone
<1>5. ASSUME NEW d \in Devices, MetaAnswered(d) PROVE StoredInv'
  <2>1. UNCHANGED <<change, dirty, named, stored>>
    BY <1>5 DEF MetaAnswered, local, cloud
  <2>2. CASE /\ answer[d] = "ok" /\ Send(d, "upload")
             /\ UNCHANGED <<count, holds, version, cancelled, leased>>
    <3>1. AllPrepared'
      BY <1>5, <2>1, <2>2
      DEF TypeOK, MetaAnswered, Send, named, stored, AllPrepared, Prepared
    <3> QED BY <2>1, <3>1, <1>same
  <2> QED BY <1>5, <2>1, <2>2, <1>same, EndKeepsPrepared DEF MetaAnswered
<1>6. ASSUME NEW d \in Devices, UploadAnswered(d) PROVE StoredInv'
  <2>1. change' = change /\ UNCHANGED <<named, stored>> /\ End(d)
    BY <1>6 DEF UploadAnswered, cloud
  <2>2. AllPrepared'
    BY <2>1, EndKeepsPrepared
  <2>3. CASE answer[d] = "ok" /\ Cleared(d)
    <3>1. /\ version[d] \in metas \cap blobs
          /\ by[version[d]] = d /\ saved[version[d]] >= change[d]
      BY <1>6, <2>3 DEF UploadAnswered, TypeOK, AllPrepared, Prepared, Cleared
    <3>2. dirty' = [dirty EXCEPT ![d] = FALSE]
      BY <1>6, <2>3 DEF UploadAnswered
    <3>3. CleanMeansBackedUp'
      BY <2>1, <3>1, <3>2 DEF TypeOK, CleanMeansBackedUp, named, stored
    <3> QED BY <2>1, <2>2, <3>3 DEF BlobHasMetadata, stored
  <2>4. CASE ~(answer[d] = "ok" /\ Cleared(d))
    BY <1>6, <2>1, <2>2, <2>4, <1>same DEF UploadAnswered
  <2> QED BY <2>3, <2>4
<1>7. ASSUME NEW d \in Devices, SignOut(d) PROVE StoredInv'
  BY <1>7, <1>same DEF SignOut, cloud, named, stored, AllPrepared, Prepared
<1>8. ASSUME NEW d \in Devices, SignIn(d) PROVE StoredInv'
  BY <1>8, <1>same DEF SignIn, att, cloud, named, stored, AllPrepared, Prepared
<1>9. ASSUME NEW d \in Devices, Crash(d) PROVE StoredInv'
  BY <1>9, <1>same, EndKeepsPrepared DEF Crash, local, cloud
<1>10. ASSUME NEW d \in Devices, LockRefused(d) PROVE StoredInv'
  <2>1. AllPrepared'
    BY <1>10 DEF TypeOK, LockRefused, Sent, local, cloud, named, stored, AllPrepared, Prepared
  <2> QED BY <1>10, <2>1, <1>same DEF LockRefused, local, cloud
<1>11. ASSUME NEW d \in Devices, RequestFails(d) PROVE StoredInv'
  <2>1. AllPrepared'
    BY <1>11 DEF TypeOK, RequestFails, Sent, local, cloud, named, stored, AllPrepared, Prepared
  <2> QED BY <1>11, <2>1, <1>same DEF RequestFails, local, cloud
<1>12. ASSUME NEW d \in Devices, ReleaseLands(d) PROVE StoredInv'
  BY <1>12, <1>same DEF ReleaseLands, local, named, stored, AllPrepared, Prepared
<1>13. ASSUME NEW d \in Devices, NEW lost \in BOOLEAN, LockGranted(d, lost)
       PROVE  StoredInv'
  <2>1. AllPrepared'
    BY <1>13 DEF TypeOK, LockGranted, Answered, Sent, local, named, stored, AllPrepared, Prepared
  <2> QED BY <1>13, <2>1, <1>same DEF LockGranted, Answered, local
<1>14. ASSUME NEW d \in Devices, NEW lost \in BOOLEAN, MetaCommitted(d, lost)
       PROVE  StoredInv'
  <2> USE <1>14 DEF MetaCommitted, Answered, Sent, local, named
  <2>1. AllPrepared'
    BY DEF TypeOK, AllPrepared, Prepared
  <2>2. CleanMeansBackedUp' /\ BlobHasMetadata'
    BY DEF CleanMeansBackedUp, BlobHasMetadata
  <2> QED BY <2>1, <2>2
<1>15. ASSUME NEW d \in Devices, NEW lost \in BOOLEAN, BlobStored(d, lost)
       PROVE  StoredInv'
  <2> USE <1>15 DEF BlobStored, Answered, Sent, local, named
  <2>1. AllPrepared'
    BY DEF TypeOK, AllPrepared, Prepared
  <2>2. CleanMeansBackedUp'
    BY DEF CleanMeansBackedUp
  <2>3. BlobHasMetadata'
    BY DEF BlobHasMetadata, AllPrepared, Prepared
  <2> QED BY <2>1, <2>2, <2>3
<1>16. ASSUME LeaseExpires PROVE StoredInv'
  BY <1>16, <1>same DEF LeaseExpires, local, named, stored, AllPrepared, Prepared
<1>17. ASSUME UNCHANGED vars PROVE StoredInv'
  BY <1>17, <1>same
  DEF vars, local, att, cloud, named, stored, AllPrepared, Prepared
<1> QED
  BY <1>1, <1>2, <1>3, <1>4, <1>5, <1>6, <1>7, <1>8, <1>9, <1>10, <1>11, <1>12,
     <1>13, <1>14, <1>15, <1>16, <1>17 DEF Next

\* Whatever writes, lost answers, crashes, stolen leases and sign-outs fall
\* between the stages of the attempts, clearDirtyIfUnchanged clears the flag
\* of a device only when the cloud holds a complete backup of its writes.
THEOREM CleanIsBackedUp == Spec => []CleanMeansBackedUp
<1>1. Init => StoredInv
  BY StoredInit
<1>2. TypeOK /\ StoredInv /\ [Next]_vars => StoredInv'
  BY StoredNext
<1>3. StoredInv => CleanMeansBackedUp
  BY DEF StoredInv
<1> QED
  BY <1>1, <1>2, <1>3, TypeCorrect, PTL DEF Spec

\* No upload is stored whose metadata document is missing: a failed commit,
\* its lost answer included, ends the attempt before the upload.
THEOREM NoBareBlob == Spec => []BlobHasMetadata
<1>1. Init => StoredInv
  BY StoredInit
<1>2. TypeOK /\ StoredInv /\ [Next]_vars => StoredInv'
  BY StoredNext
<1>3. StoredInv => BlobHasMetadata
  BY DEF StoredInv
<1> QED
  BY <1>1, <1>2, <1>3, TypeCorrect, PTL DEF Spec

(***************************************************************************)
(* The lease.  The history variable says whose lease lasts; only its owner *)
(* can be granted the lock meanwhile.                                      *)
(***************************************************************************)
LeaseInv == \A d \in Devices : leased[d] => owner = d /\ live

LEMMA EndKeepsLease ==
  ASSUME TypeOK, LeaseInv, NEW d \in Devices, End(d), UNCHANGED lock
  PROVE  LeaseInv'
  BY DEF TypeOK, End, LeaseInv, lock

LEMMA LeaseNext == TypeOK /\ LeaseInv /\ [Next]_vars => LeaseInv'
<1> SUFFICES ASSUME TypeOK, LeaseInv, [Next]_vars PROVE LeaseInv'
  OBVIOUS
<1>same. ASSUME UNCHANGED <<leased, lock>> PROVE LeaseInv'
  BY <1>same DEF LeaseInv, lock
<1>1. ASSUME NEW d \in Devices, LocalWrite(d) PROVE LeaseInv'
  BY <1>1, <1>same DEF LocalWrite, att, cloud
<1>2. ASSUME NEW d \in Devices, RunNow(d) PROVE LeaseInv'
  BY <1>2, <1>same DEF RunNow, cloud
<1>3. ASSUME NEW d \in Devices, LockAnswered(d) PROVE LeaseInv'
  BY <1>3, <1>same, EndKeepsLease DEF LockAnswered, cloud
<1>4. ASSUME NEW d \in Devices, PackDone(d) PROVE LeaseInv'
  BY <1>4, <1>same, EndKeepsLease DEF PackDone
<1>5. ASSUME NEW d \in Devices, MetaAnswered(d) PROVE LeaseInv'
  BY <1>5, <1>same, EndKeepsLease DEF MetaAnswered, cloud
<1>6. ASSUME NEW d \in Devices, UploadAnswered(d) PROVE LeaseInv'
  BY <1>6, EndKeepsLease DEF UploadAnswered, cloud
<1>7. ASSUME NEW d \in Devices, SignOut(d) PROVE LeaseInv'
  BY <1>7, <1>same DEF SignOut, cloud
<1>8. ASSUME NEW d \in Devices, SignIn(d) PROVE LeaseInv'
  BY <1>8, <1>same DEF SignIn, att, cloud
<1>9. ASSUME NEW d \in Devices, Crash(d) PROVE LeaseInv'
  BY <1>9, EndKeepsLease DEF Crash, cloud
<1>10. ASSUME NEW d \in Devices, LockRefused(d) PROVE LeaseInv'
  BY <1>10, <1>same DEF LockRefused, cloud
<1>11. ASSUME NEW d \in Devices, RequestFails(d) PROVE LeaseInv'
  BY <1>11, <1>same DEF RequestFails, cloud
<1>12. ASSUME NEW d \in Devices, ReleaseLands(d) PROVE LeaseInv'
  <2>1. CASE session[d] /\ owner = d
    <3>1. \A e \in Devices : leased'[e] = (IF e = d THEN FALSE ELSE leased[e])
      BY <1>12, <2>1 DEF ReleaseLands, TypeOK
    <3> QED BY <2>1, <3>1 DEF LeaseInv
  <2>2. CASE ~(session[d] /\ owner = d)
    BY <1>12, <2>2, <1>same DEF ReleaseLands
  <2> QED BY <2>1, <2>2
<1>13. ASSUME NEW d \in Devices, NEW lost \in BOOLEAN, LockGranted(d, lost)
       PROVE  LeaseInv'
  <2>1. \A e \in Devices : e # d => leased'[e] = leased[e]
    BY <1>13 DEF LockGranted, TypeOK
  <2>2. \A e \in Devices : e # d => ~leased[e]
    BY <1>13, DevicesAssumption DEF LockGranted, MayAcquire, LeaseInv
  <2> QED BY <1>13, <2>1, <2>2 DEF LockGranted, LeaseInv
<1>14. ASSUME NEW d \in Devices, NEW lost \in BOOLEAN, MetaCommitted(d, lost)
       PROVE  LeaseInv'
  BY <1>14, <1>same DEF MetaCommitted
<1>15. ASSUME NEW d \in Devices, NEW lost \in BOOLEAN, BlobStored(d, lost)
       PROVE  LeaseInv'
  BY <1>15, <1>same DEF BlobStored
<1>16. ASSUME LeaseExpires PROVE LeaseInv'
  <2>1. \A e \in Devices : leased'[e] = (IF e = owner THEN FALSE ELSE leased[e])
    BY <1>16 DEF LeaseExpires, TypeOK
  <2> QED BY <2>1 DEF LeaseInv
<1>17. ASSUME UNCHANGED vars PROVE LeaseInv'
  BY <1>17, <1>same DEF vars, att, cloud
<1> QED
  BY <1>1, <1>2, <1>3, <1>4, <1>5, <1>6, <1>7, <1>8, <1>9, <1>10, <1>11, <1>12,
     <1>13, <1>14, <1>15, <1>16, <1>17 DEF Next

\* A device that packs, commits or uploads under a lease that still lasts is
\* the owner of the lock: acquireOrRefreshLock lets two devices past it only
\* through an expiry, or through the device's own release.
THEOREM LeaseIsExclusive == Spec => []LeaseHolderUploads
<1>1. Init => LeaseInv
  BY DEF Init, LeaseInv
<1>2. LeaseInv => LeaseHolderUploads
  BY DEF LeaseInv, LeaseHolderUploads
<1> QED
  BY <1>1, <1>2, LeaseNext, TypeCorrect, PTL DEF Spec
=============================================================================
