----------------------------- MODULE TombstoneGc ----------------------------
(***************************************************************************)
(* The sync engine together with the nightly cloud function that deletes   *)
(* old tombstones (functions/src/index.ts).                                *)
(*                                                                         *)
(* Time is not modelled: a tombstone may be collected at any moment, or,   *)
(* when Retained holds, only once every device has pulled it and owes      *)
(* nothing for it, which is what the 90 days of retention are for.         *)
(***************************************************************************)
EXTENDS SyncEngine

CONSTANTS
  Retained,  \* no device stays away longer than the retention
  MaxGcs     \* bound on collections

ASSUME GcAssumption == Retained \in BOOLEAN /\ MaxGcs \in Nat

VARIABLE collected  \* the keys collected so far

gcVars == <<vars, collected>>

CaughtUp(d, k) ==
  /\ row[d][k].st = "synced" /\ row[d][k].c = doc[k].c
  /\ queue[d][k].st = "none" /\ push[d].ops[k].st = "none"
  /\ k \notin OnPage(d)

\* One document of tombstoneGc's batch.
Collect(k) ==
  /\ doc[k].c.del
  /\ Cardinality(collected) < MaxGcs
  /\ Retained => \A d \in Devices : CaughtUp(d, k)
  /\ doc' = [doc EXCEPT ![k] = NoDoc]
  /\ collected' = collected \cup {k}
  /\ UNCHANGED <<row, queue, cursor, push, pull, up, tick, asked, log,
                 tied, bounds, history>>

\* An edit saved from a screen opened before the row was dropped: the row
\* update matches nothing, trackChange enqueues the id all the same.
UpdateVanished(d, k) ==
  /\ CanEdit(d)
  /\ ~Exists(row[d][k]) /\ seen[d][k] # {0}
  /\ queue' = [queue EXCEPT ![d][k] = Enqueued(@, edits + 1)]
  /\ edits' = edits + 1
  /\ UNCHANGED <<row, cursor, push, pull, up, cloud, crashes, faults,
                 history, collected>>

GcInit == Init /\ collected = {}

GcNext ==
  \/ Next /\ UNCHANGED collected
  \/ \E k \in Keys : Collect(k)
  \/ \E d \in Devices, k \in Keys : UpdateVanished(d, k)

GcSpec == GcInit /\ [][GcNext]_gcVars

\* A collected record is gone for good: no late push brings it back to the
\* cloud, and no device shows it as a live record (index.ts:23-28).
CollectedStaysDeleted == \A k \in collected :
  /\ doc[k].ver = 0
  /\ \A d \in Devices : Exists(row[d][k]) => row[d][k].c.del
=============================================================================
