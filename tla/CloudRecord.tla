---------------------------- MODULE CloudRecord -----------------------------
(***************************************************************************)
(* What the cloud copy of the records promises to the devices: a register  *)
(* per key that a device may overwrite only when it has been shown what it *)
(* overwrites, in which a tombstone is never replaced by a live record,    *)
(* and from which the collector may take a tombstone for good.  How        *)
(* pushes, pulls, retries and crashes bring this about is the business of  *)
(* SyncEngine, which implements this specification.                        *)
(***************************************************************************)
EXTENDS Integers

CONSTANTS Devices, Keys

VARIABLES
  record,  \* [Keys -> Content], the current record
  log,     \* [Keys -> SUBSET Nat], every content that was ever current
  seen     \* [Devices -> [Keys -> SUBSET Nat]], contents shown to a device

vars == <<record, log, seen>>

NoRecord == [n |-> 0, by |-> 0, at |-> 0, del |-> FALSE]

Init ==
  /\ record = [k \in Keys |-> NoRecord]
  /\ log = [k \in Keys |-> {0}]
  /\ seen = [d \in Devices |-> [k \in Keys |-> {0}]]

\* d replaces the record of k, whose current content it knows, or makes the
\* first one.
Write(d, k) ==
  /\ record[k].n # 0 \/ log[k] = {0}
  /\ record[k].n \in seen[d][k]
  /\ record[k].del => record'[k].del
  /\ \A j \in Keys \ {k} : record'[j] = record[j]
  /\ log' = [log EXCEPT ![k] = @ \cup {record'[k].n}]
  /\ UNCHANGED seen

\* d is shown contents that are, or once were, in the cloud.
Learn(d) ==
  /\ \A k \in Keys : /\ seen[d][k] \subseteq seen'[d][k]
                     /\ seen'[d][k] \subseteq seen[d][k] \cup log[k]
  /\ \A b \in Devices \ {d} : seen'[b] = seen[b]
  /\ UNCHANGED <<record, log>>

\* The collector takes a tombstone; nothing is ever written in its place.
Forget(k) ==
  /\ record[k].del
  /\ record' = [record EXCEPT ![k] = NoRecord]
  /\ UNCHANGED <<log, seen>>

Next ==
  \/ \E d \in Devices : Learn(d) \/ \E k \in Keys : Write(d, k)
  \/ \E k \in Keys : Forget(k)

Spec == Init /\ [][Next]_vars
=============================================================================
