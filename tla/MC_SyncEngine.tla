---------------------------- MODULE MC_SyncEngine ----------------------------
(***************************************************************************)
(* Small instances of SyncEngine for TLC.                                  *)
(***************************************************************************)
EXTENDS SyncEngine

MCTwoDevices == {1, 2}
MCOneKey == {1}
MCThreeKeys == {1, 2, 3}

MCSameEntity == [k \in Keys |-> 1]
\* Two keys of a first entity type, the others of a second.
MCTwoAndOne == [k \in Keys |-> IF k <= 2 THEN 1 ELSE 2]

\* The second device is one edit behind, so stamps of different devices tie.
MCSlowClock == [d \in Devices |-> IF d = 2 THEN -1 ELSE 0]

\* Devices differ in their clock and in their rank at a tie, and keys of one
\* entity type in their order at a tie, neither of which the paging run asks
\* about: the first device makes the first edit, and not of the second key.
FirstEdit == edits = 0 /\ edits' = 1 => row'[2] = row[2] /\ row'[1][2] = row[1][2]
=============================================================================
