--------------------------- MODULE MC_TombstoneGc ---------------------------
(***************************************************************************)
(* Small instances of TombstoneGc for TLC.                                 *)
(***************************************************************************)
EXTENDS TombstoneGc

MCTwoDevices == {1, 2}
MCOneKey == {1}
MCSameEntity == [k \in Keys |-> 1]
MCSlowClock == [d \in Devices |-> IF d = 2 THEN -1 ELSE 0]

\* The fourth edit is one of a record that has been collected: a row that is
\* left of it, or one that has vanished under a screen.
FourthIsLate == edits = 3 /\ edits' = 4 => collected # {}
=============================================================================
