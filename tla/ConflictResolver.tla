-------------------------- MODULE ConflictResolver --------------------------
(***************************************************************************)
(* The last-write-wins policy of src/sync/conflict-resolver.ts, as pure    *)
(* operators.                                                              *)
(*                                                                         *)
(* A Content stands for what one local write put into a business row:      *)
(*   n   : the identity of the write (0 for "no write"),                   *)
(*   by  : updated_by, the install id of its author, as a rank in the      *)
(*         lexicographic order of install ids (0 is the null author, which *)
(*         the code compares as the empty string),                         *)
(*   at  : updated_at, the author's clock,                                 *)
(*   del : deleted_at is set.                                              *)
(* The remote side carries the same fields under the names authoredBy,     *)
(* authoredAt and tombstone.                                               *)
(***************************************************************************)
EXTENDS Integers

Content == [n : Nat, by : Nat, at : Int, del : BOOLEAN]

NoContent == [n |-> 0, by |-> 0, at |-> 0, del |-> FALSE]

\* The delete rule left out: the newer stamp wins whatever it says.
LocalWinsNoDeleteRule(l, r) ==
  \/ l.at > r.at
  \/ l.at = r.at /\ l.by > r.by

(***************************************************************************)
(* resolve(): TRUE when the decision is winner = "local".                  *)
(* A delete beats an update; then the newer stamp; then the author.        *)
(***************************************************************************)
LocalWins(l, r) ==
  \/ l.del /\ ~r.del
  \/ /\ l.del = r.del
     /\ \/ l.at > r.at
        \/ l.at = r.at /\ l.by > r.by

\* The content that is kept when l is the local and r the remote side.
Resolve(l, r) == IF LocalWins(l, r) THEN l ELSE r
=============================================================================
