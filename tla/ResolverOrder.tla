--------------------------- MODULE ResolverOrder ----------------------------
(***************************************************************************)
(* Concurrent edits of one record, resolved pairwise by replicas that see  *)
(* them in different orders, as devices do that were offline together.     *)
(* Each replica holds one content and resolves it against the next one it  *)
(* is shown; sometimes its own is the local side of resolve(), sometimes   *)
(* the remote side (it pushed, and the other replica pulls).               *)
(* ResolverOrderProofs proves both properties for every set of edits.      *)
(***************************************************************************)
EXTENDS ConflictResolver

CONSTANTS
  Replicas,
  Authors,    \* install ids as ranks; 0 is the null author
  Stamps      \* values of updated_at

\* An edit is identified here by what the resolver sees of it.
Edits == [n : {1}, by : Authors, at : Stamps, del : BOOLEAN]

VARIABLES
  made,   \* the edits
  held,   \* [Replicas -> Edits]
  unmet   \* [Replicas -> edits not yet met]

vars == <<made, held, unmet>>

Init ==
  /\ made \in SUBSET Edits
  /\ held \in [Replicas -> made]
  /\ unmet = [p \in Replicas |-> made \ {held[p]}]

Meet(p, c, kept) ==
  /\ c \in unmet[p]
  /\ held' = [held EXCEPT ![p] = kept]
  /\ unmet' = [unmet EXCEPT ![p] = @ \ {c}]
  /\ UNCHANGED made

\* applyRemote and handlePushConflict resolve with the own content as local.
MeetAsLocal(p, c) == Meet(p, c, Resolve(held[p], c))

\* The same meeting, decided by the replica on the other side.
MeetAsRemote(p, c) == Meet(p, c, Resolve(c, held[p]))

Next == \E p \in Replicas, c \in made : MeetAsLocal(p, c) \/ MeetAsRemote(p, c)

Spec == Init /\ [][Next]_vars

\* conflict-resolver.ts, rule 3 and its purpose: replicas that met the same
\* edits hold the same content, whatever the order and whichever side each
\* meeting was decided on.
SameEditsSameContent == \A p, q \in Replicas :
  unmet[p] = {} /\ unmet[q] = {} => held[p] = held[q]

\* Rule 1 whatever the order: once a delete was met no live content is held.
DeleteIsKept == \A p \in Replicas :
  (\E c \in made \ unmet[p] : c.del) => held[p].del
=============================================================================
