------------------------ MODULE ResolverOrderProofs ------------------------
(***************************************************************************)
(* The resolver's order independence, for every set of concurrent edits.   *)
(*                                                                         *)
(* The argument: LocalWins is a strict total order on edits, so the        *)
(* content a replica holds is the greatest of those it has met, whatever   *)
(* the order and the side each meeting was decided on.                     *)
(***************************************************************************)
EXTENDS ResolverOrder, TLAPS

Met(p) == made \ unmet[p]

\* What each replica holds is one of the edits it met, and none beats it.
Greatest == /\ made \subseteq Edits
            /\ held \in [Replicas -> made]
            /\ unmet \in [Replicas -> SUBSET made]
            /\ \A p \in Replicas :
                 /\ held[p] \notin unmet[p]
                 /\ \A c \in Met(p) : ~LocalWins(c, held[p])

Later(u, v) == (u.at > v.at) \/ (u.at = v.at /\ u.by > v.by)

LEMMA EditShape ==
  ASSUME Authors \subseteq Nat, Stamps \subseteq Int, NEW x \in Edits
  PROVE  x.n = 1 /\ x.at \in Int /\ x.by \in Int /\ x.del \in BOOLEAN
<1>1. x.n = 1 /\ x.at \in Stamps /\ x.by \in Authors /\ x.del \in BOOLEAN
  BY DEF Edits
<1>2. x.at \in Int
  BY <1>1
<1>3. x.by \in Int
  <2>1. x.by \in Nat
    BY <1>1
  <2> QED BY <2>1
<1> QED BY <1>1, <1>2, <1>3

\* resolve() is decided by the deletes, then by the order of the stamps.
LEMMA WinsByCases ==
  ASSUME NEW x, NEW y
  PROVE  LocalWins(x, y) <=>
           (x.del /\ ~y.del) \/ ((x.del = y.del) /\ Later(x, y))
BY Zenon DEF LocalWins, Later

LEMMA LaterOrder ==
  ASSUME Authors \subseteq Nat, Stamps \subseteq Int,
         NEW x \in Edits, NEW y \in Edits, NEW z \in Edits
  PROVE  /\ ~Later(x, x)
         /\ Later(x, y) => ~Later(y, x)
         /\ ~Later(x, y) /\ ~Later(y, z) => ~Later(x, z)
         /\ ~Later(x, y) /\ ~Later(y, x) => x.at = y.at /\ x.by = y.by
<1>1. /\ x.at \in Int /\ y.at \in Int /\ z.at \in Int
      /\ x.by \in Int /\ y.by \in Int /\ z.by \in Int
  BY EditShape
<1> QED BY <1>1 DEF Later

\* Of two different edits exactly one wins, whichever side it is on.
LEMMA WinsTotal ==
  ASSUME Authors \subseteq Nat, Stamps \subseteq Int,
         NEW x \in Edits, NEW y \in Edits,
         ~LocalWins(x, y), ~LocalWins(y, x)
  PROVE  x = y
<1>1. x.del \in BOOLEAN /\ y.del \in BOOLEAN /\ x.n = 1 /\ y.n = 1
  BY EditShape
<1>2. x.del = y.del /\ ~Later(x, y) /\ ~Later(y, x)
  BY <1>1, WinsByCases, Zenon
<1>3. x.at = y.at /\ x.by = y.by
  BY <1>2, LaterOrder
<1> QED BY <1>1, <1>2, <1>3 DEF Edits

LEMMA WinsAsymmetric ==
  ASSUME Authors \subseteq Nat, Stamps \subseteq Int,
         NEW x \in Edits, NEW y \in Edits, LocalWins(x, y)
  PROVE  ~LocalWins(y, x)
<1>1. Later(x, y) => ~Later(y, x)
  BY LaterOrder
<1> QED BY <1>1, WinsByCases, Zenon

LEMMA WinsTransitive ==
  ASSUME Authors \subseteq Nat, Stamps \subseteq Int,
         NEW x \in Edits, NEW y \in Edits, NEW z \in Edits,
         ~LocalWins(x, y), ~LocalWins(y, z)
  PROVE  ~LocalWins(x, z)
<1>1. x.del \in BOOLEAN /\ y.del \in BOOLEAN /\ z.del \in BOOLEAN
  BY EditShape
<1>2. ~Later(x, y) /\ ~Later(y, z) => ~Later(x, z)
  BY LaterOrder
<1>3. /\ ~(x.del /\ ~y.del) /\ (x.del = y.del => ~Later(x, y))
      /\ ~(y.del /\ ~z.del) /\ (y.del = z.del => ~Later(y, z))
  BY WinsByCases, Zenon
<1>4. ~(x.del /\ ~z.del) /\ (x.del = z.del => ~Later(x, z))
  <2>1. x.del => z.del
    BY <1>3, Zenon
  <2>2. ASSUME x.del = z.del PROVE ~Later(x, z)
    <3>1. x.del = y.del /\ y.del = z.del
      BY <1>1, <1>3, <2>2, Zenon
    <3> QED BY <1>2, <1>3, <3>1, Zenon
  <2> QED BY <2>1, <2>2, Zenon
<1> QED BY <1>4, WinsByCases, Zenon

\* Either side of resolve() keeps an edit that neither of the two beats.
LEMMA KeptIsGreatest ==
  ASSUME Authors \subseteq Nat, Stamps \subseteq Int,
         NEW x \in Edits, NEW y \in Edits, NEW k \in {Resolve(x, y), Resolve(y, x)}
  PROVE  /\ k \in {x, y}
         /\ ~LocalWins(x, k) /\ ~LocalWins(y, k)
<1>1. ~LocalWins(x, x) /\ ~LocalWins(y, y)
  BY WinsAsymmetric
<1>2. LocalWins(x, y) => ~LocalWins(y, x)
  BY WinsAsymmetric
<1> QED BY <1>1, <1>2 DEF Resolve

LEMMA GreatestInit ==
  ASSUME Authors \subseteq Nat, Stamps \subseteq Int, Init
  PROVE  Greatest
<1>1. \A p \in Replicas : held[p] \in made /\ unmet[p] = made \ {held[p]}
  BY DEF Init
<1>2. \A x \in made : ~LocalWins(x, x)
  <2> TAKE x \in made
  <2>1. x \in Edits
    BY DEF Init
  <2> QED BY <2>1, WinsAsymmetric
<1>3. \A p \in Replicas : \A c \in Met(p) : c = held[p]
  BY <1>1 DEF Met
<1>4. held \in [Replicas -> made] /\ made \subseteq Edits
  BY DEF Init
<1>5. unmet \in [Replicas -> SUBSET made]
  BY DEF Init
<1> QED BY <1>1, <1>2, <1>3, <1>4, <1>5 DEF Greatest

LEMMA GreatestNext ==
  ASSUME Authors \subseteq Nat, Stamps \subseteq Int, Greatest, [Next]_vars
  PROVE  Greatest'
<1>1. CASE UNCHANGED vars
  BY <1>1 DEF vars, Greatest, Met
<1>2. ASSUME NEW p \in Replicas, NEW c \in made,
             NEW k \in {Resolve(held[p], c), Resolve(c, held[p])},
             Meet(p, c, k)
      PROVE  Greatest'
  <2>1. c \in Edits /\ held[p] \in Edits /\ held[p] \in made
    BY DEF Greatest
  <2>2. /\ k \in {held[p], c}
        /\ ~LocalWins(held[p], k) /\ ~LocalWins(c, k)
    BY <2>1, KeptIsGreatest
  <2>3. /\ made' = made /\ c \in unmet[p]
        /\ held' = [held EXCEPT ![p] = k]
        /\ unmet' = [unmet EXCEPT ![p] = unmet[p] \ {c}]
    BY <1>2 DEF Meet
  <2>4. /\ held' \in [Replicas -> made']
        /\ unmet' \in [Replicas -> SUBSET made']
    BY <2>1, <2>2, <2>3 DEF Greatest
  <2>5. ASSUME NEW q \in Replicas
        PROVE  /\ held'[q] \notin unmet'[q]
               /\ \A e \in made' \ unmet'[q] : ~LocalWins(e, held'[q])
    <3>1. CASE q # p
      <4>1. held'[q] = held[q] /\ unmet'[q] = unmet[q]
        BY <2>3, <3>1 DEF Greatest
      <4> QED BY <2>3, <4>1 DEF Greatest, Met
    <3>2. CASE q = p
      <4>1. held'[q] = k /\ unmet'[q] = unmet[p] \ {c}
        BY <2>3, <3>2 DEF Greatest
      <4>2. k \notin unmet[p] \ {c}
        BY <2>2, <3>2 DEF Greatest
      <4>3. ASSUME NEW e \in made \ (unmet[p] \ {c})
            PROVE  ~LocalWins(e, k)
        <5>1. CASE e = c
          BY <2>2, <5>1
        <5>2. CASE e # c
          <6>1. ~LocalWins(e, held[p])
            BY <5>2 DEF Greatest, Met
          <6>2. e \in Edits /\ k \in Edits
            BY <2>1, <2>2 DEF Greatest
          <6> QED BY <2>1, <2>2, <6>1, <6>2, WinsTransitive
        <5> QED BY <5>1, <5>2
      <4> QED BY <2>3, <4>1, <4>2, <4>3
    <3> QED BY <3>1, <3>2
  <2> QED BY <2>3, <2>4, <2>5 DEF Greatest, Met
<1> QED
  BY <1>1, <1>2 DEF Next, MeetAsLocal, MeetAsRemote

\* conflict-resolver.ts, rule 3 and its purpose: replicas that met the same
\* edits hold the same content, for any number of replicas and edits, ties
\* and null authors included.
THEOREM OrderIndependence ==
  Authors \subseteq Nat /\ Stamps \subseteq Int =>
    (Spec => []SameEditsSameContent)
<1> SUFFICES ASSUME Authors \subseteq Nat, Stamps \subseteq Int
             PROVE  Spec => []SameEditsSameContent
  OBVIOUS
<1>0. Init => Greatest
  BY GreatestInit
<1>1. Greatest /\ [Next]_vars => Greatest'
  BY GreatestNext
<1>2. Greatest => SameEditsSameContent
  <2> SUFFICES ASSUME Greatest, NEW p \in Replicas, NEW q \in Replicas,
                      unmet[p] = {}, unmet[q] = {}
               PROVE  held[p] = held[q]
    BY DEF SameEditsSameContent
  <2>1. held[p] \in Edits /\ held[q] \in Edits
    BY DEF Greatest
  <2>2. ~LocalWins(held[p], held[q]) /\ ~LocalWins(held[q], held[p])
    BY DEF Greatest, Met
  <2> QED BY <2>1, <2>2, WinsTotal
<1> QED BY <1>0, <1>1, <1>2, PTL DEF Spec

\* Rule 1, whatever the order: no replica that met a delete holds a live
\* content.
THEOREM DeletesAreKept ==
  Authors \subseteq Nat /\ Stamps \subseteq Int => (Spec => []DeleteIsKept)
<1> SUFFICES ASSUME Authors \subseteq Nat, Stamps \subseteq Int
             PROVE  Spec => []DeleteIsKept
  OBVIOUS
<1>0. Init => Greatest
  BY GreatestInit
<1>1. Greatest /\ [Next]_vars => Greatest'
  BY GreatestNext
<1>2. Greatest => DeleteIsKept
  <2> SUFFICES ASSUME Greatest, NEW p \in Replicas,
                      NEW c \in made \ unmet[p], c.del
               PROVE  held[p].del
    BY DEF DeleteIsKept
  <2>1. ~LocalWins(c, held[p]) /\ c \in Edits /\ held[p] \in Edits
    BY DEF Greatest, Met
  <2> QED BY <2>1 DEF LocalWins, Edits
<1> QED BY <1>0, <1>1, <1>2, PTL DEF Spec
=============================================================================
