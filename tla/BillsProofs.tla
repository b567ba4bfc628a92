----------------------------- MODULE BillsProofs -----------------------------
(***************************************************************************)
(* Theorems of Bills for every salon: any staff, price list, rules,        *)
(* discounts and bounds.                                                   *)
(*                                                                         *)
(* First the theory of the sums: what adding an instance, splitting by a   *)
(* class and renaming do to SumFunction.  Then the inductive invariant:    *)
(* every stored line earns what its rule says and every header is the sum  *)
(* of its lines (BillsInv), at most one row is an owner's (OwnersInv), and *)
(* the open form is in order (FormInv): its lines are explained too, a     *)
(* line without an employee is one that nobody can be chosen for, an edit  *)
(* that was not repriced holds the money of its bill, and one opened under *)
(* the lock only employees of its bill or owners.  One lemma per action    *)
(* shows that it is kept.  The reports then agree because the figures of   *)
(* the headers and those of the items are the same sum, split by bill, by  *)
(* employee and by service.                                                *)
(***************************************************************************)
EXTENDS Bills, TLAPS, FiniteSetTheorems

(***************************************************************************)
(* Sums.  SumFunction is a recursive function over the subsets of the      *)
(* domain, which takes its elements in an order of its own.  The library   *)
(* has no theorem of it, and its induction theorems take operators: here   *)
(* induction is on the set of the instances that hold.                     *)
(***************************************************************************)
LEMMA LeastNatural ==
  ASSUME NEW S \in SUBSET Nat, S # {}
  PROVE  \E n \in S : \A m \in S : n <= m
<1> DEFINE R == OpToRel(<, Nat)
<1>1. IsWellFoundedOn(R, Nat)
  BY NatLessThanWellFounded, Zenon
<1>2. PICK n \in S : \A m \in S : <<m, n>> \notin R
  <2> HIDE DEF R
  <2> QED BY <1>1, WFMin, Zenon
<1>3. \A m \in S : ~(m < n)
  BY <1>2 DEF OpToRel
<1> QED BY <1>3

\* Induction on the size of the subsets of a finite set.
LEMMA SizeInduction ==
  ASSUME NEW D, IsFiniteSet(D), NEW T \in SUBSET SUBSET D,
         \A s \in SUBSET D :
           (\A u \in SUBSET D : Cardinality(u) < Cardinality(s) => u \in T)
             => s \in T
  PROVE  \A s \in SUBSET D : s \in T
<1>1. \A s \in SUBSET D : Cardinality(s) \in Nat
  BY FS_Subset, FS_CardinalityType
<1> SUFFICES ASSUME NEW v \in SUBSET D, v \notin T
             PROVE  FALSE
  OBVIOUS
<1> DEFINE Sizes == {Cardinality(s) : s \in (SUBSET D) \ T}
<1>2. Sizes \in SUBSET Nat /\ Sizes # {}
  BY <1>1
<1>3. PICK n \in Sizes : \A m \in Sizes : n <= m
  <2> HIDE DEF Sizes
  <2> QED BY <1>2, LeastNatural, Zenon
<1>4. PICK s \in (SUBSET D) \ T : Cardinality(s) = n
  BY <1>3
<1>5. ASSUME NEW u \in SUBSET D, Cardinality(u) < Cardinality(s), u \notin T
      PROVE  FALSE
  <2>1. Cardinality(u) \in Sizes
    BY <1>5
  <2>2. n <= Cardinality(u)
    BY <1>3, <2>1
  <2> QED BY <1>1, <1>4, <1>5, <2>2
<1> QED BY <1>4, <1>5

LEMMA Removed ==
  ASSUME NEW s, IsFiniteSet(s), NEW x \in s
  PROVE  /\ IsFiniteSet(s \ {x})
         /\ Cardinality(s) \in Nat /\ Cardinality(s \ {x}) \in Nat
         /\ Cardinality(s \ {x}) < Cardinality(s)
<1>1. IsFiniteSet(s \ {x}) /\ Cardinality(s \ {x}) = Cardinality(s) - 1
  BY FS_RemoveElement
<1> QED BY <1>1, FS_CardinalityType

\* Induction by adding one element.
LEMMA SetInduction ==
  ASSUME NEW D, IsFiniteSet(D), NEW T \in SUBSET SUBSET D, {} \in T,
         \A s \in T : \A x \in D \ s : s \cup {x} \in T
  PROVE  D \in T
<1>1. ASSUME NEW s \in SUBSET D,
             \A u \in SUBSET D : Cardinality(u) < Cardinality(s) => u \in T
      PROVE  s \in T
  <2>1. CASE s = {}
    BY <2>1
  <2>2. CASE s # {}
    <3>1. PICK x \in s : TRUE
      BY <2>2
    <3>2. Cardinality(s \ {x}) < Cardinality(s)
      BY <3>1, FS_Subset, Removed
    <3>3. s \ {x} \in T
      BY <1>1, <3>2
    <3>4. (s \ {x}) \cup {x} = s
      BY <3>1
    <3> QED BY <3>3, <3>4
  <2> QED BY <2>1, <2>2
<1> HIDE DEF Cardinality
<1>2. \A s \in SUBSET D : s \in T
  BY <1>1, SizeInduction, Zenon
<1> QED BY <1>2

\* What the fold adds up, element by element.
Pick(s) == CHOOSE x \in s : TRUE
Summed(f, g) ==
  [s \in SUBSET DOMAIN f |->
     IF s = {} THEN 0 ELSE f[Pick(s)] + g[s \ {Pick(s)}]]
Partial(f) == CHOOSE g : g = Summed(f, g)

LEMMA SumIsPartial ==
  ASSUME NEW f
  PROVE  SumFunction(f) = Partial(f)[DOMAIN f]
BY DEF SumFunction, SumFunctionOnSet, FoldFunctionOnSet, MapThenFoldSet,
       Partial, Summed, Pick

LEMMA PickRests ==
  ASSUME NEW s, IsFiniteSet(s), s # {}
  PROVE  /\ Pick(s) \in s
         /\ Cardinality(s \ {Pick(s)}) = Cardinality(s) - 1
         /\ Cardinality(s) \in Nat \ {0}
<1>1. Pick(s) \in s
  BY DEF Pick
<1> QED BY <1>1, FS_RemoveElement, FS_CardinalityType, FS_EmptySet

\* The recursion has a solution.
LEMMA PartialSums ==
  ASSUME NEW f, IsFiniteSet(DOMAIN f)
  PROVE  Partial(f) = Summed(f, Partial(f))
<1> DEFINE D == DOMAIN f
           UpTo(g, n) == \A s \in SUBSET D :
                           Cardinality(s) <= n => g[s] = Summed(f, g)[s]
           Solved == {n \in Nat : \E g : DOMAIN g = SUBSET D /\ UpTo(g, n)}
<1>0. \A s \in SUBSET D : IsFiniteSet(s) /\ Cardinality(s) \in Nat
  BY FS_Subset, FS_CardinalityType
<1>1. 0 \in Solved
  <2> DEFINE g == [s \in SUBSET D |-> 0]
  <2>1. \A s \in SUBSET D : Cardinality(s) <= 0 => s = {}
    BY <1>0, FS_EmptySet
  <2>2. UpTo(g, 0)
    BY <2>1 DEF Summed
  <2> QED BY <2>2
<1>2. ASSUME NEW n \in Solved
      PROVE  n + 1 \in Solved
  <2>1. PICK g : DOMAIN g = SUBSET D /\ UpTo(g, n)
    OBVIOUS
  <2> DEFINE h == [s \in SUBSET D |->
                     IF Cardinality(s) <= n THEN g[s]
                     ELSE f[Pick(s)] + g[s \ {Pick(s)}]]
  <2>2. ASSUME NEW s \in SUBSET D, Cardinality(s) <= n + 1
        PROVE  h[s] = Summed(f, h)[s]
    <3>1. CASE s = {}
      <4>1. Cardinality(s) <= n
        BY <3>1, FS_EmptySet
      <4>2. g[s] = 0
        BY <2>1, <3>1, <4>1 DEF Summed
      <4> QED BY <3>1, <4>1, <4>2 DEF Summed
    <3>2. CASE s # {}
      <4>1. /\ Pick(s) \in s /\ s \ {Pick(s)} \in SUBSET D
            /\ Cardinality(s \ {Pick(s)}) = Cardinality(s) - 1
        BY <1>0, <3>2, PickRests
      <4>2. h[s \ {Pick(s)}] = g[s \ {Pick(s)}]
        BY <1>0, <2>2, <4>1
      <4>3. h[s] = f[Pick(s)] + g[s \ {Pick(s)}]
        <5>1. CASE Cardinality(s) <= n
          <6>1. g[s] = Summed(f, g)[s]
            BY <2>1, <5>1
          <6> QED BY <3>2, <5>1, <6>1 DEF Summed
        <5>2. CASE ~(Cardinality(s) <= n)
          BY <5>2
        <5> QED BY <5>1, <5>2
      <4> QED BY <3>2, <4>2, <4>3 DEF Summed
    <3> QED BY <3>1, <3>2
  <2>3. DOMAIN h = SUBSET D /\ UpTo(h, n + 1)
    BY <2>2
  <2> HIDE DEF h, UpTo
  <2> QED BY <2>3
<1>3. Cardinality(D) \in Solved
  <2> HIDE DEF Solved
  <2>0. Cardinality(D) \in Nat
    BY FS_CardinalityType
  <2>1. Solved \subseteq Nat
    BY DEF Solved
  <2>2. ASSUME Nat \ Solved # {} PROVE FALSE
    <3>1. PICK n \in Nat \ Solved : \A m \in Nat \ Solved : n <= m
      BY <2>2, LeastNatural, Zenon
    <3>2. n # 0 /\ n - 1 \in Nat
      BY <1>1, <3>1
    <3>3. n - 1 \in Solved
      BY <3>1, <3>2
    <3>4. (n - 1) + 1 \in Solved
      BY <1>2, <3>3
    <3> QED BY <3>1, <3>4
  <2> QED BY <2>0, <2>2
<1>4. PICK h : DOMAIN h = SUBSET D /\ UpTo(h, Cardinality(D))
  BY <1>3
<1> DEFINE g == [s \in SUBSET D |-> h[s]]
<1>5. \A s \in SUBSET D : Cardinality(s) <= Cardinality(D)
  BY FS_Subset
<1>6. \A s \in SUBSET D : g[s] = Summed(f, h)[s]
  BY <1>4, <1>5
<1>7. Summed(f, h) = Summed(f, g)
  BY DEF Summed
<1>8. g = Summed(f, g)
  BY <1>6, <1>7 DEF Summed
<1> QED BY <1>8 DEF Partial

LEMMA PartialRule ==
  ASSUME NEW f, IsFiniteSet(DOMAIN f), NEW s \in SUBSET DOMAIN f
  PROVE  /\ s = {} => Partial(f)[s] = 0
         /\ s # {} => Partial(f)[s] = f[Pick(s)] + Partial(f)[s \ {Pick(s)}]
<1>1. Partial(f) = Summed(f, Partial(f))
  BY PartialSums
<1>2. Summed(f, Partial(f))[s] =
        IF s = {} THEN 0 ELSE f[Pick(s)] + Partial(f)[s \ {Pick(s)}]
  BY DEF Summed
<1> QED BY <1>1, <1>2

\* Functions that agree on a set have the same sums over it.
LEMMA PartialAgree ==
  ASSUME NEW f, NEW h, IsFiniteSet(DOMAIN f), IsFiniteSet(DOMAIN h),
         NEW D, D \subseteq DOMAIN f, D \subseteq DOMAIN h,
         \A x \in D : f[x] = h[x]
  PROVE  Partial(f)[D] = Partial(h)[D]
<1> DEFINE T == {s \in SUBSET D : Partial(f)[s] = Partial(h)[s]}
<1>0. IsFiniteSet(D)
  BY FS_Subset
<1>1. ASSUME NEW s \in SUBSET D,
             \A u \in SUBSET D : Cardinality(u) < Cardinality(s) => u \in T
      PROVE  s \in T
  <2>0. IsFiniteSet(s)
    BY <1>0, FS_Subset
  <2>1. CASE s = {}
    BY <2>1, PartialRule
  <2>2. CASE s # {}
    <3>1. /\ Pick(s) \in s /\ s \ {Pick(s)} \in SUBSET D
          /\ Cardinality(s \ {Pick(s)}) < Cardinality(s)
      BY <2>0, <2>2, PickRests
    <3>2. Partial(f)[s \ {Pick(s)}] = Partial(h)[s \ {Pick(s)}]
      BY <1>1, <3>1
    <3>3. /\ Partial(f)[s] = f[Pick(s)] + Partial(f)[s \ {Pick(s)}]
          /\ Partial(h)[s] = h[Pick(s)] + Partial(h)[s \ {Pick(s)}]
      BY <2>2, PartialRule
    <3> QED BY <3>1, <3>2, <3>3
  <2> QED BY <2>1, <2>2
<1>2. \A s \in SUBSET D : s \in T
  <2> HIDE DEF T
  <2>1. T \in SUBSET SUBSET D
    BY DEF T
  <2> QED BY <1>0, <1>1, <2>1, SizeInduction, Zenon
<1> QED BY <1>2

\* A sum of integers is an integer, and any element may be taken first.
LEMMA PartialOrder ==
  ASSUME NEW D, IsFiniteSet(D), NEW f \in [D -> Int]
  PROVE  \A s \in SUBSET D :
           /\ Partial(f)[s] \in Int
           /\ \A x \in s : Partial(f)[s] = f[x] + Partial(f)[s \ {x}]
<1> DEFINE T == {s \in SUBSET D :
                   /\ Partial(f)[s] \in Int
                   /\ \A x \in s : Partial(f)[s] = f[x] + Partial(f)[s \ {x}]}
<1>1. ASSUME NEW s \in SUBSET D,
             \A u \in SUBSET D : Cardinality(u) < Cardinality(s) => u \in T
      PROVE  s \in T
  <2>0. IsFiniteSet(s)
    BY FS_Subset
  <2>1. CASE s = {}
    BY <2>1, PartialRule
  <2>2. CASE s # {}
    <3> DEFINE p == Pick(s)
    <3>1. p \in s /\ Partial(f)[s] = f[p] + Partial(f)[s \ {p}]
      BY <2>0, <2>2, PickRests, PartialRule
    <3>2. \A x \in s : Cardinality(s \ {x}) < Cardinality(s)
      BY <2>0, Removed
    <3> HIDE DEF p
    <3>3. \A x \in s : s \ {x} \in T
      <4> HIDE DEF T
      <4> QED BY <1>1, <3>2
    <3>4. Partial(f)[s] \in Int
      BY <3>1, <3>3
    <3>5. ASSUME NEW x \in s
          PROVE  Partial(f)[s] = f[x] + Partial(f)[s \ {x}]
      <4>1. CASE x = p
        BY <3>1, <4>1
      <4>2. CASE x # p
        <5>1. Partial(f)[s \ {p}] = f[x] + Partial(f)[(s \ {p}) \ {x}]
          BY <3>1, <3>3, <4>2
        <5>2. Partial(f)[s \ {x}] = f[p] + Partial(f)[(s \ {x}) \ {p}]
          BY <3>1, <3>3, <4>2
        <5>3. (s \ {p}) \ {x} = (s \ {x}) \ {p}
          OBVIOUS
        <5>4. /\ f[x] \in Int /\ f[p] \in Int
              /\ Partial(f)[(s \ {x}) \ {p}] \in Int
          <6>1. s \ {x} \in T
            BY <3>3
          <6>2. (s \ {x}) \ {p} \in T
            <7>1. /\ IsFiniteSet(s \ {x}) /\ Cardinality(s) \in Nat
                  /\ Cardinality(s \ {x}) < Cardinality(s)
              BY <2>0, Removed
            <7>2. /\ Cardinality((s \ {x}) \ {p}) < Cardinality(s \ {x})
                  /\ Cardinality((s \ {x}) \ {p}) \in Nat
                  /\ Cardinality(s \ {x}) \in Nat
              <8>1. p \in s \ {x}
                BY <3>1, <4>2
              <8> QED BY <7>1, <8>1, Removed
            <7>3. Cardinality((s \ {x}) \ {p}) < Cardinality(s)
              BY <7>1, <7>2
            <7> HIDE DEF T
            <7> QED BY <1>1, <7>3
          <6> QED BY <3>1, <6>2
        <5>5. Partial(f)[s] = f[p] + (f[x] + Partial(f)[(s \ {x}) \ {p}])
          BY <3>1, <5>1, <5>3
        <5> HIDE DEF T
        <5> QED BY <5>2, <5>4, <5>5
      <4> QED BY <4>1, <4>2
    <3> QED BY <3>4, <3>5
  <2> QED BY <2>1, <2>2
<1> HIDE DEF T
<1>2. T \in SUBSET SUBSET D
  BY DEF T
<1>3. \A s \in SUBSET D : s \in T
  BY <1>1, <1>2, SizeInduction, Zenon
<1> QED BY <1>3 DEF T

\* The two rules of sums the rest of this module uses.
On(f, S) == [x \in S |-> f[x]]

LEMMA SumRules ==
  ASSUME NEW D, IsFiniteSet(D), NEW f \in [D -> Int]
  PROVE  /\ SumFunction(f) \in Int
         /\ D = {} => SumFunction(f) = 0
         /\ \A x \in D : SumFunction(f) = f[x] + SumFunction(On(f, D \ {x}))
<1>1. SumFunction(f) = Partial(f)[D]
  BY SumIsPartial
<1>0. \A s \in SUBSET D :
        /\ Partial(f)[s] \in Int
        /\ \A x \in s : Partial(f)[s] = f[x] + Partial(f)[s \ {x}]
  BY PartialOrder, Z3
<1>2. Partial(f)[D] \in Int
  BY PartialOrder
<1>3. D = {} => Partial(f)[D] = 0
  BY PartialRule
<1>4. ASSUME NEW x \in D
      PROVE  SumFunction(f) = f[x] + SumFunction(On(f, D \ {x}))
  <2>1. Partial(f)[D] = f[x] + Partial(f)[D \ {x}]
    BY <1>0
  <2>2. SumFunction(On(f, D \ {x})) = Partial(On(f, D \ {x}))[D \ {x}]
    <3>1. DOMAIN On(f, D \ {x}) = D \ {x}
      BY DEF On
    <3> QED BY <3>1, SumIsPartial
  <2>3. Partial(f)[D \ {x}] = Partial(On(f, D \ {x}))[D \ {x}]
    <3>1. /\ DOMAIN On(f, D \ {x}) = D \ {x}
          /\ \A y \in D \ {x} : f[y] = On(f, D \ {x})[y]
      BY DEF On
    <3>2. /\ IsFiniteSet(D \ {x}) /\ DOMAIN f = D
          /\ D \ {x} \subseteq D
      BY FS_Subset
    <3> DEFINE h == On(f, D \ {x})
               E == D \ {x}
    <3>3. /\ IsFiniteSet(DOMAIN f) /\ IsFiniteSet(DOMAIN h)
          /\ E \subseteq DOMAIN f /\ E \subseteq DOMAIN h
          /\ \A y \in E : f[y] = h[y]
      BY <3>1, <3>2
    <3> HIDE DEF h, E
    <3>4. Partial(f)[E] = Partial(h)[E]
      BY <3>3, PartialAgree, Zenon
    <3> QED BY <3>4 DEF h, E
  <2> QED BY <1>1, <2>1, <2>2, <2>3
<1> QED BY <1>1, <1>2, <1>3, <1>4

LEMMA SumOfNaturals ==
  ASSUME NEW D, IsFiniteSet(D), NEW f \in [D -> Nat]
  PROVE  SumFunction(f) \in Nat
<1> DEFINE T == {s \in SUBSET D : SumFunction(On(f, s)) \in Nat}
<1>1. {} \in T
  <2>1. On(f, {}) \in [{} -> Int]
    BY DEF On
  <2> QED BY <2>1, FS_EmptySet, SumRules
<1>2. ASSUME NEW s \in T, NEW x \in D \ s
      PROVE  s \cup {x} \in T
  <2>1. On(f, s \cup {x}) \in [s \cup {x} -> Int] /\ IsFiniteSet(s \cup {x})
    BY FS_Subset DEF On
  <2>2. /\ On(On(f, s \cup {x}), (s \cup {x}) \ {x}) = On(f, s)
        /\ On(f, s \cup {x})[x] = f[x]
    BY DEF On
  <2>3. SumFunction(On(f, s \cup {x})) = f[x] + SumFunction(On(f, s))
    BY <2>1, <2>2, SumRules
  <2> QED BY <2>3
<1>3. D \in T
  <2> HIDE DEF T
  <2>1. T \in SUBSET SUBSET D
    BY DEF T
  <2> QED BY <1>1, <1>2, <2>1, SetInduction, Zenon
<1>4. On(f, D) = f
  BY DEF On
<1> QED BY <1>3, <1>4

\* The sum over a set and one element more.
LEMMA SumGrows ==
  ASSUME NEW D, IsFiniteSet(D), NEW f \in [D -> Int],
         NEW s \in SUBSET D, NEW x \in D \ s
  PROVE  /\ SumFunction(On(f, s)) \in Int
         /\ SumFunction(On(f, s \cup {x})) = f[x] + SumFunction(On(f, s))
<1>1. /\ On(f, s) \in [s -> Int] /\ IsFiniteSet(s)
      /\ On(f, s \cup {x}) \in [s \cup {x} -> Int] /\ IsFiniteSet(s \cup {x})
  BY FS_Subset DEF On
<1>2. /\ On(On(f, s \cup {x}), (s \cup {x}) \ {x}) = On(f, s)
      /\ On(f, s \cup {x})[x] = f[x]
  BY DEF On
<1> QED BY <1>1, <1>2, SumRules

LEMMA SumOfZeros ==
  ASSUME NEW D, IsFiniteSet(D)
  PROVE  SumFunction([x \in D |-> 0]) = 0
<1> DEFINE f == [x \in D |-> 0]
           T == {s \in SUBSET D : SumFunction(On(f, s)) = 0}
<1>0. f \in [D -> Int] /\ On(f, D) = f
  BY DEF On
<1>1. {} \in T
  <2>1. On(f, {}) \in [{} -> Int]
    BY DEF On
  <2> QED BY <2>1, FS_EmptySet, SumRules
<1>2. ASSUME NEW s \in T, NEW x \in D \ s
      PROVE  s \cup {x} \in T
  <2>1. f[x] = 0
    OBVIOUS
  <2> HIDE DEF f
  <2>2. SumFunction(On(f, s \cup {x})) = f[x] + SumFunction(On(f, s))
    BY <1>0, SumGrows
  <2> QED BY <2>1, <2>2
<1>3. D \in T
  <2> HIDE DEF T
  <2>1. T \in SUBSET SUBSET D
    BY DEF T
  <2> QED BY <1>1, <1>2, <2>1, SetInduction, Zenon
<1> QED BY <1>0, <1>3

\* One value changed changes the sum by as much.
LEMMA SumBump ==
  ASSUME NEW D, IsFiniteSet(D), NEW f \in [D -> Int], NEW d \in D,
         NEW a \in Int, NEW h \in [D -> Int], h[d] = a + f[d],
         \A x \in D : x # d => h[x] = f[x]
  PROVE  SumFunction(h) = a + SumFunction(f)
<1>1. f[d] \in Int
  OBVIOUS
<1>2. On(h, D \ {d}) = On(f, D \ {d})
  BY DEF On
<1>3. On(f, D \ {d}) \in [D \ {d} -> Int] /\ IsFiniteSet(D \ {d})
  BY FS_Subset DEF On
<1>4. SumFunction(On(f, D \ {d})) \in Int
  BY <1>3, SumRules
<1>5. SumFunction(h) = h[d] + SumFunction(On(h, D \ {d}))
  BY <1>1, SumRules
<1>6. SumFunction(f) = f[d] + SumFunction(On(f, D \ {d}))
  BY SumRules
<1> QED BY <1>1, <1>2, <1>4, <1>5, <1>6

\* A sum may be taken class by class.
LEMMA SumByClass ==
  ASSUME NEW D, IsFiniteSet(D), NEW f \in [D -> Int],
         NEW E, IsFiniteSet(E), NEW g \in [D -> E]
  PROVE  SumFunction(f) =
           SumFunction([e \in E |-> SumFunction(On(f, {x \in D : g[x] = e}))])
<1> DEFINE Class(s, e) == {x \in s : g[x] = e}
           Classes(s) == [e \in E |-> SumFunction(On(f, Class(s, e)))]
           T == {s \in SUBSET D : SumFunction(On(f, s)) = SumFunction(Classes(s))}
<1>0. On(f, D) = f
  BY DEF On
<1>1. {} \in T
  <2>1. On(f, {}) \in [{} -> Int] /\ IsFiniteSet({})
    BY FS_EmptySet DEF On
  <2>2. SumFunction(On(f, {})) = 0
    BY <2>1, SumRules
  <2>3. \A e \in E : Class({}, e) = {}
    OBVIOUS
  <2>4. Classes({}) = [e \in E |-> 0]
    BY <2>2, <2>3
  <2>5. SumFunction(Classes({})) = 0
    <3> HIDE DEF Classes
    <3> QED BY <2>4, SumOfZeros
  <2> HIDE DEF Classes
  <2> QED BY <2>2, <2>5
<1>2. ASSUME NEW s \in T, NEW x \in D \ s
      PROVE  s \cup {x} \in T
  <2> DEFINE c == g[x]
  <2>0. c \in E /\ f[x] \in Int
    OBVIOUS
  <2>1. SumFunction(On(f, s \cup {x})) = f[x] + SumFunction(On(f, s))
    BY SumGrows
  <2>2. \A e \in E : Class(s, e) \in SUBSET D
    OBVIOUS
  <2>3. Classes(s) \in [E -> Int]
    <3>1. \A e \in E : SumFunction(On(f, Class(s, e))) \in Int
      <4> TAKE e \in E
      <4> DEFINE u == Class(s, e)
      <4>1. On(f, u) \in [u -> Int] /\ IsFiniteSet(u)
        BY FS_Subset DEF On
      <4> HIDE DEF u
      <4> QED BY <4>1, SumRules DEF u
    <3> QED BY <3>1
  <2>4. /\ Class(s \cup {x}, c) = Class(s, c) \cup {x}
        /\ \A e \in E : e # c => Class(s \cup {x}, e) = Class(s, e)
    OBVIOUS
  <2>5. SumFunction(On(f, Class(s \cup {x}, c))) =
          f[x] + SumFunction(On(f, Class(s, c)))
    <3> DEFINE u == Class(s, c)
    <3>1. u \in SUBSET D /\ x \in D \ u
      OBVIOUS
    <3> HIDE DEF u
    <3>2. SumFunction(On(f, u \cup {x})) = f[x] + SumFunction(On(f, u))
      BY <3>1, SumGrows
    <3> QED BY <2>4, <3>2 DEF u
  <2>6. /\ \A e \in E : e # c => Classes(s \cup {x})[e] = Classes(s)[e]
        /\ Classes(s \cup {x})[c] = f[x] + Classes(s)[c]
    BY <2>0, <2>4, <2>5
  <2>7. SumFunction(Classes(s \cup {x})) = f[x] + SumFunction(Classes(s))
    <3> DEFINE F == Classes(s)
               H == Classes(s \cup {x})
    <3>1. DOMAIN H = E /\ H = [e \in E |-> H[e]]
      OBVIOUS
    <3>2. /\ F \in [E -> Int] /\ c \in E /\ f[x] \in Int
          /\ H[c] = f[x] + F[c] /\ \A e \in E : e # c => H[e] = F[e]
      BY <2>0, <2>3, <2>6
    <3> HIDE DEF Classes, c, F, H
    <3>3. H \in [E -> Int]
      BY <3>1, <3>2
    <3>4. SumFunction(H) = f[x] + SumFunction(F)
      BY <3>2, <3>3, SumBump
    <3> QED BY <3>4 DEF F, H
  <2> HIDE DEF Classes
  <2> QED BY <2>1, <2>7
<1>3. D \in T
  <2> HIDE DEF T
  <2>1. T \in SUBSET SUBSET D
    BY DEF T
  <2> QED BY <1>1, <1>2, <2>1, SetInduction, Zenon
<1> QED BY <1>0, <1>3

\* The elements may be named otherwise.
LEMMA SumRenamed ==
  ASSUME NEW D, IsFiniteSet(D), NEW f \in [D -> Int],
         NEW S, IsFiniteSet(S), NEW q \in [S -> D],
         \A x \in S, y \in S : q[x] = q[y] => x = y,
         \A d \in D : \E x \in S : q[x] = d
  PROVE  SumFunction([x \in S |-> f[q[x]]]) = SumFunction(f)
<1> DEFINE h == [x \in S |-> f[q[x]]]
           Img(u) == {q[x] : x \in u}
           T == {u \in SUBSET S :
                   SumFunction(On(h, u)) = SumFunction(On(f, Img(u)))}
<1>0. /\ h \in [S -> Int] /\ On(h, S) = h /\ On(f, D) = f /\ Img(S) = D
  BY DEF On
<1>1. {} \in T
  <2>1. On(h, {}) = On(f, Img({}))
    BY DEF On
  <2> QED BY <2>1
<1>2. ASSUME NEW u \in T, NEW x \in S \ u
      PROVE  u \cup {x} \in T
  <2>1. /\ Img(u) \in SUBSET D /\ q[x] \in D \ Img(u)
        /\ Img(u \cup {x}) = Img(u) \cup {q[x]}
        /\ h[x] = f[q[x]]
    OBVIOUS
  <2> HIDE DEF Img, h
  <2>2. SumFunction(On(h, u \cup {x})) = h[x] + SumFunction(On(h, u))
    BY <1>0, SumGrows
  <2>3. SumFunction(On(f, Img(u) \cup {q[x]})) =
          f[q[x]] + SumFunction(On(f, Img(u)))
    BY <2>1, SumGrows
  <2> QED BY <2>1, <2>2, <2>3
<1>3. S \in T
  <2> HIDE DEF T
  <2>1. T \in SUBSET SUBSET S
    BY DEF T
  <2> QED BY <1>1, <1>2, <2>1, SetInduction, Zenon
<1> HIDE DEF h, Img
<1>4. SumFunction(h) = SumFunction(f)
  BY <1>0, <1>3
<1> QED BY <1>4 DEF h

(***************************************************************************)
(* The inductive invariant.                                                *)
(***************************************************************************)
\* A line earns what the rule it was priced with says.
Explained(line) == line.comm = Commission(line.by, line)
AllExplained(lines) == \A s \in Used(lines) : Explained(lines[s])

\* A header is the sum of its lines, and a deleted line has a deleted header.
AddsUp(t) ==
  /\ t.gross = Gross(t.lines) /\ t.comm = Earned(t.lines)
  /\ t.net = Larger(0, t.gross - Discounted(t.gross, t.disc))
  /\ t.gone => t.deleted

BillsInv ==
  \A b \in Bills : bills[b] # None =>
    AllExplained(bills[b].lines) /\ AddsUp(bills[b])

OwnersInv == \A e, d \in Owners(staff) : e = d

IsOpen(f) == f.on \in {"form", "sheet"}

\* What an open form has loaded; an owner on its list is one in the database.
Loaded(f, team) ==
  /\ f.staff \in Staffs /\ f.offers \in Offers
  /\ f.on = "sheet" => f.listed \in Offers
  /\ \A e \in Emps : f.staff[e].owner => team[e].owner

\* A line is left without an employee only while nobody is the default, or
\* when the form knows an active owner: the save that asked for one has failed.
OwnerToChoose(f) ==
  (f.emp # None /\ \E s \in Used(f.items) : f.items[s].emp = None) =>
    \E e \in Employees(f) : f.staff[e].owner

\* An edit that was opened under the lock gives lines to owners and to those
\* that are on the bill.
OnBill(t) == {t.emp} \cup {t.lines[s].emp : s \in Used(t.lines)}
BoundToBill(f, t) ==
  \A e \in Assigned(f) : e = None \/ e \in OnBill(t) \/ f.staff[e].owner

\* An edit that was not repriced holds the lines of its bill, or none.
SameMoney(items, lines) ==
  /\ Used(items) = Used(lines)
  /\ \A s \in Used(items) :
       /\ items[s].price = lines[s].price /\ items[s].qty = lines[s].qty
       /\ items[s].comm = lines[s].comm
Unpriced(f, t) ==
  Used(f.items) = {} \/ (SameMoney(f.items, t.lines) /\ f.disc = t.disc)

EditOk(f, t, lock) ==
  /\ t # None
  /\ f.bound => lock /\ BoundToBill(f, t)
  /\ ~f.repriced => Unpriced(f, t)

FormOk(f, team, ledger, lock) ==
  /\ AllExplained(f.items)
  /\ OwnerToChoose(f)
  /\ IsOpen(f) => Loaded(f, team)
  /\ (IsOpen(f) /\ f.id # None) => EditOk(f, ledger[f.id], lock)

FormInv == FormOk(form, staff, bills, locked)

(***************************************************************************)
(* Types of the values on a bill.                                          *)
(***************************************************************************)
RuleValues == Rules \cup Rates \cup {None}
Anyone == Emps \cup {None}

\* The forms, as TypeOK has them.
Forms ==
  [on : {"no", "form", "sheet", "preview"}, id : Bills \cup {None},
   staff : Staffs \cup {None}, offers : Offers \cup {None},
   listed : Offers \cup {None}, emp : Emps \cup {None},
   gender : Genders \cup {None}, mode : Modes,
   disc : Discounts \cup {None}, phone : Phones \cup {None},
   items : ItemsOf(Emps \cup {None}), repriced : BOOLEAN, bound : BOOLEAN]

LEMMA EffectiveType ==
  ASSUME NEW rule \in RuleValues, NEW e, NEW team \in Staffs, NEW seen
  PROVE  Effective(rule, e, team, seen) \in RuleValues
BY DEF Effective, RuleValues, Staffs

LEMMA PercentType ==
  ASSUME NEW amount \in Int, NEW pct \in Int
  PROVE  Percent(amount, pct) \in Int
<1>1. 2 * amount * pct + 100 \in Int
  OBVIOUS
<1> DEFINE x == 2 * amount * pct + 100
<1>2. x \div 200 \in Int
  <2> HIDE DEF x
  <2> QED BY <1>1 DEF x
<1> QED BY <1>2 DEF Percent

\* The commission is a number and looks at price, cost and quantity only.
LEMMA CommissionType ==
  ASSUME NEW rule \in RuleValues, NEW line,
         line.price \in Nat, line.cost \in Nat, line.qty \in Nat
  PROVE  Commission(rule, line) \in Int
<1>1. CASE rule = None
  BY <1>1 DEF Commission
<1>2. CASE rule # None
  <2>1. rule.value \in Nat
    BY <1>2, ListsAssumption DEF RuleValues
  <2>2. /\ rule.value * line.qty \in Int /\ line.cost * line.qty \in Int
        /\ line.price * line.qty \in Int
    BY <2>1
  <2> DEFINE m == Larger(0, Amount(line) - line.cost * line.qty)
  <2>3. m \in Int
    BY <2>2 DEF Larger, Amount
  <2>4. Percent(m, rule.value) \in Int
    <3> DEFINE v == rule.value
    <3>1. v \in Int
      BY <2>1
    <3> HIDE DEF m, v
    <3>2. Percent(m, v) \in Int
      BY <2>3, <3>1, PercentType
    <3> QED BY <3>2 DEF v
  <2> HIDE DEF m
  <2> QED BY <1>2, <2>2, <2>4 DEF Commission, m
<1> QED BY <1>1, <1>2

LEMMA CommissionSame ==
  ASSUME NEW rule, NEW x, NEW y,
         x.price = y.price, x.cost = y.cost, x.qty = y.qty
  PROVE  /\ Commission(rule, x) = Commission(rule, y)
         /\ Amount(x) = Amount(y)
BY DEF Commission, Amount

LEMMA PriceType ==
  ASSUME NEW tag \in Tags, NEW g
  PROVE  PickPrice(tag, g) \in Nat
<1>1. tag.male \in Nat /\ tag.female \in Nat
  BY ListsAssumption
<1> QED BY <1>1 DEF PickPrice

\* A line that was priced.
LEMMA PricedLine ==
  ASSUME NEW f, f.staff \in Staffs, NEW item \in ItemOf(Anyone)
  PROVE  /\ Priced(f, item) \in ItemOf(Anyone)
         /\ Priced(f, item).emp = item.emp
         /\ Explained(Priced(f, item))
<1> DEFINE by == Effective(item.rule, item.emp, f.staff, {"active"})
           c == Commission(by, item)
           p == [item EXCEPT !.by = by, !.comm = c]
<1>1. item.rule \in RuleValues
  BY DEF ItemOf, RuleValues
<1>2. by \in RuleValues
  BY <1>1, EffectiveType
<1>3. c \in Int
  <2> HIDE DEF by
  <2> QED BY <1>2, CommissionType DEF ItemOf
<1>4. p = Priced(f, item)
  BY DEF Priced
<1> HIDE DEF by, c
<1>5. /\ p \in ItemOf(Anyone) /\ p.emp = item.emp
      /\ p.price = item.price /\ p.cost = item.cost /\ p.qty = item.qty
      /\ p.by = by /\ p.comm = c
  BY <1>2, <1>3 DEF ItemOf, RuleValues
<1>6. c = Commission(by, item)
  BY DEF c
<1> HIDE DEF p
<1>7. Commission(by, p) = Commission(by, item)
  BY <1>5, CommissionSame
<1> QED BY <1>4, <1>5, <1>6, <1>7 DEF Explained

\* The sums of a bill are numbers, and depend on its lines only.
LEMMA LineSums ==
  ASSUME NEW lines \in ItemsOf(Anyone)
  PROVE  Gross(lines) \in Nat /\ Earned(lines) \in Int
<1>1. \A s \in Used(lines) : lines[s] \in ItemOf(Anyone)
  BY DEF Used, ItemsOf
<1>2. IsFiniteSet(Used(lines))
  BY ListsAssumption, FS_Subset DEF Used
<1>3. \A s \in Used(lines) : Amount(lines[s]) \in Nat /\ lines[s].comm \in Int
  <2> TAKE s \in Used(lines)
  <2>1. lines[s].price \in Nat /\ lines[s].qty \in Nat /\ lines[s].comm \in Int
    BY <1>1 DEF ItemOf
  <2> QED BY <2>1 DEF Amount
<1>4. /\ [s \in Used(lines) |-> Amount(lines[s])] \in [Used(lines) -> Nat]
      /\ [s \in Used(lines) |-> lines[s].comm] \in [Used(lines) -> Int]
  BY <1>3
<1>5. Gross(lines) \in Nat
  BY <1>2, <1>4, SumOfNaturals DEF Gross
<1>6. Earned(lines) \in Int
  BY <1>2, <1>4, SumRules DEF Earned
<1> QED BY <1>5, <1>6

LEMMA SumsAgree ==
  ASSUME NEW a, NEW b, SameMoney(a, b)
  PROVE  Gross(a) = Gross(b) /\ Earned(a) = Earned(b)
<1>1. \A s \in Used(a) : Amount(a[s]) = Amount(b[s]) /\ a[s].comm = b[s].comm
  BY DEF SameMoney, Amount
<1>2. [s \in Used(a) |-> Amount(a[s])] = [s \in Used(b) |-> Amount(b[s])]
  BY <1>1 DEF SameMoney
<1>3. [s \in Used(a) |-> a[s].comm] = [s \in Used(b) |-> b[s].comm]
  BY <1>1 DEF SameMoney
<1> QED BY <1>2, <1>3 DEF Gross, Earned

LEMMA DiscountType ==
  ASSUME NEW gross \in Nat, NEW d \in Discounts \cup {None}
  PROVE  /\ Discounted(gross, d) \in Int
         /\ Larger(0, gross - Discounted(gross, d)) \in Nat
<1>1. Discounted(gross, d) \in Int
  <2>1. CASE d = None
    BY <2>1 DEF Discounted
  <2>2. CASE d # None
    <3>1. d.value \in Int
      BY <2>2, ListsAssumption
    <3> DEFINE v == d.value
    <3>3. v \in Int
      BY <3>1
    <3> HIDE DEF v
    <3>2. Percent(gross, v) \in Int
      BY <3>3, PercentType
    <3> QED BY <2>2, <3>1, <3>2 DEF Discounted, v
  <2> QED BY <2>1, <2>2
<1> QED BY <1>1 DEF Larger

\* The lines as a save writes them: each has an employee, and the money that
\* the form shows.
LEMMA SavedLines ==
  ASSUME NEW f, f.staff \in Staffs, NEW items \in ItemsOf(Anyone),
         NEW primary \in Emps, NEW team \in Staffs, AllExplained(items)
  PROVE  LET new == Saved(f, items, primary, team)
         IN /\ new \in ItemsOf(Emps) /\ AllExplained(new)
            /\ SameMoney(items, new) /\ SameMoney(new, items)
            /\ \A s \in Used(items) :
                 new[s].emp =
                   IF items[s].emp = None THEN primary ELSE items[s].emp
<1> DEFINE new == Saved(f, items, primary, team)
           E(s) == IF items[s].emp = None THEN primary ELSE items[s].emp
           R(s) == IF E(s) \in Employees(f)
                   THEN Effective(items[s].rule, E(s), f.staff, {"active"})
                   ELSE Effective(items[s].rule, E(s), team, Known)
           L(s) == [price |-> items[s].price, cost |-> items[s].cost,
                    qty |-> items[s].qty, emp |-> E(s), rule |-> R(s),
                    comm |-> items[s].comm, by |-> items[s].by]
<1>1. new = [s \in Services |-> IF items[s] = None THEN None ELSE L(s)]
  BY DEF Saved
<1>2. ASSUME NEW s \in Used(items)
      PROVE  /\ L(s) \in ItemOf(Emps) /\ Explained(L(s)) /\ L(s) # None
             /\ s \in Services /\ items[s] # None
  <2>1. items[s] \in ItemOf(Anyone) /\ s \in Services /\ items[s] # None
    BY DEF Used, ItemsOf
  <2>2. E(s) \in Emps
    BY <2>1 DEF ItemOf, Anyone
  <2>3. R(s) \in RuleValues
    <3>1. items[s].rule \in RuleValues
      BY <2>1 DEF ItemOf, RuleValues
    <3> QED BY <3>1, EffectiveType
  <2> HIDE DEF E, R
  <2>4. L(s) \in ItemOf(Emps)
    BY <2>1, <2>2, <2>3 DEF ItemOf, RuleValues
  <2>5. Explained(L(s))
    <3>1. items[s].comm = Commission(items[s].by, items[s])
      BY DEF AllExplained, Explained
    <3>2. Commission(items[s].by, items[s]) = Commission(items[s].by, L(s))
      BY CommissionSame
    <3> QED BY <3>1, <3>2 DEF Explained
  <2>6. L(s) # None
    <3>1. L(s) \in ItemOf(Anyone)
      BY <2>4 DEF ItemOf, Anyone
    <3> QED BY <3>1, NoneAssumption DEF Anyone
  <2> QED BY <2>1, <2>4, <2>5, <2>6
<1> HIDE DEF L
<1>3. new \in ItemsOf(Emps)
  BY <1>1, <1>2 DEF ItemsOf, Used
<1>4. Used(new) = Used(items) /\ \A s \in Used(items) : new[s] = L(s)
  BY <1>1, <1>2 DEF Used
<1>5. AllExplained(new)
  BY <1>2, <1>4 DEF AllExplained
<1>6. \A s \in Used(items) :
        /\ new[s].price = items[s].price /\ new[s].qty = items[s].qty
        /\ new[s].comm = items[s].comm /\ new[s].emp = E(s)
  <2> HIDE DEF new, E, R
  <2>1. \A s \in Used(items) :
          /\ L(s).price = items[s].price /\ L(s).qty = items[s].qty
          /\ L(s).comm = items[s].comm /\ L(s).emp = E(s)
    BY DEF L
  <2> HIDE DEF L
  <2> QED BY <1>4, <2>1
<1> HIDE DEF new
<1>7. SameMoney(items, new) /\ SameMoney(new, items)
  BY <1>4, <1>6 DEF SameMoney
<1> QED BY <1>3, <1>5, <1>6, <1>7 DEF new

\* The bill a save writes adds up.
LEMMA HeaderAddsUp ==
  ASSUME NEW f \in Forms, f.staff \in Staffs, NEW items \in ItemsOf(Anyone),
         NEW primary \in Emps, NEW team \in Staffs, AllExplained(items),
         NEW who \in Customers \cup {None}
  PROVE  LET new == Header(f, items, primary, who, team)
         IN /\ new \in StoredBill
            /\ AllExplained(new.lines) /\ AddsUp(new)
            /\ new.lines = Saved(f, items, primary, team)
            /\ new.emp = primary /\ new.disc = f.disc /\ new.mode = f.mode
            /\ new.who = who /\ new.deleted = FALSE
            /\ new.comm = Earned(items)
            /\ new.net = Larger(0, Gross(items) - Discounted(Gross(items), f.disc))
<1> DEFINE new == Header(f, items, primary, who, team)
           g == Gross(items)
           n == Larger(0, g - Discounted(g, f.disc))
           c == Earned(items)
           L == Saved(f, items, primary, team)
<1>1. new = [emp |-> primary, mode |-> f.mode, disc |-> f.disc, gross |-> g,
             net |-> n, comm |-> c, who |-> who, phone |-> f.phone,
             deleted |-> FALSE, gone |-> FALSE, lines |-> L]
  BY DEF Header
<1>2. g \in Nat /\ c \in Int
  BY LineSums
<1>3. n \in Nat
  <2>1. f.disc \in Discounts \cup {None}
    BY DEF Forms
  <2> HIDE DEF g
  <2> QED BY <1>2, <2>1, DiscountType
<1>4. /\ L \in ItemsOf(Emps) /\ AllExplained(L) /\ SameMoney(L, items)
  BY SavedLines
<1> HIDE DEF L
<1>5. Gross(L) = g /\ Earned(L) = c
  BY <1>4, SumsAgree
<1> HIDE DEF new, g, n, c
<1>6. f.mode \in Modes /\ f.disc \in Discounts \cup {None}
      /\ f.phone \in Phones \cup {None}
  BY DEF Forms
<1>7. new \in StoredBill
  BY <1>1, <1>2, <1>3, <1>4, <1>6 DEF StoredBill
<1>8. AddsUp(new)
  BY <1>1, <1>5 DEF AddsUp, n
<1> QED BY <1>1, <1>4, <1>7, <1>8 DEF new, L, n, g, c

(***************************************************************************)
(* What a tap makes of the form.                                           *)
(***************************************************************************)
LEMMA LinesOk ==
  ASSUME NEW items, DOMAIN items = Services, items = [s \in Services |-> items[s]],
         \A s \in Services :
           items[s] = None \/ (items[s] \in ItemOf(Anyone) /\ Explained(items[s]))
  PROVE  items \in ItemsOf(Anyone) /\ AllExplained(items)
<1>1. items \in ItemsOf(Anyone)
  BY DEF ItemsOf
<1>2. AllExplained(items)
  BY DEF AllExplained, Used
<1> QED BY <1>1, <1>2

LEMMA LineOfForm ==
  ASSUME NEW f \in Forms, AllExplained(f.items), NEW s \in Services
  PROVE  /\ f.items[s] = None
              \/ (f.items[s] \in ItemOf(Anyone) /\ Explained(f.items[s]))
         /\ s \in Used(f.items) <=> f.items[s] # None
         /\ f.items = [x \in Services |-> f.items[x]]
<1>1. f.items \in ItemsOf(Anyone)
  BY DEF Forms, Anyone
<1>2. /\ f.items[s] = None \/ f.items[s] \in ItemOf(Anyone)
      /\ f.items = [x \in Services |-> f.items[x]]
  BY <1>1 DEF ItemsOf
<1> QED BY <1>2 DEF AllExplained, Used

\* A line that another employee takes over.
LEMMA ReassignedLine ==
  ASSUME NEW f, f.staff \in Staffs, NEW s \in Services,
         f.items[s] \in ItemOf(Anyone), NEW e \in Emps,
         rules \in [Emps -> [Services -> Rules \cup {None}]]
  PROVE  /\ Reassigned(f, s, e) \in ItemOf(Anyone)
         /\ Reassigned(f, s, e).emp = e
         /\ Explained(Reassigned(f, s, e))
<1> DEFINE x == [f.items[s] EXCEPT !.emp = e, !.rule = rules[e][s]]
<1>1. rules[e][s] \in Rules \cup {None}
  OBVIOUS
<1>2. x \in ItemOf(Anyone) /\ x.emp = e
  BY <1>1 DEF ItemOf, Anyone
<1>3. Reassigned(f, s, e) = Priced(f, x)
  BY DEF Reassigned
<1> HIDE DEF x
<1> QED BY <1>2, <1>3, PricedLine

\* A step that leaves what the form has loaded alone.
LEMMA FormKept ==
  ASSUME NEW f, NEW g, NEW team, NEW ledger, NEW lock,
         FormOk(f, team, ledger, lock),
         g.id = f.id, g.staff = f.staff, g.offers = f.offers,
         g.bound = f.bound, IsOpen(g) => IsOpen(f),
         g.on = "sheet" => g.listed \in Offers,
         AllExplained(g.items), OwnerToChoose(g),
         (IsOpen(g) /\ lock /\ g.bound /\ g.id # None) =>
           \A e \in Assigned(g) :
             e \in Assigned(f) \/ e = None \/ f.staff[e].owner,
         ~g.repriced => ~f.repriced /\ g.items = f.items /\ g.disc = f.disc
  PROVE  FormOk(g, team, ledger, lock)
<1>1. IsOpen(g) => Loaded(g, team)
  BY DEF FormOk, Loaded
<1>2. ASSUME IsOpen(g), g.id # None
      PROVE  EditOk(g, ledger[g.id], lock)
  <2>1. EditOk(f, ledger[f.id], lock)
    BY <1>2 DEF FormOk
  <2>2. ASSUME g.bound PROVE lock /\ BoundToBill(g, ledger[g.id])
    <3>1. lock /\ BoundToBill(f, ledger[f.id])
      BY <2>1, <2>2 DEF EditOk
    <3>2. \A e \in Assigned(g) :
            e \in Assigned(f) \/ e = None \/ f.staff[e].owner
      BY <1>2, <2>2, <3>1
    <3> QED BY <3>1, <3>2 DEF BoundToBill
  <2>3. ~g.repriced => Unpriced(g, ledger[g.id])
    BY <2>1 DEF EditOk, Unpriced
  <2> QED BY <2>1, <2>2, <2>3 DEF EditOk
<1> QED BY <1>1, <1>2 DEF FormOk

\* Nobody loses an employee, so no line is left without one anew.
LEMMA ChoiceKept ==
  ASSUME NEW f \in Forms, NEW g \in Forms, OwnerToChoose(f),
         g.staff = f.staff, g.emp = f.emp,
         \A s \in Used(g.items) : g.items[s].emp = None =>
           s \in Used(f.items) /\ f.items[s].emp = None
  PROVE  OwnerToChoose(g)
BY DEF OwnerToChoose, Employees

\* handleSelectEmployee keeps the form in order.
LEMMA Selecting ==
  ASSUME NEW f \in Forms, NEW e \in Emps, NEW team, NEW ledger, NEW lock,
         FormOk(f, team, ledger, lock), IsOpen(f),
         services \in Offers,
         rules \in [Emps -> [Services -> Rules \cup {None}]],
         (lock /\ f.id # None) => f.staff[e].owner
  PROVE  LET g == SelectEmployee(f, e)
         IN g \in Forms /\ FormOk(g, team, ledger, lock)
<1>1. CASE f.emp = e
  BY <1>1 DEF SelectEmployee
<1>2. CASE f.emp # e
  <2> DEFINE follows(s) == s \in Used(f.items)
                           /\ (f.emp = None \/ f.items[s].emp = f.emp)
             items == [s \in Services |-> IF follows(s) THEN Reassigned(f, s, e)
                                          ELSE f.items[s]]
             on == IF f.id = None /\ Used(f.items) = {} THEN "sheet" ELSE f.on
             listed == IF f.id = None /\ Used(f.items) = {} THEN services
                       ELSE f.listed
             g == [f EXCEPT !.emp = e, !.repriced = TRUE, !.items = items,
                            !.on = on, !.listed = listed]
  <2>1. SelectEmployee(f, e) = g
    BY <1>2 DEF SelectEmployee
  <2>2. /\ f.staff \in Staffs /\ f.offers \in Offers
        /\ f.on = "sheet" => f.listed \in Offers
        /\ AllExplained(f.items) /\ OwnerToChoose(f)
    BY DEF FormOk, Loaded
  <2>3. \A s \in Services : follows(s) =>
          /\ Reassigned(f, s, e) \in ItemOf(Anyone)
          /\ Reassigned(f, s, e).emp = e /\ Explained(Reassigned(f, s, e))
    BY <2>2, LineOfForm, ReassignedLine
  <2>4. \A s \in Services :
          items[s] = None \/ (items[s] \in ItemOf(Anyone) /\ Explained(items[s]))
    BY <2>2, <2>3, LineOfForm
  <2>5. items \in ItemsOf(Anyone) /\ AllExplained(items)
    <3>1. DOMAIN items = Services /\ items = [s \in Services |-> items[s]]
      OBVIOUS
    <3> HIDE DEF items
    <3> QED BY <2>4, <3>1, LinesOk
  <2>6. \A s \in Used(items) :
          s \in Used(f.items)
            /\ (items[s].emp = e
                \/ (items[s] = f.items[s] /\ f.emp # None /\ f.items[s].emp # f.emp))
    BY <2>3 DEF Used
  <2> HIDE DEF items
  <2>7. /\ on \in {"form", "sheet"} /\ listed \in Offers \cup {None}
        /\ on = "sheet" => listed \in Offers
    BY <2>2 DEF IsOpen, Forms
  <2> HIDE DEF on, listed
  <2>8. /\ g \in Forms /\ g.id = f.id /\ g.staff = f.staff /\ g.offers = f.offers
        /\ g.bound = f.bound /\ g.on = on /\ g.listed = listed
        /\ g.items = items /\ g.emp = e /\ g.repriced = TRUE
    <3>1. /\ g.id = f.id /\ g.staff = f.staff /\ g.offers = f.offers
          /\ g.bound = f.bound /\ g.on = on /\ g.listed = listed
          /\ g.items = items /\ g.emp = e /\ g.repriced = TRUE
      BY DEF Forms
    <3>2. g \in Forms
      <4>1. items \in ItemsOf(Emps \cup {None})
        BY <2>5 DEF Anyone
      <4>2. on \in {"no", "form", "sheet", "preview"} /\ e \in Emps \cup {None}
        BY <2>7
      <4> QED BY <4>1, <4>2, <2>7 DEF Forms
    <3> QED BY <3>1, <3>2
  <2> HIDE DEF g
  <2>9. OwnerToChoose(g)
    <3>1. SUFFICES ASSUME NEW s \in Used(g.items), g.items[s].emp = None
                   PROVE  \E x \in Employees(g) : g.staff[x].owner
      BY DEF OwnerToChoose
    <3>2. e # None
      BY NoneAssumption
    <3>3. f.items[s].emp = None /\ s \in Used(f.items) /\ f.emp # None
      BY <2>6, <2>8, <3>1, <3>2
    <3>4. \E x \in Employees(f) : f.staff[x].owner
      BY <2>2, <3>3 DEF OwnerToChoose
    <3> QED BY <2>8, <3>4 DEF Employees
  <2>10. \A x \in Assigned(g) : x = e \/ x \in Assigned(f)
    BY <2>6, <2>8 DEF Assigned
  <2>11. FormOk(g, team, ledger, lock)
    <3>1. (IsOpen(g) /\ lock /\ g.bound /\ g.id # None) =>
            \A x \in Assigned(g) :
              x \in Assigned(f) \/ x = None \/ f.staff[x].owner
      BY <2>8, <2>10
    <3> QED BY <2>5, <2>7, <2>8, <2>9, <3>1, FormKept
  <2> QED BY <2>1, <2>8, <2>11
<1> QED BY <1>1, <1>2

Inv == TypeOK /\ BillsInv /\ OwnersInv /\ FormInv

\* A step of the form alone.
LEMMA FormAlone ==
  ASSUME Inv, UNCHANGED <<database, changes, saves>>, taps' \in Nat,
         form' \in Forms, FormOk(form', staff, bills, locked)
  PROVE  Inv'
<1>1. TypeOK'
  BY DEF Inv, TypeOK, database, catalog, Forms
<1>2. BillsInv' /\ OwnersInv'
  BY DEF Inv, BillsInv, OwnersInv, Owners, AllExplained, Explained, AddsUp,
         Commission, Gross, Earned, Used, database, catalog
<1>3. FormInv'
  BY DEF FormInv, database, catalog
<1> QED BY <1>1, <1>2, <1>3 DEF Inv

\* The open form and its parts, as every tap finds them.
LEMMA OpenForm ==
  ASSUME Inv
  PROVE  /\ form \in Forms /\ FormOk(form, staff, bills, locked)
         /\ AllExplained(form.items) /\ OwnerToChoose(form)
         /\ IsOpen(form) =>
              /\ form.staff \in Staffs /\ form.offers \in Offers
              /\ form.on = "sheet" => form.listed \in Offers
         /\ services \in Offers
         /\ rules \in [Emps -> [Services -> Rules \cup {None}]]
<1>1. form \in Forms
  BY DEF Inv, TypeOK, Forms
<1>2. FormOk(form, staff, bills, locked)
  BY DEF Inv, FormInv
<1>3. services \in Offers /\ rules \in [Emps -> [Services -> Rules \cup {None}]]
  BY DEF Inv, TypeOK
<1> QED BY <1>1, <1>2, <1>3 DEF FormOk, Loaded

\* Who the picker offers.
LEMMA Picked ==
  ASSUME NEW f, NEW lock, NEW e \in BillingEmployees(f, lock)
  PROVE  e \in Emps /\ (lock => f.staff[e].owner)
BY DEF BillingEmployees, Employees

LEMMA PickingEmployee ==
  ASSUME Inv, NEW e \in Emps, PickEmployee(e)
  PROVE  Inv'
<1>1. /\ IsOpen(form) /\ e \in BillingEmployees(form, locked)
      /\ form' = SelectEmployee(form, e)
      /\ UNCHANGED <<database, changes, saves>> /\ taps' \in Nat
  BY DEF PickEmployee, Tap, IsOpen, Inv, TypeOK
<1>2. locked => form.staff[e].owner
  BY <1>1, Picked
<1>3. form' \in Forms /\ FormOk(form', staff, bills, locked)
  BY <1>1, <1>2, OpenForm, Selecting
<1> QED BY <1>1, <1>3, FormAlone

LEMMA ReassigningLine ==
  ASSUME Inv, NEW s \in Services, NEW e \in Emps, ReassignLine(s, e)
  PROVE  Inv'
<1> DEFINE line == Reassigned(form, s, e)
           items == [form.items EXCEPT ![s] = line]
<1>1. /\ form.on = "form" /\ IsOpen(form) /\ s \in Used(form.items)
      /\ e \in BillingEmployees(form, locked)
      /\ form' = [form EXCEPT !.items = items, !.repriced = TRUE]
      /\ UNCHANGED <<database, changes, saves>> /\ taps' \in Nat
  BY DEF ReassignLine, Tap, IsOpen, Inv, TypeOK
<1>2. locked => form.staff[e].owner
  BY <1>1, Picked
<1>3. line \in ItemOf(Anyone) /\ line.emp = e /\ Explained(line)
  BY <1>1, OpenForm, LineOfForm, ReassignedLine
<1> HIDE DEF line
<1>4. /\ items = [x \in Services |-> items[x]] /\ DOMAIN items = Services
      /\ \A x \in Services : items[x] = IF x = s THEN line ELSE form.items[x]
  BY OpenForm, LineOfForm
<1>5. items \in ItemsOf(Anyone) /\ AllExplained(items)
  <2>1. \A x \in Services :
          items[x] = None \/ (items[x] \in ItemOf(Anyone) /\ Explained(items[x]))
    BY <1>3, <1>4, OpenForm, LineOfForm
  <2> HIDE DEF items
  <2> QED BY <1>4, <2>1, LinesOk
<1> HIDE DEF items
<1>6. /\ form' \in Forms /\ form'.items = items /\ form'.repriced = TRUE
      /\ form'.id = form.id /\ form'.staff = form.staff /\ form'.emp = form.emp
      /\ form'.offers = form.offers /\ form'.bound = form.bound
      /\ form'.on = "form"
  BY <1>1, <1>5, OpenForm DEF Forms, Anyone
<1>7. \A x \in Used(form'.items) :
        \/ form'.items[x].emp = e
        \/ x \in Used(form.items) /\ form'.items[x] = form.items[x]
  BY <1>3, <1>4, <1>6 DEF Used
<1>8. OwnerToChoose(form')
  <2>1. \A x \in Used(form'.items) : form'.items[x].emp = None =>
          x \in Used(form.items) /\ form.items[x].emp = None
    BY <1>7, NoneAssumption
  <2> QED BY <1>6, <2>1, OpenForm, ChoiceKept
<1>9. \A x \in Assigned(form') : x = e \/ x \in Assigned(form)
  BY <1>6, <1>7 DEF Assigned
<1>10. FormOk(form', staff, bills, locked)
  <2>1. (IsOpen(form') /\ locked /\ form'.bound /\ form'.id # None) =>
          \A x \in Assigned(form') :
            x \in Assigned(form) \/ x = None \/ form.staff[x].owner
    BY <1>2, <1>9
  <2>2. /\ FormOk(form, staff, bills, locked)
        /\ form'.id = form.id /\ form'.staff = form.staff
        /\ form'.offers = form.offers /\ form'.bound = form.bound
    BY <1>6, OpenForm
  <2>3. /\ IsOpen(form') => IsOpen(form)
        /\ form'.on = "sheet" => form'.listed \in Offers
        /\ AllExplained(form'.items) /\ OwnerToChoose(form')
    BY <1>1, <1>5, <1>6, <1>8
  <2>4. ~form'.repriced =>
          ~form.repriced /\ form'.items = form.items /\ form'.disc = form.disc
    BY <1>6
  <2> QED BY <2>1, <2>2, <2>3, <2>4, FormKept
<1> QED BY <1>1, <1>6, <1>10, FormAlone

\* A tap that gives no line to anybody else.
LEMMA TapOnLines ==
  ASSUME Inv, UNCHANGED <<database, changes, saves>>, taps' \in Nat,
         IsOpen(form), form' \in Forms, AllExplained(form'.items),
         form'.id = form.id, form'.staff = form.staff, form'.emp = form.emp,
         form'.offers = form.offers, form'.bound = form.bound,
         form'.on = "sheet" => form'.listed \in Offers,
         \A s \in Used(form'.items) :
           s \in Used(form.items) /\ form'.items[s].emp = form.items[s].emp,
         ~form'.repriced =>
           ~form.repriced /\ form'.items = form.items /\ form'.disc = form.disc
  PROVE  Inv'
<1>1. OwnerToChoose(form')
  <2>1. \A s \in Used(form'.items) : form'.items[s].emp = None =>
          s \in Used(form.items) /\ form.items[s].emp = None
    OBVIOUS
  <2> QED BY <2>1, OpenForm, ChoiceKept
<1>2. \A x \in Assigned(form') : x \in Assigned(form)
  BY DEF Assigned
<1>3. FormOk(form', staff, bills, locked)
  <2>1. FormOk(form, staff, bills, locked)
    BY OpenForm
  <2>2. /\ IsOpen(form') => IsOpen(form)
        /\ (IsOpen(form') /\ locked /\ form'.bound /\ form'.id # None) =>
             \A x \in Assigned(form') :
               x \in Assigned(form) \/ x = None \/ form.staff[x].owner
    BY <1>2
  <2> QED BY <1>1, <2>1, <2>2, FormKept
<1> QED BY <1>3, FormAlone

\* The lines of the open form.
LEMMA FormLines ==
  ASSUME Inv, NEW s \in Services
  PROVE  /\ form.items[s] = None
              \/ (form.items[s] \in ItemOf(Anyone) /\ Explained(form.items[s]))
         /\ s \in Used(form.items) <=> form.items[s] # None
         /\ form.items = [x \in Services |-> form.items[x]]
BY OpenForm, LineOfForm

LEMMA PickingGender ==
  ASSUME Inv, NEW g \in Genders, PickGender(g)
  PROVE  Inv'
<1> DEFINE now == IF form.gender = g THEN None ELSE g
           price(s) == PickPrice(form.offers[s].tag, now)
           line(s) == Priced(form, [form.items[s] EXCEPT !.price = price(s)])
           anew(s) == s \in Used(form.items) /\ form.offers[s].active
           items == [s \in Services |->
                       IF anew(s) THEN line(s) ELSE form.items[s]]
<1>1. /\ form.on = "form" /\ IsOpen(form)
      /\ form' = [form EXCEPT !.gender = now, !.repriced = TRUE, !.items = items]
      /\ UNCHANGED <<database, changes, saves>> /\ taps' \in Nat
  BY DEF PickGender, Tap, IsOpen, Inv, TypeOK
<1>2. form.staff \in Staffs /\ form.offers \in Offers
  BY <1>1, OpenForm
<1>3. ASSUME NEW s \in Services, anew(s)
      PROVE  /\ line(s) \in ItemOf(Anyone) /\ Explained(line(s))
             /\ line(s).emp = form.items[s].emp
  <2>1. form.items[s] \in ItemOf(Anyone)
    BY <1>3, FormLines
  <2>2. price(s) \in Nat
    <3>1. form.offers[s].tag \in Tags
      BY <1>2 DEF Offers
    <3> HIDE DEF now
    <3> QED BY <3>1, PriceType
  <2> DEFINE x == [form.items[s] EXCEPT !.price = price(s)]
  <2> HIDE DEF price
  <2>3. x \in ItemOf(Anyone) /\ x.emp = form.items[s].emp
    BY <2>1, <2>2 DEF ItemOf
  <2> HIDE DEF x
  <2>4. /\ Priced(form, x) \in ItemOf(Anyone) /\ Explained(Priced(form, x))
        /\ Priced(form, x).emp = x.emp
    BY <1>2, <2>3, PricedLine
  <2> QED BY <2>3, <2>4 DEF x
<1> HIDE DEF line, price, now
<1>4. \A s \in Services :
        items[s] = None \/ (items[s] \in ItemOf(Anyone) /\ Explained(items[s]))
  BY <1>3, FormLines
<1>5. items \in ItemsOf(Anyone) /\ AllExplained(items)
  <2>1. DOMAIN items = Services /\ items = [s \in Services |-> items[s]]
    OBVIOUS
  <2> HIDE DEF items
  <2> QED BY <1>4, <2>1, LinesOk
<1>6. \A s \in Used(items) :
        s \in Used(form.items) /\ items[s].emp = form.items[s].emp
  BY <1>3, FormLines DEF Used
<1> HIDE DEF items
<1>7. now \in Genders \cup {None}
  BY DEF now
<1>8. /\ form' \in Forms /\ form'.items = items /\ form'.repriced = TRUE
      /\ form'.id = form.id /\ form'.staff = form.staff /\ form'.emp = form.emp
      /\ form'.offers = form.offers /\ form'.bound = form.bound
      /\ form'.on = "form"
  BY <1>1, <1>5, <1>7, OpenForm DEF Forms, Anyone
<1>9. /\ ~form'.repriced => FALSE
      /\ form'.on = "sheet" => FALSE
      /\ AllExplained(form'.items)
      /\ \A s \in Used(form'.items) :
           s \in Used(form.items) /\ form'.items[s].emp = form.items[s].emp
  BY <1>5, <1>6, <1>8
<1> QED BY <1>1, <1>8, <1>9, TapOnLines

LEMMA ChangingQty ==
  ASSUME Inv, NEW s \in Services, NEW d \in {-1, 1}, ChangeQty(s, d)
  PROVE  Inv'
<1> DEFINE qty == Larger(1, form.items[s].qty + d)
           line == Priced(form, [form.items[s] EXCEPT !.qty = qty])
           items == [form.items EXCEPT ![s] = line]
<1>1. /\ form.on = "form" /\ IsOpen(form) /\ s \in Used(form.items)
      /\ form' = [form EXCEPT !.items = items, !.repriced = TRUE]
      /\ UNCHANGED <<database, changes, saves>> /\ taps' \in Nat
  BY DEF ChangeQty, Tap, IsOpen, Inv, TypeOK
<1>2. form.staff \in Staffs
  BY <1>1, OpenForm
<1>3. /\ line \in ItemOf(Anyone) /\ Explained(line)
      /\ line.emp = form.items[s].emp
  <2>1. form.items[s] \in ItemOf(Anyone)
    BY <1>1, FormLines
  <2>2. qty \in Nat \ {0}
    <3>1. form.items[s].qty \in Nat \ {0}
      BY <2>1 DEF ItemOf
    <3> QED BY <3>1 DEF Larger
  <2> DEFINE x == [form.items[s] EXCEPT !.qty = qty]
  <2> HIDE DEF qty
  <2>3. x \in ItemOf(Anyone) /\ x.emp = form.items[s].emp
    BY <2>1, <2>2 DEF ItemOf
  <2> HIDE DEF x
  <2>4. /\ Priced(form, x) \in ItemOf(Anyone) /\ Explained(Priced(form, x))
        /\ Priced(form, x).emp = x.emp
    BY <1>2, <2>3, PricedLine
  <2> QED BY <2>3, <2>4 DEF x
<1> HIDE DEF line, qty
<1>4. /\ items = [x \in Services |-> items[x]] /\ DOMAIN items = Services
      /\ \A x \in Services : items[x] = IF x = s THEN line ELSE form.items[x]
  BY FormLines
<1>5. items \in ItemsOf(Anyone) /\ AllExplained(items)
  <2>1. \A x \in Services :
          items[x] = None \/ (items[x] \in ItemOf(Anyone) /\ Explained(items[x]))
    BY <1>3, <1>4, FormLines
  <2> HIDE DEF items
  <2> QED BY <1>4, <2>1, LinesOk
<1> HIDE DEF items
<1>6. \A x \in Used(items) :
        x \in Used(form.items) /\ items[x].emp = form.items[x].emp
  BY <1>1, <1>3, <1>4 DEF Used
<1>7. /\ form' \in Forms /\ form'.items = items /\ form'.repriced = TRUE
      /\ form'.id = form.id /\ form'.staff = form.staff /\ form'.emp = form.emp
      /\ form'.offers = form.offers /\ form'.bound = form.bound
      /\ form'.on = "form"
  BY <1>1, <1>5, OpenForm DEF Forms, Anyone
<1>8. /\ ~form'.repriced => FALSE
      /\ form'.on = "sheet" => FALSE
      /\ AllExplained(form'.items)
      /\ \A x \in Used(form'.items) :
           x \in Used(form.items) /\ form'.items[x].emp = form.items[x].emp
  BY <1>5, <1>6, <1>7
<1> QED BY <1>1, <1>7, <1>8, TapOnLines

LEMMA RemovingItem ==
  ASSUME Inv, NEW s \in Services, RemoveItem(s)
  PROVE  Inv'
<1> DEFINE items == [form.items EXCEPT ![s] = None]
<1>1. /\ form.on = "form" /\ IsOpen(form)
      /\ form' = [form EXCEPT !.items = items, !.repriced = TRUE]
      /\ UNCHANGED <<database, changes, saves>> /\ taps' \in Nat
  BY DEF RemoveItem, Tap, IsOpen, Inv, TypeOK
<1>2. /\ items = [x \in Services |-> items[x]] /\ DOMAIN items = Services
      /\ \A x \in Services : items[x] = IF x = s THEN None ELSE form.items[x]
  BY FormLines
<1>3. items \in ItemsOf(Anyone) /\ AllExplained(items)
  <2>1. \A x \in Services :
          items[x] = None \/ (items[x] \in ItemOf(Anyone) /\ Explained(items[x]))
    BY <1>2, FormLines
  <2> HIDE DEF items
  <2> QED BY <1>2, <2>1, LinesOk
<1> HIDE DEF items
<1>4. \A x \in Used(items) :
        x \in Used(form.items) /\ items[x].emp = form.items[x].emp
  BY <1>2 DEF Used
<1>5. /\ form' \in Forms /\ form'.items = items /\ form'.repriced = TRUE
      /\ form'.id = form.id /\ form'.staff = form.staff /\ form'.emp = form.emp
      /\ form'.offers = form.offers /\ form'.bound = form.bound
      /\ form'.on = "form"
  BY <1>1, <1>3, OpenForm DEF Forms, Anyone
<1>6. /\ ~form'.repriced => FALSE
      /\ form'.on = "sheet" => FALSE
      /\ AllExplained(form'.items)
      /\ \A x \in Used(form'.items) :
           x \in Used(form.items) /\ form'.items[x].emp = form.items[x].emp
  BY <1>3, <1>4, <1>5
<1> QED BY <1>1, <1>5, <1>6, TapOnLines

\* Discount, mode, customer, and the sheet opened and closed.
LEMMA TouchingNoLine ==
  ASSUME Inv,
         \/ \E d \in Discounts \cup {None} : SetDiscount(d)
         \/ \E m \in Modes : SetMode(m)
         \/ \E p \in Phones \cup {None} : SetCustomer(p)
         \/ OpenSheet \/ CloseSheet
  PROVE  Inv'
<1>1. /\ IsOpen(form) /\ UNCHANGED <<database, changes, saves>> /\ taps' \in Nat
  <2>1. /\ form.on = "form" \/ form.on = "sheet"
        /\ taps' = taps + 1 /\ UNCHANGED <<database, saves, changes>>
    BY Zenon DEF SetDiscount, SetMode, SetCustomer, OpenSheet, CloseSheet, Tap
  <2> QED BY <2>1 DEF IsOpen, Inv, TypeOK
<1> DEFINE Same == /\ form' \in Forms /\ form'.items = form.items
                   /\ form'.id = form.id /\ form'.staff = form.staff
                   /\ form'.emp = form.emp /\ form'.offers = form.offers
                   /\ form'.bound = form.bound
                   /\ ~form'.repriced => ~form.repriced /\ form'.disc = form.disc
                   /\ form'.on = "sheet" => form'.listed \in Offers
<1>2. Same
  <2>1. ASSUME NEW d \in Discounts \cup {None}, SetDiscount(d)
        PROVE  Same
    <3>1. /\ form.on = "form"
          /\ form' = [form EXCEPT !.disc = d, !.repriced = TRUE]
      BY <2>1 DEF SetDiscount, Tap
    <3> QED BY <3>1, OpenForm DEF Forms
  <2>2. ASSUME NEW m \in Modes, SetMode(m)
        PROVE  Same
    <3>1. form.on = "form" /\ form' = [form EXCEPT !.mode = m]
      BY <2>2 DEF SetMode, Tap
    <3> QED BY <3>1, OpenForm DEF Forms
  <2>3. ASSUME NEW p \in Phones \cup {None}, SetCustomer(p)
        PROVE  Same
    <3>1. form.on = "form" /\ form' = [form EXCEPT !.phone = p]
      BY <2>3 DEF SetCustomer, Tap
    <3> QED BY <3>1, OpenForm DEF Forms
  <2>4. ASSUME OpenSheet
        PROVE  Same
    <3>1. form' = [form EXCEPT !.on = "sheet", !.listed = services]
      BY <2>4 DEF OpenSheet, Tap
    <3> QED BY <3>1, OpenForm DEF Forms
  <2>5. ASSUME CloseSheet
        PROVE  Same
    <3>1. form' = [form EXCEPT !.on = "form"]
      BY <2>5 DEF CloseSheet, Tap
    <3> QED BY <3>1, OpenForm DEF Forms
  <2> HIDE DEF Same
  <2> QED BY <2>1, <2>2, <2>3, <2>4, <2>5
<1>3. /\ AllExplained(form'.items)
      /\ \A x \in Used(form'.items) :
           x \in Used(form.items) /\ form'.items[x].emp = form.items[x].emp
      /\ ~form'.repriced =>
           ~form.repriced /\ form'.items = form.items /\ form'.disc = form.disc
  BY <1>2, OpenForm
<1> QED BY <1>1, <1>2, <1>3, TapOnLines

\* buildBillItems: lines for the listed services, each with its employee of
\* before, the default, or one of the picker.
LEMMA Building ==
  ASSUME NEW f \in Forms, f.staff \in Staffs, f.listed \in Offers,
         AllExplained(f.items), NEW w \in Selections(f),
         rules \in [Emps -> [Services -> Rules \cup {None}]]
  PROVE  LET items == Built(f, w)
         IN /\ items \in ItemsOf(Anyone) /\ AllExplained(items)
            /\ Used(items) = DOMAIN w
            /\ \A s \in Used(items) :
                 /\ items[s].emp \in Assigned(f) \cup {None}
                                       \cup BillingEmployees(f, locked)
                 /\ items[s].emp = None =>
                      f.emp = None
                        \/ (s \in Used(f.items) /\ f.items[s].emp = None)
<1> DEFINE had(s) == s \in Used(f.items)
           default == IF f.emp \in Employees(f) THEN f.emp ELSE None
           who(s) == IF w[s] # None THEN w[s]
                     ELSE IF had(s) THEN f.items[s].emp ELSE default
           rule(s) == IF who(s) = None THEN None ELSE rules[who(s)][s]
           price(s) == PickPrice(f.listed[s].tag, f.gender)
           qty(s) == IF had(s) THEN f.items[s].qty ELSE 1
           line(s) == [price |-> price(s), cost |-> f.listed[s].tag.cost,
                       qty |-> qty(s), emp |-> who(s), rule |-> rule(s),
                       comm |-> 0, by |-> None]
           items == Built(f, w)
<1>1. items = [s \in Services |->
                 IF s \in DOMAIN w THEN Priced(f, line(s)) ELSE None]
  BY DEF Built
<1>2. /\ DOMAIN w \subseteq Services
      /\ \A s \in DOMAIN w : w[s] \in Assignable(f, s)
  <2>1. PICK ticked \in SUBSET {s \in Services : f.listed[s].active} :
          /\ w \in [ticked -> UNION {Assignable(f, s) : s \in ticked}]
          /\ \A s \in ticked : w[s] \in Assignable(f, s)
    BY Zenon DEF Selections
  <2> QED BY <2>1
<1>3. ASSUME NEW s \in DOMAIN w
      PROVE  /\ who(s) \in Anyone
             /\ who(s) \in Assigned(f) \cup {None} \cup BillingEmployees(f, locked)
             /\ who(s) = None =>
                  f.emp = None \/ (had(s) /\ f.items[s].emp = None)
  <2>1. /\ f.emp \in Anyone /\ BillingEmployees(f, locked) \subseteq Emps
        /\ had(s) => f.items[s].emp \in Anyone
    BY <1>2, LineOfForm DEF BillingEmployees, Employees, Forms, ItemOf, Anyone
  <2>2. had(s) => f.items[s].emp \in Assigned(f)
    BY DEF Assigned
  <2>3. f.emp \in Assigned(f)
    BY DEF Assigned
  <2>4. w[s] \in Assignable(f, s)
    BY <1>2
  <2>5. \/ w[s] \in BillingEmployees(f, locked)
        \/ had(s) /\ f.items[s].emp # None /\ w[s] = f.items[s].emp
        \/ had(s) /\ f.items[s].emp = None /\ w[s] \in {f.emp, None}
        \/ ~had(s) /\ w[s] = f.emp
    BY <2>4 DEF Assignable
  <2>6. None \notin Emps
    BY NoneAssumption
  <2>7. CASE w[s] # None
    <3>1. who(s) = w[s]
      BY <2>7
    <3> HIDE DEF who
    <3> QED BY <2>1, <2>2, <2>3, <2>5, <2>7, <3>1 DEF Anyone
  <2>8. CASE w[s] = None /\ had(s)
    <3>1. who(s) = f.items[s].emp
      BY <2>8
    <3> HIDE DEF who
    <3> QED BY <2>1, <2>2, <2>5, <2>6, <2>8, <3>1
  <2>9. CASE w[s] = None /\ ~had(s)
    <3>1. who(s) = default
      BY <2>9
    <3>2. f.emp = None
      BY <2>1, <2>5, <2>6, <2>9
    <3>3. default = None
      BY <3>2
    <3> HIDE DEF who, default
    <3> QED BY <3>1, <3>2, <3>3 DEF Anyone
  <2> QED BY <2>7, <2>8, <2>9
<1>4. ASSUME NEW s \in DOMAIN w
      PROVE  line(s) \in ItemOf(Anyone)
  <2>1. f.listed[s].tag \in Tags /\ s \in Services
    BY <1>2 DEF Offers
  <2>2. price(s) \in Nat
    BY <2>1, PriceType
  <2>3. f.listed[s].tag.cost \in Nat
    BY <2>1, ListsAssumption
  <2>4. qty(s) \in Nat \ {0}
    <3>1. had(s) => f.items[s] \in ItemOf(Anyone)
      BY <2>1, LineOfForm
    <3>2. had(s) => f.items[s].qty \in Nat \ {0}
      BY <3>1 DEF ItemOf
    <3> QED BY <3>2
  <2>5. who(s) \in Anyone
    BY <1>3
  <2>6. rule(s) \in Rules \cup {None}
    <3> HIDE DEF who
    <3> QED BY <2>1, <2>5 DEF Anyone
  <2> HIDE DEF price, qty, who, rule
  <2> QED BY <2>2, <2>3, <2>4, <2>5, <2>6 DEF ItemOf
<1>5. ASSUME NEW s \in DOMAIN w
      PROVE  /\ items[s] \in ItemOf(Anyone) /\ Explained(items[s])
             /\ items[s].emp = who(s) /\ s \in Services
  <2>1. line(s) \in ItemOf(Anyone) /\ line(s).emp = who(s)
    BY <1>4
  <2> HIDE DEF line, who
  <2>2. items[s] = Priced(f, line(s)) /\ s \in Services
    BY <1>1, <1>2
  <2> HIDE DEF items
  <2> QED BY <2>1, <2>2, PricedLine
<1>6. \A s \in Services : s \notin DOMAIN w => items[s] = None
  BY <1>1
<1>7. DOMAIN items = Services /\ items = [s \in Services |-> items[s]]
  BY <1>1
<1> HIDE DEF items, line
<1>8. items \in ItemsOf(Anyone) /\ AllExplained(items)
  BY <1>5, <1>6, <1>7, LinesOk
<1>9. Used(items) = DOMAIN w
  BY <1>5, <1>6, NoneAssumption DEF Used, Anyone
<1> HIDE DEF who
<1>10. \A s \in Used(items) :
         /\ items[s].emp \in Assigned(f) \cup {None}
                               \cup BillingEmployees(f, locked)
         /\ items[s].emp = None =>
              f.emp = None \/ (s \in Used(f.items) /\ f.items[s].emp = None)
  BY <1>3, <1>5, <1>9
<1> QED BY <1>8, <1>9, <1>10 DEF items

\* With the default unchanged, the built lines leave nobody out anew.
LEMMA BuiltChoice ==
  ASSUME NEW f \in Forms, NEW g \in Forms, OwnerToChoose(f),
         g.staff = f.staff, g.emp = f.emp,
         \A s \in Used(g.items) : g.items[s].emp = None =>
           f.emp = None \/ (s \in Used(f.items) /\ f.items[s].emp = None)
  PROVE  OwnerToChoose(g)
BY DEF OwnerToChoose, Employees

LEMMA FinishingSheet ==
  ASSUME Inv, SheetDone
  PROVE  Inv'
<1>1. PICK w \in Selections(form) :
        /\ form.on = "sheet" /\ IsOpen(form)
        /\ form' = [form EXCEPT !.on = "form", !.items = Built(form, w),
                                !.repriced = TRUE]
        /\ UNCHANGED <<database, changes, saves>> /\ taps' \in Nat
  <2>1. /\ form.on = "sheet"
        /\ \E w \in Selections(form) :
             Tap([form EXCEPT !.on = "form", !.items = Built(form, w),
                              !.repriced = TRUE])
    BY DEF SheetDone
  <2>2. PICK w \in Selections(form) :
          Tap([form EXCEPT !.on = "form", !.items = Built(form, w),
                           !.repriced = TRUE])
    BY <2>1
  <2>3. taps' \in Nat
    BY <2>2 DEF Tap, Inv, TypeOK
  <2> QED BY <2>1, <2>2, <2>3, Zenon DEF Tap, IsOpen
<1> DEFINE items == Built(form, w)
<1>2. /\ items \in ItemsOf(Anyone) /\ AllExplained(items)
      /\ \A s \in Used(items) :
           /\ items[s].emp \in Assigned(form) \cup {None}
                                 \cup BillingEmployees(form, locked)
           /\ items[s].emp = None =>
                form.emp = None
                  \/ (s \in Used(form.items) /\ form.items[s].emp = None)
  BY <1>1, OpenForm, Building
<1>3. form' = [form EXCEPT !.on = "form", !.items = items, !.repriced = TRUE]
  BY <1>1
<1> HIDE DEF items
<1>4. /\ form' \in Forms /\ form'.items = items /\ form'.repriced = TRUE
      /\ form'.id = form.id /\ form'.staff = form.staff /\ form'.emp = form.emp
      /\ form'.offers = form.offers /\ form'.bound = form.bound
      /\ form'.on = "form"
  BY <1>2, <1>3, OpenForm DEF Forms, Anyone
<1>5. OwnerToChoose(form')
  <2>1. \A s \in Used(form'.items) : form'.items[s].emp = None =>
          form.emp = None
            \/ (s \in Used(form.items) /\ form.items[s].emp = None)
    BY <1>2, <1>4
  <2> QED BY <1>4, <2>1, OpenForm, BuiltChoice
<1>6. (IsOpen(form') /\ locked /\ form'.bound /\ form'.id # None) =>
        \A x \in Assigned(form') :
          x \in Assigned(form) \/ x = None \/ form.staff[x].owner
  <2> SUFFICES ASSUME locked, NEW x \in Assigned(form')
               PROVE  x \in Assigned(form) \/ x = None \/ form.staff[x].owner
    OBVIOUS
  <2>1. x = form.emp \/ \E s \in Used(items) : x = items[s].emp
    BY <1>4 DEF Assigned
  <2>2. form.emp \in Assigned(form)
    BY DEF Assigned
  <2> QED BY <1>2, <2>1, <2>2, Picked
<1>7. FormOk(form', staff, bills, locked)
  <2>1. /\ FormOk(form, staff, bills, locked)
        /\ form'.id = form.id /\ form'.staff = form.staff
        /\ form'.offers = form.offers /\ form'.bound = form.bound
    BY <1>4, OpenForm
  <2>2. /\ IsOpen(form') => IsOpen(form)
        /\ form'.on = "sheet" => form'.listed \in Offers
        /\ AllExplained(form'.items) /\ OwnerToChoose(form')
    BY <1>1, <1>2, <1>4, <1>5
  <2>3. ~form'.repriced =>
          ~form.repriced /\ form'.items = form.items /\ form'.disc = form.disc
    BY <1>4
  <2> QED BY <1>6, <2>1, <2>2, <2>3, FormKept
<1> QED BY <1>1, <1>4, <1>7, FormAlone

(***************************************************************************)
(* A form opened, filled and left.                                         *)
(***************************************************************************)
LEMMA Empty ==
  /\ NoLines \in ItemsOf(Anyone) /\ Used(NoLines) = {}
  /\ AllExplained(NoLines)
BY DEF NoLines, ItemsOf, Used, AllExplained

LEMMA ClosedForm ==
  ASSUME NEW team, NEW ledger, NEW lock,
         NEW g \in {Closed, [Closed EXCEPT !.on = "preview"]}
  PROVE  g \in Forms /\ FormOk(g, team, ledger, lock)
<1>1. Closed \in Forms /\ Closed.items = NoLines /\ Closed.on = "no"
  BY Empty, ListsAssumption DEF Closed, Forms, Anyone
<1>2. g \in Forms /\ g.items = NoLines /\ g.on \in {"no", "preview"}
  BY <1>1 DEF Forms
<1> QED BY <1>2, Empty DEF FormOk, OwnerToChoose, IsOpen

LEMMA OpenedForm ==
  ASSUME Inv
  PROVE  /\ Opened \in Forms /\ IsOpen(Opened) /\ Opened.id = None
         /\ Opened.items = NoLines /\ Opened.emp = None
         /\ Opened.staff = staff /\ Opened.offers = services
         /\ Opened.bound = locked /\ Opened.on = "form"
         /\ FormOk(Opened, staff, bills, locked)
<1>1. Closed \in Forms /\ Closed.items = NoLines /\ Closed.emp = None
      /\ Closed.id = None
  BY Empty, ListsAssumption DEF Closed, Forms, Anyone
<1>2. staff \in Staffs /\ services \in Offers /\ locked \in BOOLEAN
      /\ SalonGender \in Genders
  BY ListsAssumption DEF Inv, TypeOK
<1>3. /\ Opened.id = None /\ Opened.items = NoLines /\ Opened.emp = None
      /\ Opened.staff = staff /\ Opened.offers = services
      /\ Opened.bound = locked /\ Opened.on = "form"
  BY <1>1 DEF Opened, Forms
<1>4. Opened \in Forms
  BY <1>1, <1>2 DEF Opened, Forms
<1>5. FormOk(Opened, staff, bills, locked)
  BY <1>2, <1>3, Empty DEF FormOk, OwnerToChoose, IsOpen, Loaded
<1> QED BY <1>3, <1>4, <1>5 DEF IsOpen

\* The effect that gives a new bill to the owner.
LEMMA Binding ==
  ASSUME Inv, NEW f \in Forms, NEW lock,
         FormOk(f, staff, bills, locked)
  PROVE  /\ Bound(f, lock) \in Forms
         /\ FormOk(Bound(f, lock), staff, bills, locked)
<1> DEFINE mine == BillingEmployees(f, lock)
           e == CHOOSE x \in mine : TRUE
<1>1. CASE IsOpen(f) /\ f.id = None /\ lock /\ mine # {} /\ f.emp \notin mine
  <2>1. e \in Emps
    <3>1. e \in mine
      BY <1>1
    <3> QED BY <3>1, Picked
  <2>2. Bound(f, lock) = SelectEmployee(f, e)
    BY <1>1, Zenon DEF Bound, IsOpen
  <2>3. /\ services \in Offers
        /\ rules \in [Emps -> [Services -> Rules \cup {None}]]
    BY OpenForm
  <2> HIDE DEF e
  <2>4. /\ SelectEmployee(f, e) \in Forms
        /\ FormOk(SelectEmployee(f, e), staff, bills, locked)
    BY <1>1, <2>1, <2>3, Selecting
  <2> QED BY <2>2, <2>4
<1>2. CASE ~(IsOpen(f) /\ f.id = None /\ lock /\ mine # {} /\ f.emp \notin mine)
  <2>1. Bound(f, lock) = f
    BY <1>2, Zenon DEF Bound, IsOpen
  <2> QED BY <2>1
<1> QED BY <1>1, <1>2

LEMMA StartingBill ==
  ASSUME Inv, NewBill
  PROVE  Inv'
<1>1. /\ form' = Bound(Opened, locked)
      /\ UNCHANGED <<database, changes, saves>> /\ taps' \in Nat
  BY DEF NewBill, Inv, TypeOK
<1>2. form' \in Forms /\ FormOk(form', staff, bills, locked)
  BY <1>1, OpenedForm, Binding
<1> QED BY <1>1, <1>2, FormAlone

LEMMA Discarding ==
  ASSUME Inv, Discard
  PROVE  Inv'
<1>1. /\ form' = Closed
      /\ UNCHANGED <<database, changes, saves>> /\ taps' \in Nat
  BY DEF Discard, Inv, TypeOK
<1>2. form' \in Forms /\ FormOk(form', staff, bills, locked)
  BY <1>1, ClosedForm
<1> QED BY <1>1, <1>2, FormAlone

\* A stored bill and its lines.
LEMMA StoredLines ==
  ASSUME Inv, NEW b \in Bills, bills[b] # None
  PROVE  /\ bills[b] \in StoredBill /\ AllExplained(bills[b].lines)
         /\ AddsUp(bills[b])
         /\ \A s \in Services :
              /\ bills[b].lines[s] = None \/ bills[b].lines[s] \in ItemOf(Emps)
              /\ s \in Used(bills[b].lines) <=> bills[b].lines[s] # None
<1>1. bills[b] \in StoredBill
  BY DEF Inv, TypeOK
<1>2. bills[b].lines \in ItemsOf(Emps)
  BY <1>1 DEF StoredBill
<1>3. AllExplained(bills[b].lines) /\ AddsUp(bills[b])
  BY DEF Inv, BillsInv
<1> QED BY <1>1, <1>2, <1>3 DEF ItemsOf, Used

\* An edit takes the lines over as they were saved.
LEMMA Filling ==
  ASSUME Inv, NEW f \in Forms, NEW team, FormOk(f, team, bills, locked),
         IsOpen(f), f.id # None
  PROVE  /\ Filled(f) \in Forms
         /\ FormOk(Filled(f), team, bills, locked)
<1> DEFINE t == bills[f.id]
           line(s) == Hydrated(t.lines[s], s)
           items == [s \in Services |->
                       IF t.lines[s] = None THEN None ELSE line(s)]
           g == [f EXCEPT !.emp = t.emp, !.mode = t.mode, !.disc = t.disc,
                          !.phone = t.phone, !.items = items]
<1>1. CASE ~HasMasters(f) \/ t.deleted
  BY <1>1 DEF Filled
<1>2. CASE ~(~HasMasters(f) \/ t.deleted)
  <2>1. Filled(f) = g
    BY <1>2 DEF Filled
  <2>2. f.id \in Bills /\ t # None /\ EditOk(f, t, locked)
    BY DEF FormOk, EditOk, Forms
  <2>3. /\ t \in StoredBill /\ AllExplained(t.lines)
        /\ \A s \in Services :
             /\ t.lines[s] = None \/ t.lines[s] \in ItemOf(Emps)
             /\ s \in Used(t.lines) <=> t.lines[s] # None
    BY <2>2, StoredLines
  <2>4. /\ t.emp \in Emps /\ t.mode \in Modes /\ t.disc \in Discounts \cup {None}
        /\ t.phone \in Phones \cup {None}
    BY <2>3 DEF StoredBill
  <2>5. ASSUME NEW s \in Services, t.lines[s] # None
        PROVE  /\ line(s) \in ItemOf(Anyone) /\ Explained(line(s))
               /\ line(s) # None /\ line(s).emp = t.lines[s].emp
               /\ line(s).emp \in Emps
               /\ line(s).price = t.lines[s].price
               /\ line(s).qty = t.lines[s].qty
               /\ line(s).comm = t.lines[s].comm
    <3> DEFINE l == t.lines[s]
    <3>1. l \in ItemOf(Emps) /\ Explained(l)
      BY <2>3, <2>5 DEF AllExplained
    <3> HIDE DEF l
    <3>2. l.emp \in Emps
      BY <3>1 DEF ItemOf
    <3>3. rules[l.emp][s] \in Rules \cup {None}
      BY <3>2, OpenForm
    <3> DEFINE h == Hydrated(l, s)
    <3>4. /\ h.emp = l.emp /\ h.price = l.price /\ h.qty = l.qty
          /\ h.comm = l.comm /\ h.cost = l.cost /\ h.by = l.by
      BY DEF Hydrated
    <3>5. h \in ItemOf(Anyone)
      BY <3>1, <3>2, <3>3 DEF Hydrated, ItemOf, Anyone
    <3> HIDE DEF h
    <3>6. h # None
      BY <3>5, NoneAssumption DEF Anyone
    <3>7. Explained(h)
      <4>1. Commission(l.by, h) = Commission(l.by, l)
        BY <3>4, CommissionSame
      <4> QED BY <3>1, <3>4, <4>1 DEF Explained
    <3> QED BY <3>2, <3>4, <3>5, <3>6, <3>7 DEF h, l
  <2> HIDE DEF line
  <2>6. items \in ItemsOf(Anyone) /\ AllExplained(items)
    <3>1. /\ DOMAIN items = Services /\ items = [s \in Services |-> items[s]]
          /\ \A s \in Services : items[s] = None
                \/ (items[s] \in ItemOf(Anyone) /\ Explained(items[s]))
      BY <2>5
    <3> HIDE DEF items
    <3> QED BY <3>1, LinesOk
  <2>7. /\ Used(items) = Used(t.lines)
        /\ \A s \in Used(items) : items[s] = line(s) /\ t.lines[s] # None
                                    /\ s \in Services
    BY <2>3, <2>5 DEF Used
  <2> HIDE DEF items
  <2>8. SameMoney(items, t.lines)
    BY <2>5, <2>7 DEF SameMoney
  <2>9. \A s \in Used(items) :
          items[s].emp \in Emps /\ items[s].emp = t.lines[s].emp
    BY <2>5, <2>7
  <2> HIDE DEF t
  <2>10. /\ g.id = f.id /\ g.staff = f.staff /\ g.emp = t.emp
         /\ g.offers = f.offers /\ g.bound = f.bound /\ g.on = f.on
         /\ g.listed = f.listed /\ g.items = items /\ g.disc = t.disc
    BY DEF Forms
  <2>11. g \in Forms
    <3>1. items \in ItemsOf(Emps \cup {None})
      BY <2>6 DEF Anyone
    <3> QED BY <2>4, <3>1 DEF Forms
  <2> HIDE DEF g
  <2>12. OwnerToChoose(g)
    BY <2>9, <2>10, NoneAssumption DEF OwnerToChoose
  <2>13. Loaded(g, team)
    BY <2>10 DEF FormOk, Loaded
  <2>14. EditOk(g, t, locked)
    <3>1. BoundToBill(g, t)
      BY <2>7, <2>9, <2>10 DEF BoundToBill, Assigned, OnBill
    <3>2. Unpriced(g, t)
      BY <2>8, <2>10 DEF Unpriced
    <3> QED BY <2>2, <2>10, <3>1, <3>2 DEF EditOk
  <2>15. FormOk(g, team, bills, locked)
    BY <2>6, <2>10, <2>12, <2>13, <2>14 DEF FormOk, t
  <2> QED BY <2>1, <2>11, <2>15
<1> QED BY <1>1, <1>2

LEMMA EditingBill ==
  ASSUME Inv, NEW b \in Bills, EditBill(b)
  PROVE  Inv'
<1> DEFINE f == [Opened EXCEPT !.id = b]
<1>1. /\ bills[b] # None /\ form' = Filled(f)
      /\ UNCHANGED <<database, changes, saves>> /\ taps' \in Nat
  BY DEF EditBill, Inv, TypeOK
<1>2. /\ f \in Forms /\ f.id = b /\ f.items = NoLines /\ f.emp = None
      /\ f.staff = staff /\ f.offers = services /\ f.bound = locked
      /\ f.on = "form"
  BY OpenedForm DEF Forms
<1> HIDE DEF f
<1>3. staff \in Staffs /\ services \in Offers
  BY DEF Inv, TypeOK
<1>4. b # None
  BY NoneAssumption
<1>5. EditOk(f, bills[b], locked)
  <2>1. BoundToBill(f, bills[b])
    BY <1>2, Empty DEF BoundToBill, Assigned
  <2>2. Unpriced(f, bills[b])
    BY <1>2, Empty DEF Unpriced
  <2> QED BY <1>1, <1>2, <2>1, <2>2 DEF EditOk
<1>6. FormOk(f, staff, bills, locked)
  BY <1>2, <1>3, <1>5, Empty DEF FormOk, OwnerToChoose, IsOpen, Loaded
<1>7. form' \in Forms /\ FormOk(form', staff, bills, locked)
  BY <1>1, <1>2, <1>4, <1>6, Filling DEF IsOpen
<1> QED BY <1>1, <1>7, FormAlone

(***************************************************************************)
(* A save.                                                                 *)
(***************************************************************************)
\* ensureOwnerEmployee leaves one active owner and takes no flag away.
LEMMA EnsuringOwner ==
  ASSUME Inv, NEW e \in OwnerEmployee
  PROVE  /\ e \in Emps /\ EnsuredOwner(e) \in Staffs
         /\ EnsuredOwner(e)[e].st = "active" /\ EnsuredOwner(e)[e].owner
         /\ \A x \in Emps : x # e => EnsuredOwner(e)[x] = staff[x]
         /\ \A x, y \in Owners(EnsuredOwner(e)) : x = y
<1> DEFINE team == EnsuredOwner(e)
<1>1. staff \in Staffs /\ \A x, y \in Owners(staff) : x = y
  BY DEF Inv, TypeOK, OwnersInv
<1>2. /\ e \in Emps
      /\ e \in Owners(staff) \/ (Owners(staff) = {} /\ staff[e].st = "none")
  BY DEF OwnerEmployee, Owners
<1>3. CASE e \in Owners(staff)
  <2>1. team = [staff EXCEPT ![e].st = "active"]
    BY <1>3 DEF EnsuredOwner
  <2>2. /\ team \in Staffs /\ team[e].st = "active"
        /\ team[e].owner = staff[e].owner
        /\ \A x \in Emps : x # e => team[x] = staff[x]
    BY <1>1, <1>2, <2>1 DEF Staffs, Known
  <2>3. staff[e].owner
    BY <1>3 DEF Owners
  <2> HIDE DEF team
  <2>4. \A x \in Owners(team) : x \in Owners(staff)
    BY <1>3, <2>2 DEF Owners
  <2> QED BY <1>1, <1>2, <2>2, <2>3, <2>4 DEF team
<1>4. CASE e \notin Owners(staff)
  <2>1. team = [staff EXCEPT ![e] =
                  [st |-> "active", owner |-> TRUE, rate |-> None]]
    BY <1>4 DEF EnsuredOwner
  <2>2. /\ team \in Staffs /\ team[e].st = "active" /\ team[e].owner
        /\ \A x \in Emps : x # e => team[x] = staff[x]
    BY <1>1, <1>2, <2>1 DEF Staffs, Known
  <2> HIDE DEF team
  <2>3. \A x \in Owners(team) : x = e
    BY <1>2, <1>4, <2>2 DEF Owners
  <2> QED BY <1>2, <2>2, <2>3 DEF team
<1> QED BY <1>3, <1>4

\* The header's employee is the default or that of one of the lines.
LEMMA PrimaryIsAssigned ==
  ASSUME NEW f \in Forms, NEW items \in ItemsOf(Anyone), Used(items) # {}
  PROVE  /\ Primary(f, items) \in Anyone
         /\ f.emp # None => Primary(f, items) = f.emp
         /\ f.emp = None =>
              \E s \in Used(items) : Primary(f, items) = items[s].emp
<1> DEFINE first == CHOOSE s \in Used(items) : \A x \in Used(items) : s <= x
<1>1. first \in Used(items)
  <2>1. Used(items) \in SUBSET Nat
    BY ListsAssumption DEF Used
  <2>2. \E s \in Used(items) : \A x \in Used(items) : s <= x
    BY <2>1, LeastNatural
  <2> QED BY <2>2
<1>2. items[first] \in ItemOf(Anyone)
  BY <1>1 DEF Used, ItemsOf
<1>3. Primary(f, items) = IF f.emp # None THEN f.emp ELSE items[first].emp
  BY DEF Primary
<1> HIDE DEF first
<1>4. items[first].emp \in Anyone
  BY <1>2 DEF ItemOf
<1>5. f.emp \in Anyone
  BY DEF Forms, Anyone
<1> QED BY <1>1, <1>3, <1>4, <1>5

\* What a save is given: the lines of the form, or those the sheet has built.
Saveable(items) ==
  /\ items \in ItemsOf(Anyone) /\ AllExplained(items) /\ Used(items) # {}
  /\ IsOpen(form)
  /\ form.id # None => items = form.items
  /\ \A s \in Used(items) : items[s].emp = None =>
       form.emp = None \/ (s \in Used(form.items) /\ form.items[s].emp = None)

\* Who the bill is booked to, and the staff the save leaves.
BookedTo(items, e, team) ==
  \/ /\ Primary(form, items) = None
     /\ e \in OwnerEmployee /\ team = EnsuredOwner(e)
  \/ Primary(form, items) = e /\ e # None /\ team = staff

\* The two ways a save ends.
Stuck(items, e, team) ==
  LET asked == Primary(form, items) = None
      stuck == [form EXCEPT !.on = "form", !.items = items,
                  !.emp = IF asked THEN e ELSE @,
                  !.staff = IF asked THEN [@ EXCEPT ![e] = team[e]] ELSE @]
  IN /\ form' = IF form.id = None \/ HasMasters(form) THEN stuck
                ELSE Filled(stuck)
     /\ UNCHANGED <<customers, bills>>

Stored(items, e, team, who, b) ==
  LET new == Written(b, Header(form, items, e, who, team))
  IN /\ form.phone = None => who = None
     /\ form.phone # None => who \in Upserted(form.phone)
     /\ form.id # None => b = form.id
     /\ form.id = None => bills[b] = None
     /\ bills' = [bills EXCEPT ![b] = new]
     /\ form' = AfterSave(new)
     /\ customers' = IF form.phone = None THEN customers
                     ELSE [customers EXCEPT ![who] =
                             [phone |-> form.phone, live |-> TRUE]]

LEMMA SaveCases ==
  ASSUME Inv, NEW items, Saveable(items), SaveBill(items)
  PROVE  \E e \in Emps : \E team \in Staffs :
           /\ BookedTo(items, e, team) /\ staff' = team
           /\ \/ Stuck(items, e, team)
              \/ \E who \in Customers \cup {None} : \E b \in Bills :
                   Stored(items, e, team, who, b)
<1> DEFINE primary == Primary(form, items)
           asked == primary = None
           team(e) == IF asked THEN EnsuredOwner(e) ELSE staff
           tagged == form.phone # None
<1>1. PICK e \in IF asked THEN OwnerEmployee ELSE {primary} :
        /\ staff' = team(e)
        /\ \/ Stuck(items, e, team(e))
           \/ \E who \in IF tagged THEN Upserted(form.phone) ELSE {None} :
                \E b \in IF form.id # None THEN {form.id}
                         ELSE {x \in Bills : bills[x] = None} :
                  LET new == Written(b, Header(form, items, e, who, team(e)))
                  IN /\ bills' = [bills EXCEPT ![b] = new]
                     /\ form' = AfterSave(new)
                     /\ customers' = IF ~tagged THEN customers
                          ELSE [customers EXCEPT ![who] =
                                  [phone |-> form.phone, live |-> TRUE]]
  BY Zenon DEF SaveBill, Stuck
<1>2. form \in Forms /\ staff \in Staffs
  BY OpenForm DEF Inv, TypeOK
<1>3. primary \in Anyone
  BY <1>2, PrimaryIsAssigned DEF Saveable
<1>4. e \in Emps /\ team(e) \in Staffs /\ BookedTo(items, e, team(e))
  BY <1>1, <1>2, <1>3, EnsuringOwner, NoneAssumption DEF BookedTo, Anyone
<1>5. CASE Stuck(items, e, team(e))
  BY <1>1, <1>4, <1>5
<1>6. CASE \E who \in IF tagged THEN Upserted(form.phone) ELSE {None} :
             \E b \in IF form.id # None THEN {form.id}
                      ELSE {x \in Bills : bills[x] = None} :
               LET new == Written(b, Header(form, items, e, who, team(e)))
               IN /\ bills' = [bills EXCEPT ![b] = new]
                  /\ form' = AfterSave(new)
                  /\ customers' = IF ~tagged THEN customers
                       ELSE [customers EXCEPT ![who] =
                               [phone |-> form.phone, live |-> TRUE]]
  <2>1. PICK who \in IF tagged THEN Upserted(form.phone) ELSE {None},
             b \in IF form.id # None THEN {form.id}
                   ELSE {x \in Bills : bills[x] = None} :
               LET new == Written(b, Header(form, items, e, who, team(e)))
               IN /\ bills' = [bills EXCEPT ![b] = new]
                  /\ form' = AfterSave(new)
                  /\ customers' = IF ~tagged THEN customers
                       ELSE [customers EXCEPT ![who] =
                               [phone |-> form.phone, live |-> TRUE]]
    BY <1>6
  <2>2. Stored(items, e, team(e), who, b)
    BY <2>1, Zenon DEF Stored
  <2>3. who \in Customers \cup {None}
    BY <2>1 DEF Upserted, WithPhone
  <2>4. b \in Bills
    BY <1>2, <2>1 DEF Forms
  <2> HIDE DEF team
  <2> QED BY <1>1, <1>4, <2>2, <2>3, <2>4
<1> QED BY <1>1, <1>5, <1>6

LEMMA SaveIsSaveable ==
  ASSUME Inv, Save
  PROVE  /\ Saveable(form.items) /\ SaveBill(form.items)
         /\ StaffOk(form, form.items)
<1>1. /\ form.on = "form" /\ Used(form.items) # {} /\ SaveBill(form.items)
      /\ StaffOk(form, form.items)
  BY DEF Save
<1>2. form.items \in ItemsOf(Anyone)
  BY OpenForm DEF Forms, Anyone
<1> QED BY <1>1, <1>2, OpenForm DEF Saveable, IsOpen

LEMMA SheetIsSaveable ==
  ASSUME Inv, SaveFromSheet
  PROVE  \E items : /\ Saveable(items) /\ SaveBill(items)
                    /\ StaffOk(form, items) /\ form.id = None
                    /\ form.mode = "cash" /\ form.disc = None
<1>1. PICK w \in Selections(form) :
        /\ form.on = "sheet" /\ AtDefaults(form) /\ DOMAIN w # {}
        /\ StaffOk(form, Built(form, w)) /\ SaveBill(Built(form, w))
  BY Zenon DEF SaveFromSheet
<1> DEFINE items == Built(form, w)
<1>2. IsOpen(form) /\ form.id = None /\ form.mode = "cash" /\ form.disc = None
  BY <1>1 DEF IsOpen, AtDefaults
<1>3. /\ items \in ItemsOf(Anyone) /\ AllExplained(items)
      /\ Used(items) # {}
      /\ \A s \in Used(items) : items[s].emp = None =>
           form.emp = None \/ (s \in Used(form.items) /\ form.items[s].emp = None)
  <2>1. form.staff \in Staffs /\ form.listed \in Offers
    BY <1>1, <1>2, OpenForm
  <2> QED BY <1>1, <2>1, OpenForm, Building
<1> QED BY <1>1, <1>2, <1>3 DEF Saveable

\* Where a save that failed leaves the form.
LEMMA StuckForm ==
  ASSUME Inv, NEW items, Saveable(items), NEW e \in Emps, NEW team \in Staffs,
         BookedTo(items, e, team), Stuck(items, e, team)
  PROVE  form' \in Forms /\ FormOk(form', team, bills, locked)
<1> DEFINE asked == Primary(form, items) = None
           emp == IF asked THEN e ELSE form.emp
           seen == IF asked THEN [form.staff EXCEPT ![e] = team[e]]
                   ELSE form.staff
           g == [form EXCEPT !.on = "form", !.items = items, !.emp = emp,
                             !.staff = seen]
<1>1. /\ form \in Forms /\ form.staff \in Staffs /\ form.offers \in Offers
      /\ AllExplained(form.items) /\ OwnerToChoose(form) /\ IsOpen(form)
  BY OpenForm DEF Saveable
<1>2. /\ items \in ItemsOf(Anyone) /\ AllExplained(items)
      /\ form.id # None => items = form.items
      /\ \A s \in Used(items) : items[s].emp = None =>
           form.emp = None \/ (s \in Used(form.items) /\ form.items[s].emp = None)
  BY DEF Saveable
<1>3. /\ \A x \in Emps : staff[x].owner => team[x].owner
      /\ asked => team[e].owner /\ team[e].st = "active"
  BY EnsuringOwner DEF BookedTo
<1>4. emp \in Anyone
  BY <1>1 DEF Forms, Anyone
<1>5. /\ seen \in Staffs
      /\ \A x \in Emps : seen[x].owner => team[x].owner
      /\ \A x \in Emps : form.staff[x].owner => seen[x].owner
      /\ ~asked => seen = form.staff
      /\ asked => seen[e] = team[e]
  <2>1. \A x \in Emps : form.staff[x].owner => staff[x].owner
    BY <1>1, OpenForm DEF FormOk, Loaded
  <2>2. team[e] \in [st : {"none", "deleted"} \cup Known, owner : BOOLEAN,
                     rate : Rates \cup {None}]
    BY DEF Staffs
  <2>3. /\ seen \in Staffs
        /\ \A x \in Emps : seen[x] = IF asked /\ x = e THEN team[e]
                                     ELSE form.staff[x]
    BY <1>1, <2>2 DEF Staffs
  <2>4. (~asked => seen = form.staff) /\ (asked => seen[e] = team[e])
    BY <2>3
  <2> HIDE DEF seen
  <2> QED BY <1>3, <2>1, <2>3, <2>4
<1>6. IF form.id = None \/ HasMasters(form) THEN form' = g
      ELSE form' = Filled(g)
  BY Zenon DEF Stuck
<1> HIDE DEF seen, emp
<1>7. /\ g.id = form.id /\ g.staff = seen /\ g.emp = emp /\ g.on = "form"
      /\ g.offers = form.offers /\ g.bound = form.bound /\ g.items = items
      /\ g.repriced = form.repriced /\ g.disc = form.disc
  BY <1>1 DEF Forms
<1>8. g \in Forms
  <2>1. items \in ItemsOf(Emps \cup {None}) /\ emp \in Emps \cup {None}
    BY <1>2, <1>4 DEF Anyone
  <2> QED BY <1>1, <1>5, <2>1 DEF Forms
<1> HIDE DEF g
<1>9. OwnerToChoose(g)
  <2>1. CASE asked
    BY <1>3, <1>5, <1>7, <2>1 DEF OwnerToChoose, Employees
  <2>2. CASE ~asked
    <3>1. emp = form.emp /\ seen = form.staff
      BY <1>5, <2>2 DEF emp
    <3> HIDE DEF asked
    <3> QED BY <1>1, <1>2, <1>7, <3>1 DEF OwnerToChoose, Employees
  <2> QED BY <2>1, <2>2
<1>10. Loaded(g, team)
  BY <1>1, <1>5, <1>7 DEF Loaded
<1>11. ASSUME g.id # None
       PROVE  EditOk(g, bills[g.id], locked)
  <2> DEFINE t == bills[form.id]
  <2>1. EditOk(form, t, locked) /\ items = form.items
    BY <1>1, <1>2, <1>7, <1>11, OpenForm DEF FormOk
  <2> HIDE DEF t
  <2>2. ASSUME g.bound PROVE locked /\ BoundToBill(g, t)
    <3>1. locked /\ BoundToBill(form, t)
      BY <1>7, <2>1, <2>2 DEF EditOk
    <3> SUFFICES ASSUME NEW x \in Assigned(g)
                 PROVE  x = None \/ x \in OnBill(t) \/ g.staff[x].owner
      BY <3>1 DEF BoundToBill
    <3>2. CASE asked /\ x = e
      BY <1>3, <1>5, <1>7, <3>2
    <3>3. CASE ~(asked /\ x = e)
      <4>1. x \in Assigned(form)
        BY <1>7, <2>1, <3>3 DEF Assigned, emp
      <4>2. x \in Anyone
        <5>1. form.emp \in Anyone
          BY <1>1 DEF Forms, Anyone
        <5>2. \A s \in Used(items) : items[s].emp \in Anyone
          BY <1>2 DEF Used, ItemsOf, ItemOf
        <5> QED BY <2>1, <4>1, <5>1, <5>2 DEF Assigned
      <4> QED BY <1>5, <1>7, <3>1, <4>1, <4>2 DEF BoundToBill, Anyone
    <3> QED BY <3>2, <3>3
  <2>3. ~g.repriced => Unpriced(g, t)
    BY <1>7, <2>1 DEF EditOk, Unpriced
  <2> QED BY <1>7, <2>1, <2>2, <2>3 DEF EditOk, t
<1>12. FormOk(g, team, bills, locked)
  BY <1>2, <1>7, <1>9, <1>10, <1>11 DEF FormOk
<1> QED BY <1>6, <1>7, <1>8, <1>12, Filling DEF IsOpen

\* The bill that a save writes.
LEMMA WrittenBill ==
  ASSUME Inv, NEW items, Saveable(items), NEW e \in Emps, NEW team \in Staffs,
         NEW who \in Customers \cup {None}, NEW b \in Bills,
         form.id # None => b = form.id
  PROVE  LET new == Written(b, Header(form, items, e, who, team))
         IN /\ new \in StoredBill
            /\ AllExplained(new.lines) /\ AddsUp(new)
            /\ new.lines = Saved(form, items, e, team)
            /\ new.emp = e /\ new.who = who /\ new.mode = form.mode
            /\ new.comm = Earned(items)
            /\ new.net = Larger(0, Gross(items) - Discounted(Gross(items), form.disc))
<1> DEFINE h == Header(form, items, e, who, team)
           new == Written(b, h)
<1>1. /\ form \in Forms /\ form.staff \in Staffs
      /\ items \in ItemsOf(Anyone) /\ AllExplained(items)
  BY OpenForm DEF Saveable
<1>2. /\ h \in StoredBill /\ AllExplained(h.lines) /\ AddsUp(h)
      /\ h.lines = Saved(form, items, e, team)
      /\ h.emp = e /\ h.who = who /\ h.mode = form.mode
      /\ h.comm = Earned(items) /\ h.gone = FALSE
      /\ h.net = Larger(0, Gross(items) - Discounted(Gross(items), form.disc))
  <2>1. h.gone = FALSE
    BY DEF Header
  <2>2. /\ h \in StoredBill /\ AllExplained(h.lines) /\ AddsUp(h)
        /\ h.lines = Saved(form, items, e, team)
        /\ h.emp = e /\ h.who = who /\ h.mode = form.mode
        /\ h.comm = Earned(items)
        /\ h.net = Larger(0, Gross(items) - Discounted(Gross(items), form.disc))
    <3>1. form \in Forms /\ form.staff \in Staffs
      BY <1>1
    <3>2. items \in ItemsOf(Anyone) /\ AllExplained(items)
      BY <1>1
    <3>3. h \in StoredBill
      BY <3>1, <3>2, HeaderAddsUp
    <3>4. AllExplained(h.lines) /\ AddsUp(h)
      BY <3>1, <3>2, HeaderAddsUp
    <3>5. h.lines = Saved(form, items, e, team)
      BY DEF Header
    <3>6. h.emp = e /\ h.who = who /\ h.mode = form.mode
      BY DEF Header
    <3>7. h.comm = Earned(items)
      BY DEF Header
    <3>8. h.net = Larger(0, Gross(items) - Discounted(Gross(items), form.disc))
      BY DEF Header
    <3> QED BY <3>3, <3>4, <3>5, <3>6, <3>7, <3>8
  <2> HIDE DEF h
  <2> QED BY <2>1, <2>2
<1> HIDE DEF h
<1>3. CASE form.id = None
  <2>1. new = h
    BY <1>3 DEF Written
  <2> HIDE DEF new
  <2> QED BY <1>2, <2>1 DEF new, h
<1>4. CASE form.id # None
  <2>1. b = form.id /\ bills[b] # None
    BY <1>4, OpenForm DEF FormOk, EditOk, Saveable
  <2>2. bills[b].deleted \in BOOLEAN
    BY <2>1, StoredLines DEF StoredBill
  <2>3. new = [h EXCEPT !.deleted = bills[b].deleted]
    BY <1>4 DEF Written
  <2>4. /\ new \in StoredBill /\ new.gone = FALSE
        /\ new.lines = h.lines /\ new.emp = h.emp /\ new.who = h.who
        /\ new.mode = h.mode /\ new.comm = h.comm /\ new.net = h.net
        /\ new.gross = h.gross /\ new.disc = h.disc
    BY <1>2, <2>2, <2>3 DEF StoredBill
  <2> HIDE DEF new
  <2>5. AddsUp(new)
    BY <1>2, <2>4 DEF AddsUp
  <2> QED BY <1>2, <2>4, <2>5 DEF new, h
<1> QED BY <1>3, <1>4

LEMMA SavingStored ==
  ASSUME Inv, NEW items, Saveable(items), NEW e \in Emps, NEW team \in Staffs,
         NEW who \in Customers \cup {None}, NEW b \in Bills,
         Stored(items, e, team, who, b)
  PROVE  /\ bills' \in [Bills -> {None} \cup StoredBill] /\ BillsInv'
         /\ customers' \in [Customers -> {None} \cup StoredCustomer]
         /\ form' \in Forms /\ FormOk(form', staff', bills', locked')
<1> DEFINE new == Written(b, Header(form, items, e, who, team))
<1>1. new \in StoredBill /\ AllExplained(new.lines) /\ AddsUp(new)
  <2>1. form.id # None => b = form.id
    BY DEF Stored
  <2> QED BY <2>1, WrittenBill
<1>2. /\ bills' = [bills EXCEPT ![b] = new] /\ form' = AfterSave(new)
      /\ form.phone # None => who \in Upserted(form.phone)
      /\ customers' = IF form.phone = None THEN customers
                      ELSE [customers EXCEPT ![who] =
                              [phone |-> form.phone, live |-> TRUE]]
  BY DEF Stored
<1> HIDE DEF new
<1>3. /\ bills \in [Bills -> {None} \cup StoredBill] /\ BillsInv
      /\ customers \in [Customers -> {None} \cup StoredCustomer]
  BY DEF Inv, TypeOK
<1>4. bills' \in [Bills -> {None} \cup StoredBill]
  BY <1>1, <1>2, <1>3
<1>5. BillsInv'
  <2> SUFFICES ASSUME NEW x \in Bills, bills'[x] # None
               PROVE  AllExplained(bills'[x].lines) /\ AddsUp(bills'[x])
    BY DEF BillsInv, AllExplained, Explained, AddsUp, Commission, Gross,
           Earned, Used
  <2>1. bills'[x] = IF x = b THEN new ELSE bills[x]
    BY <1>2, <1>3
  <2> QED BY <1>1, <1>3, <2>1 DEF BillsInv
<1>6. customers' \in [Customers -> {None} \cup StoredCustomer]
  <2>1. CASE form.phone = None
    BY <1>2, <1>3, <2>1
  <2>2. CASE form.phone # None
    <3>1. form.phone \in Phones
      BY <2>2, OpenForm DEF Forms
    <3>2. [phone |-> form.phone, live |-> TRUE] \in StoredCustomer
      BY <3>1 DEF StoredCustomer
    <3> QED BY <1>2, <1>3, <2>2, <3>2
  <2> QED BY <2>1, <2>2
<1>7. form' \in Forms /\ FormOk(form', staff', bills', locked')
  <2>1. form' \in {Closed, [Closed EXCEPT !.on = "preview"]}
    BY <1>2 DEF AfterSave
  <2> QED BY <2>1, ClosedForm
<1> QED BY <1>4, <1>5, <1>6, <1>7

LEMMA Saving ==
  ASSUME Inv, NEW items, Saveable(items), SaveBill(items)
  PROVE  Inv'
<1>1. PICK e \in Emps, team \in Staffs :
        /\ BookedTo(items, e, team) /\ staff' = team
        /\ \/ Stuck(items, e, team)
           \/ \E who \in Customers \cup {None} : \E b \in Bills :
                Stored(items, e, team, who, b)
  BY SaveCases
<1>2. /\ UNCHANGED <<services, rules, locked, replaced, taps, changes>>
      /\ saves' = saves + 1
  BY Zenon DEF SaveBill
<1>3. OwnersInv'
  <2>1. CASE team = staff
    BY <1>1, <2>1 DEF Inv, OwnersInv, Owners
  <2>2. CASE e \in OwnerEmployee /\ team = EnsuredOwner(e)
    <3>1. \A x, y \in Owners(team) : x = y
      BY <2>2, EnsuringOwner
    <3> QED BY <1>1, <3>1 DEF OwnersInv, Owners
  <2> QED BY <1>1, <2>1, <2>2 DEF BookedTo
<1>4. TypeOK /\ BillsInv
  BY DEF Inv
<1>5. /\ bills' \in [Bills -> {None} \cup StoredBill] /\ BillsInv'
      /\ customers' \in [Customers -> {None} \cup StoredCustomer]
      /\ form' \in Forms /\ FormOk(form', staff', bills', locked')
  <2>1. CASE Stuck(items, e, team)
    <3>1. UNCHANGED <<customers, bills>>
      BY <2>1 DEF Stuck
    <3>2. form' \in Forms /\ FormOk(form', staff', bills', locked')
      BY <1>1, <1>2, <2>1, <3>1, StuckForm
    <3>3. BillsInv'
      BY <1>4, <3>1 DEF BillsInv, AllExplained, Explained, AddsUp, Commission,
                        Gross, Earned, Used
    <3> QED BY <1>4, <3>1, <3>2, <3>3 DEF TypeOK
  <2>2. CASE \E who \in Customers \cup {None} : \E b \in Bills :
               Stored(items, e, team, who, b)
    <3>1. PICK who \in Customers \cup {None}, b \in Bills :
            Stored(items, e, team, who, b)
      BY <2>2
    <3> QED BY <3>1, SavingStored
  <2> QED BY <1>1, <2>1, <2>2
<1>6. TypeOK'
  BY <1>1, <1>2, <1>4, <1>5 DEF TypeOK, Forms
<1>7. FormInv'
  BY <1>5 DEF FormInv
<1> QED BY <1>3, <1>5, <1>6, <1>7 DEF Inv

(***************************************************************************)
(* What happens elsewhere.                                                 *)
(***************************************************************************)
\* A step that the form does not see.
LEMMA FormUnaware ==
  ASSUME Inv, UNCHANGED <<form, locked>>,
         \A e \in Emps : staff[e].owner => staff'[e].owner,
         \A b \in Bills : bills[b] # None =>
           /\ bills'[b] # None /\ bills'[b].emp = bills[b].emp
           /\ bills'[b].disc = bills[b].disc /\ bills'[b].lines = bills[b].lines
  PROVE  FormInv'
<1>1. FormOk(form, staff, bills, locked) /\ form \in Forms
  BY OpenForm
<1>2. IsOpen(form) => Loaded(form, staff')
  BY <1>1 DEF FormOk, Loaded
<1>3. ASSUME IsOpen(form), form.id # None
      PROVE  EditOk(form, bills'[form.id], locked)
  <2>1. form.id \in Bills /\ EditOk(form, bills[form.id], locked)
    BY <1>1, <1>3 DEF FormOk, Forms
  <2> DEFINE t == bills[form.id]
             u == bills'[form.id]
  <2>2. t # None /\ u # None /\ u.emp = t.emp /\ u.disc = t.disc
        /\ u.lines = t.lines
    BY <2>1 DEF EditOk
  <2> HIDE DEF t, u
  <2>3. EditOk(form, t, locked)
    BY <2>1 DEF t
  <2>4. EditOk(form, u, locked)
    BY <2>2, <2>3 DEF EditOk, BoundToBill, OnBill, Unpriced
  <2> QED BY <2>4 DEF u
<1>4. FormOk(form, staff', bills', locked)
  BY <1>1, <1>2, <1>3 DEF FormOk
<1> QED BY <1>4 DEF FormInv

\* Steps that change the records, and neither bills nor the form.
LEMMA CatalogStep ==
  ASSUME Inv, UNCHANGED <<form, locked, bills, taps, saves>>, changes' \in Nat,
         staff' \in Staffs, services' \in Offers,
         rules' \in [Emps -> [Services -> Rules \cup {None}]],
         customers' \in [Customers -> {None} \cup StoredCustomer],
         replaced' \subseteq Customers,
         \A e \in Emps : staff'[e].owner = staff[e].owner,
         \A e \in Emps : staff'[e].st \in Known => staff[e].st \in Known
  PROVE  Inv'
<1>1. TypeOK /\ BillsInv /\ OwnersInv
  BY DEF Inv
<1>2. TypeOK'
  BY <1>1 DEF TypeOK
<1>3. BillsInv'
  BY <1>1 DEF BillsInv, AllExplained, Explained, AddsUp, Commission, Gross,
              Earned, Used
<1>4. OwnersInv'
  BY <1>1 DEF OwnersInv, Owners
<1>5. FormInv'
  BY FormUnaware
<1> QED BY <1>2, <1>3, <1>4, <1>5 DEF Inv

LEMMA RecordsElsewhere ==
  ASSUME Inv,
         \/ \E e \in Emps, s \in Services, rule \in Rules \cup {None} :
              SetRule(e, s, rule)
         \/ \E e \in Emps, st \in Known, rate \in Rates \cup {None} :
              SetEmployee(e, st, rate)
         \/ \E e \in Emps : DeleteEmployee(e)
         \/ \E s \in Services, on \in BOOLEAN, tag \in Tags :
              SetService(s, [active |-> on, tag |-> tag])
         \/ \E c \in Customers :
              DeleteCustomer(c) \/ \E p \in Phones : PullCustomer(c, p)
  PROVE  Inv'
<1>1. /\ staff \in Staffs /\ services \in Offers /\ changes \in Nat
      /\ rules \in [Emps -> [Services -> Rules \cup {None}]]
      /\ customers \in [Customers -> {None} \cup StoredCustomer]
      /\ replaced \subseteq Customers
  BY DEF Inv, TypeOK
<1>2. ASSUME Elsewhere PROVE UNCHANGED <<taps, saves>> /\ changes' \in Nat
  BY <1>1, <1>2 DEF Elsewhere
<1>3. ASSUME NEW e \in Emps, NEW s \in Services, NEW rule \in Rules \cup {None},
             SetRule(e, s, rule)
      PROVE  Inv'
  <2>1. /\ Elsewhere /\ rules' = [rules EXCEPT ![e][s] = rule]
        /\ UNCHANGED <<staff, services, customers, bills, locked, form, replaced>>
    BY <1>3 DEF SetRule
  <2>2. rules' \in [Emps -> [Services -> Rules \cup {None}]]
    BY <1>1, <2>1
  <2> QED BY <1>1, <1>2, <2>1, <2>2, CatalogStep
<1>4. ASSUME NEW e \in Emps, NEW st \in Known, NEW rate \in Rates \cup {None},
             SetEmployee(e, st, rate)
      PROVE  Inv'
  <2>1. /\ Elsewhere /\ staff[e].st \in Known
        /\ staff' = [staff EXCEPT ![e].st = st, ![e].rate = rate]
        /\ UNCHANGED <<services, rules, customers, bills, locked, form, replaced>>
    BY <1>4 DEF SetEmployee
  <2>2. staff' \in Staffs
    BY <1>1, <2>1 DEF Staffs
  <2>3. \A x \in Emps : /\ staff'[x].owner = staff[x].owner
                        /\ staff'[x].st \in Known => staff[x].st \in Known
    BY <1>1, <2>1 DEF Staffs
  <2> QED BY <1>1, <1>2, <2>1, <2>2, <2>3, CatalogStep
<1>5. ASSUME NEW e \in Emps, DeleteEmployee(e)
      PROVE  Inv'
  <2>1. /\ Elsewhere /\ staff[e].st \in Known
        /\ staff' = [staff EXCEPT ![e].st = "deleted"]
        /\ UNCHANGED <<services, rules, customers, bills, locked, form, replaced>>
    BY <1>5 DEF DeleteEmployee
  <2>2. staff' \in Staffs
    BY <1>1, <2>1 DEF Staffs
  <2>3. \A x \in Emps : /\ staff'[x].owner = staff[x].owner
                        /\ staff'[x].st \in Known => staff[x].st \in Known
    BY <1>1, <2>1 DEF Staffs
  <2> QED BY <1>1, <1>2, <2>1, <2>2, <2>3, CatalogStep
<1>6. ASSUME NEW s \in Services, NEW on \in BOOLEAN, NEW tag \in Tags,
             SetService(s, [active |-> on, tag |-> tag])
      PROVE  Inv'
  <2>1. /\ Elsewhere
        /\ services' = [services EXCEPT ![s] = [active |-> on, tag |-> tag]]
        /\ UNCHANGED <<staff, rules, customers, bills, locked, form, replaced>>
    BY <1>6 DEF SetService
  <2>2. services' \in Offers
    BY <1>1, <2>1 DEF Offers
  <2> QED BY <1>1, <1>2, <2>1, <2>2, CatalogStep
<1>7. ASSUME NEW c \in Customers, DeleteCustomer(c)
      PROVE  Inv'
  <2>1. /\ Elsewhere /\ customers[c] # None
        /\ customers' = [customers EXCEPT ![c].live = FALSE]
        /\ UNCHANGED <<staff, services, rules, bills, locked, form, replaced>>
    BY <1>7 DEF DeleteCustomer, catalog
  <2>2. customers' \in [Customers -> {None} \cup StoredCustomer]
    BY <1>1, <2>1 DEF StoredCustomer
  <2> QED BY <1>1, <1>2, <2>1, <2>2, CatalogStep
<1>8. ASSUME NEW c \in Customers, NEW p \in Phones, PullCustomer(c, p)
      PROVE  Inv'
  <2>1. /\ Elsewhere
        /\ customers' = [x \in Customers |->
             IF x = c THEN [phone |-> p, live |-> TRUE]
             ELSE IF x \in WithPhone(p) THEN None ELSE customers[x]]
        /\ replaced' = replaced \cup WithPhone(p)
        /\ UNCHANGED <<staff, services, rules, bills, locked, form>>
    BY <1>8 DEF PullCustomer, catalog
  <2>2. customers' \in [Customers -> {None} \cup StoredCustomer]
    BY <1>1, <2>1 DEF StoredCustomer
  <2>3. replaced' \subseteq Customers
    BY <1>1, <2>1 DEF WithPhone
  <2> QED BY <1>1, <1>2, <2>1, <2>2, <2>3, CatalogStep
<1> QED BY <1>3, <1>4, <1>5, <1>6, <1>7, <1>8

LEMMA DeletingBill ==
  ASSUME Inv, NEW b \in Bills, DeleteBill(b)
  PROVE  Inv'
<1>1. /\ bills[b] # None /\ ~bills[b].deleted
      /\ bills' = [bills EXCEPT ![b].deleted = TRUE, ![b].gone = TRUE]
      /\ UNCHANGED <<staff, services, rules, customers, locked, form, replaced,
                     taps, saves>>
      /\ changes' \in Nat
  BY DEF DeleteBill, Elsewhere, catalog, Inv, TypeOK
<1>2. TypeOK /\ BillsInv /\ OwnersInv
  BY DEF Inv
<1>3. /\ bills \in [Bills -> {None} \cup StoredBill] /\ bills[b] \in StoredBill
  BY <1>1, <1>2 DEF TypeOK
<1> DEFINE new == [bills[b] EXCEPT !.deleted = TRUE, !.gone = TRUE]
<1>4. /\ new \in StoredBill /\ new # None /\ new.lines = bills[b].lines
      /\ new.emp = bills[b].emp /\ new.disc = bills[b].disc
      /\ new.gross = bills[b].gross /\ new.net = bills[b].net
      /\ new.comm = bills[b].comm /\ new.deleted = TRUE
  BY <1>3, NoneAssumption DEF StoredBill
<1>5. bills' = [bills EXCEPT ![b] = new]
  BY <1>1, <1>3
<1> HIDE DEF new
<1>6. \A x \in Bills : bills'[x] = IF x = b THEN new ELSE bills[x]
  BY <1>3, <1>5
<1>7. TypeOK'
  <2>1. bills' \in [Bills -> {None} \cup StoredBill]
    BY <1>3, <1>4, <1>5
  <2>2. /\ staff' \in Staffs /\ services' \in Offers
        /\ rules' \in [Emps -> [Services -> Rules \cup {None}]]
        /\ customers' \in [Customers -> {None} \cup StoredCustomer]
        /\ locked' \in BOOLEAN /\ replaced' \subseteq Customers
        /\ taps' \in Nat /\ saves' \in Nat
    BY <1>1, <1>2 DEF TypeOK
  <2>3. form' \in Forms
    BY <1>1, OpenForm
  <2> QED BY <1>1, <2>1, <2>2, <2>3 DEF TypeOK, Forms
<1>8. BillsInv'
  <2> SUFFICES ASSUME NEW x \in Bills, bills'[x] # None
               PROVE  AllExplained(bills'[x].lines) /\ AddsUp(bills'[x])
    BY DEF BillsInv, AllExplained, Explained, AddsUp, Commission, Gross,
           Earned, Used
  <2>1. CASE x = b
    <3>1. AllExplained(bills[b].lines) /\ AddsUp(bills[b])
      BY <1>1, <1>2 DEF BillsInv
    <3>2. AllExplained(new.lines) /\ AddsUp(new)
      BY <1>4, <3>1 DEF AddsUp
    <3> QED BY <1>6, <2>1, <3>2
  <2>2. CASE x # b
    BY <1>2, <1>6, <2>2 DEF BillsInv
  <2> QED BY <2>1, <2>2
<1>9. OwnersInv'
  BY <1>1, <1>2 DEF OwnersInv, Owners
<1>10. FormInv'
  BY <1>1, <1>4, <1>6, FormUnaware
<1> QED BY <1>7, <1>8, <1>9, <1>10 DEF Inv

\* With the binding off, the lock does not matter to the form.
LEMMA FlippingLock ==
  ASSUME Inv, FlipLock
  PROVE  Inv'
<1> DEFINE f == Bound(form, ~locked)
           g == [f EXCEPT !.bound = FALSE]
<1>1. /\ form' = g /\ locked' = ~locked
      /\ UNCHANGED <<staff, services, rules, customers, bills, replaced,
                     taps, saves>>
      /\ changes' \in Nat
  BY DEF FlipLock, Elsewhere, catalog, Inv, TypeOK
<1>2. f \in Forms /\ FormOk(f, staff, bills, locked)
  BY OpenForm, Binding
<1> HIDE DEF f
<1>3. /\ g.bound = FALSE /\ g.on = f.on /\ g.id = f.id /\ g.staff = f.staff
      /\ g.offers = f.offers /\ g.listed = f.listed /\ g.emp = f.emp
      /\ g.disc = f.disc /\ g.items = f.items /\ g.repriced = f.repriced
  BY <1>2 DEF Forms
<1>4. g \in Forms
  BY <1>2 DEF Forms
<1> HIDE DEF g
<1>5. FormOk(g, staff, bills, ~locked)
  <2>1. AllExplained(g.items) /\ OwnerToChoose(g) /\ (IsOpen(g) => Loaded(g, staff))
    BY <1>2, <1>3 DEF FormOk, OwnerToChoose, Employees, IsOpen, Loaded
  <2>2. ASSUME IsOpen(g), g.id # None
        PROVE  EditOk(g, bills[g.id], ~locked)
    BY <1>2, <1>3, <2>2 DEF FormOk, EditOk, IsOpen, Unpriced
  <2> QED BY <2>1, <2>2 DEF FormOk
<1>6. TypeOK'
  BY <1>1, <1>4 DEF Inv, TypeOK, Forms
<1>7. BillsInv' /\ OwnersInv'
  BY <1>1 DEF Inv, BillsInv, OwnersInv, Owners, AllExplained, Explained, AddsUp,
              Commission, Gross, Earned, Used
<1>8. FormInv'
  BY <1>1, <1>5 DEF FormInv
<1> QED BY <1>6, <1>7, <1>8 DEF Inv

(***************************************************************************)
(* The invariant holds.                                                    *)
(***************************************************************************)
LEMMA InvInit ==
  ASSUME Init
  PROVE  Inv
<1>1. /\ staff \in Staffs /\ services \in Offers
      /\ \A x, y \in Owners(staff) : x = y
  BY ListsAssumption, OwnerAssumption DEF Init
<1>2. /\ rules \in [Emps -> [Services -> Rules \cup {None}]]
      /\ customers = [c \in Customers |-> None]
      /\ bills = [b \in Bills |-> None]
      /\ locked \in BOOLEAN /\ form = Closed /\ replaced = {}
      /\ taps = 0 /\ saves = 0 /\ changes = 0
  BY DEF Init
<1>3. form \in Forms /\ FormOk(form, staff, bills, locked)
  BY <1>2, ClosedForm
<1>4. /\ customers \in [Customers -> {None} \cup StoredCustomer]
      /\ bills \in [Bills -> {None} \cup StoredBill]
      /\ \A b \in Bills : bills[b] = None
  BY <1>2
<1>5. TypeOK
  BY <1>1, <1>2, <1>3, <1>4 DEF TypeOK, Forms
<1>6. BillsInv
  BY <1>4 DEF BillsInv
<1> QED BY <1>1, <1>3, <1>5, <1>6 DEF Inv, OwnersInv, FormInv

LEMMA InvNext ==
  ASSUME Inv, [Next]_vars
  PROVE  Inv'
<1>1. CASE UNCHANGED vars
  <2>1. /\ UNCHANGED <<database, changes, saves>> /\ taps' \in Nat
        /\ form' \in Forms /\ FormOk(form', staff, bills, locked)
    BY <1>1, OpenForm DEF vars, Inv, TypeOK
  <2> QED BY <2>1, FormAlone
<1>2. CASE FormStep
  <2>1. CASE NewBill
    BY <2>1, StartingBill
  <2>2. CASE \/ OpenSheet \/ CloseSheet
             \/ \E d \in Discounts \cup {None} : SetDiscount(d)
             \/ \E m \in Modes : SetMode(m)
             \/ \E p \in Phones \cup {None} : SetCustomer(p)
    BY <2>2, TouchingNoLine, Zenon
  <2>3. CASE SheetDone
    BY <2>3, FinishingSheet
  <2>4. CASE Discard
    BY <2>4, Discarding
  <2>5. CASE Save
    BY <2>5, SaveIsSaveable, Saving
  <2>6. CASE SaveFromSheet
    BY <2>6, SheetIsSaveable, Saving
  <2>7. CASE \E b \in Bills : EditBill(b)
    BY <2>7, EditingBill
  <2>8. CASE \E e \in Emps :
               PickEmployee(e) \/ \E s \in Services : ReassignLine(s, e)
    BY <2>8, PickingEmployee, ReassigningLine
  <2>9. CASE \E g \in Genders : PickGender(g)
    BY <2>9, PickingGender
  <2>10. CASE \E s \in Services :
                RemoveItem(s) \/ \E d \in {-1, 1} : ChangeQty(s, d)
    BY <2>10, RemovingItem, ChangingQty
  <2> QED BY <1>2, <2>1, <2>2, <2>3, <2>4, <2>5, <2>6, <2>7, <2>8, <2>9, <2>10,
             Zenon DEF FormStep
<1>3. CASE OtherStep
  <2>1. CASE FlipLock
    BY <2>1, FlippingLock
  <2>2. CASE \E b \in Bills : DeleteBill(b)
    BY <2>2, DeletingBill
  <2>3. CASE ~(FlipLock \/ \E b \in Bills : DeleteBill(b))
    BY <1>3, <2>3, RecordsElsewhere, Zenon DEF OtherStep
  <2> QED BY <2>1, <2>2, <2>3
<1> QED BY <1>1, <1>2, <1>3 DEF Next

\* Headers add up, lines are explained and the form is in order, always.
THEOREM Invariance == Spec => []Inv
<1>1. Init => Inv
  BY InvInit
<1>2. Inv /\ [Next]_vars => Inv'
  BY InvNext
<1> QED BY <1>1, <1>2, PTL DEF Spec

\* Every variable has its type.
THEOREM TypeCorrect == Spec => []TypeOK
<1>1. Inv => TypeOK
  BY DEF Inv
<1> QED BY <1>1, Invariance, PTL

\* Who opens a line of the commission report finds the rule that explains the
\* amount, unless the rule was changed after the line was priced: the form
\* prices a line anew whenever its price, quantity or employee changes, and
\* a save keeps what the form has shown.
THEOREM CommissionIsExplained == Spec => []CommissionExplained
<1>1. ASSUME Inv PROVE CommissionExplained
  <2> SUFFICES ASSUME NEW b \in Bills, bills[b] # None,
                      NEW s \in Used(bills[b].lines),
                      bills[b].lines[s].rule = bills[b].lines[s].by
               PROVE  bills[b].lines[s].comm =
                        Commission(bills[b].lines[s].rule, bills[b].lines[s])
    BY DEF CommissionExplained
  <2>1. Explained(bills[b].lines[s])
    BY <1>1 DEF Inv, BillsInv, AllExplained
  <2> QED BY <2>1 DEF Explained
<1> QED BY <1>1, Invariance, PTL

\* A save without an employee makes the owner's row at most once, and a
\* deactivated owner is activated and not made again.
THEOREM OneOwner == Spec => []OwnerIsUnique
<1>1. ASSUME Inv PROVE OwnerIsUnique
  <2>1. CASE Owners(staff) = {}
    BY <2>1, FS_EmptySet DEF OwnerIsUnique
  <2>2. CASE Owners(staff) # {}
    <3>1. PICK e \in Owners(staff) : TRUE
      BY <2>2
    <3>2. Owners(staff) = {e}
      BY <1>1, <3>1 DEF Inv, OwnersInv
    <3>3. Cardinality({e}) = 1
      BY FS_Singleton
    <3> QED BY <3>2, <3>3 DEF OwnerIsUnique
  <2> QED BY <2>1, <2>2
<1> QED BY <1>1, Invariance, PTL

(***************************************************************************)
(* Credit bills and their customers.                                       *)
(***************************************************************************)
\* A tap leaves the database and the count of saves alone.
LEMMA Steps ==
  ASSUME [Next]_vars
  PROVE  \/ UNCHANGED <<database, saves>>
         \/ Save \/ SaveFromSheet
         \/ OtherStep /\ saves' = saves
<1>1. CASE UNCHANGED vars
  BY <1>1 DEF vars
<1>2. CASE NewBill \/ OpenSheet \/ CloseSheet \/ SheetDone \/ Discard
  BY <1>2 DEF NewBill, OpenSheet, CloseSheet, SheetDone, Discard, Tap
<1>3. CASE \E b \in Bills : EditBill(b)
  BY <1>3 DEF EditBill
<1>4. CASE \E e \in Emps :
             PickEmployee(e) \/ \E s \in Services : ReassignLine(s, e)
  BY <1>4 DEF PickEmployee, ReassignLine, Tap
<1>5. CASE \E g \in Genders : PickGender(g)
  BY <1>5 DEF PickGender, Tap
<1>6. CASE \E s \in Services : RemoveItem(s) \/ \E d \in {-1, 1} : ChangeQty(s, d)
  BY <1>6 DEF RemoveItem, ChangeQty, Tap
<1>7. CASE \/ \E d \in Discounts \cup {None} : SetDiscount(d)
           \/ \E m \in Modes : SetMode(m)
           \/ \E p \in Phones \cup {None} : SetCustomer(p)
  BY <1>7 DEF SetDiscount, SetMode, SetCustomer, Tap
<1>8. ASSUME OtherStep PROVE saves' = saves
  BY <1>8 DEF OtherStep, FlipLock, SetRule, SetEmployee, DeleteEmployee,
              SetService, DeleteBill, DeleteCustomer, PullCustomer, Elsewhere
<1>9. CASE FormStep
  BY <1>2, <1>3, <1>4, <1>5, <1>6, <1>7, <1>9, Zenon DEF FormStep
<1> QED BY <1>1, <1>8, <1>9 DEF Next

LEMMA CreditKept ==
  ASSUME Inv, CreditIsCollectable,
         \A b \in Live' : bills'[b].mode = "credit" =>
           \/ b \in Live /\ bills[b].mode = "credit" /\ bills'[b].who = bills[b].who
           \/ bills'[b].who \in Customers /\ customers'[bills'[b].who] # None,
         \A c \in Customers : customers[c] # None =>
           customers'[c] # None \/ c \in replaced',
         replaced \subseteq replaced'
  PROVE  CreditIsCollectable'
<1> SUFFICES ASSUME NEW b \in Live', bills'[b].mode = "credit"
             PROVE  /\ bills'[b].who # None
                    /\ customers'[bills'[b].who] # None \/ bills'[b].who \in replaced'
  BY DEF CreditIsCollectable
<1>1. CASE b \in Live /\ bills[b].mode = "credit" /\ bills'[b].who = bills[b].who
  <2>1. bills[b] \in StoredBill
    BY <1>1 DEF Live, Inv, TypeOK
  <2>2. bills[b].who # None
        /\ (customers[bills[b].who] # None \/ bills[b].who \in replaced)
    BY <1>1 DEF CreditIsCollectable
  <2>3. bills[b].who \in Customers
    BY <2>1, <2>2 DEF StoredBill
  <2> QED BY <1>1, <2>2, <2>3
<1>2. CASE bills'[b].who \in Customers /\ customers'[bills'[b].who] # None
  BY <1>2, NoneAssumption
<1> QED BY <1>1, <1>2

LEMMA CreditSaved ==
  ASSUME Inv, CreditIsCollectable, NEW items, Saveable(items), SaveBill(items),
         form.mode = "credit" => form.phone # None
  PROVE  CreditIsCollectable'
<1>1. PICK e \in Emps, team \in Staffs :
        \/ Stuck(items, e, team)
        \/ \E who \in Customers \cup {None} : \E b \in Bills :
             Stored(items, e, team, who, b)
  BY SaveCases
<1>2. replaced' = replaced
  BY Zenon DEF SaveBill
<1>3. CASE Stuck(items, e, team)
  BY <1>2, <1>3 DEF Stuck, CreditIsCollectable, Live
<1>4. ASSUME NEW who \in Customers \cup {None}, NEW x \in Bills,
             Stored(items, e, team, who, x)
      PROVE  CreditIsCollectable'
  <2> DEFINE new == Written(x, Header(form, items, e, who, team))
  <2>1. /\ form.phone = None => who = None
        /\ form.phone # None => who \in Customers
        /\ bills' = [bills EXCEPT ![x] = new]
        /\ customers' = IF form.phone = None THEN customers
                        ELSE [customers EXCEPT ![who] =
                                [phone |-> form.phone, live |-> TRUE]]
    BY <1>4 DEF Stored, Upserted, WithPhone
  <2>2. new.who = who /\ new.mode = form.mode
    <3>1. form.id # None => x = form.id
      BY <1>4 DEF Stored
    <3> QED BY <3>1, WrittenBill
  <2> HIDE DEF new
  <2>3. /\ bills \in [Bills -> {None} \cup StoredBill]
        /\ customers \in [Customers -> {None} \cup StoredCustomer]
        /\ form.phone \in Phones \cup {None}
    BY OpenForm DEF Inv, TypeOK, Forms
  <2>4. ASSUME form.phone # None
        PROVE  /\ who \in Customers /\ customers'[who] # None
               /\ \A c \in Customers : c # who => customers'[c] = customers[c]
    <3>1. [phone |-> form.phone, live |-> TRUE] \in StoredCustomer
      BY <2>3, <2>4 DEF StoredCustomer
    <3> QED BY <2>1, <2>3, <2>4, <3>1, NoneAssumption
  <2>5. \A c \in Customers : customers[c] # None => customers'[c] # None
    BY <2>1, <2>4
  <2>6. ASSUME NEW b \in Live', bills'[b].mode = "credit"
        PROVE  \/ b \in Live /\ bills[b].mode = "credit" /\ bills'[b].who = bills[b].who
               \/ bills'[b].who \in Customers /\ customers'[bills'[b].who] # None
    <3>1. b \in Bills /\ bills'[b] = IF b = x THEN new ELSE bills[b]
      BY <2>1, <2>3 DEF Live
    <3>2. CASE b = x
      BY <2>2, <2>4, <2>6, <3>1, <3>2
    <3>3. CASE b # x
      BY <2>6, <3>1, <3>3 DEF Live
    <3> QED BY <3>2, <3>3
  <2> QED BY <1>2, <2>5, <2>6, CreditKept
<1> QED BY <1>1, <1>3, <1>4

\* A credit bill is collectable: the form asks for a customer whenever the mode
\* is credit, the fast path from the sheet saves cash bills only, the customer
\* is stored before the bill, and a row only goes away when a pull replaces it.
THEOREM CreditStaysCollectable == Spec => []CreditIsCollectable
<1>1. Init => CreditIsCollectable
  BY DEF Init, CreditIsCollectable, Live
<1>2. ASSUME Inv, CreditIsCollectable, [Next]_vars
      PROVE  CreditIsCollectable'
  <2>1. CASE UNCHANGED <<database, saves>>
    BY <1>2, <2>1 DEF database, catalog, CreditIsCollectable, Live
  <2>2. CASE Save
    <3>1. form.mode = "credit" => form.phone # None
      BY <2>2 DEF Save, CreditOk
    <3>2. Saveable(form.items) /\ SaveBill(form.items)
      BY <1>2, <2>2, SaveIsSaveable
    <3> QED BY <1>2, <3>1, <3>2, CreditSaved
  <2>3. CASE SaveFromSheet
    <3>1. PICK items : Saveable(items) /\ SaveBill(items) /\ form.mode = "cash"
      BY <1>2, <2>3, SheetIsSaveable
    <3> QED BY <1>2, <3>1, CreditSaved
  <2>4. CASE \/ FlipLock
             \/ \E e \in Emps, s \in Services, rule \in Rules \cup {None} :
                  SetRule(e, s, rule)
             \/ \E e \in Emps, st \in Known, rate \in Rates \cup {None} :
                  SetEmployee(e, st, rate)
             \/ \E e \in Emps : DeleteEmployee(e)
             \/ \E s \in Services, on \in BOOLEAN, tag \in Tags :
                  SetService(s, [active |-> on, tag |-> tag])
    <3>1. UNCHANGED <<bills, customers, replaced>>
      BY <2>4 DEF FlipLock, SetRule, SetEmployee, DeleteEmployee, SetService
    <3> QED BY <1>2, <3>1 DEF CreditIsCollectable, Live
  <2>5. ASSUME NEW x \in Bills, DeleteBill(x)
        PROVE  CreditIsCollectable'
    <3>1. /\ bills' = [bills EXCEPT ![x].deleted = TRUE, ![x].gone = TRUE]
          /\ bills[x] # None /\ UNCHANGED <<customers, replaced>>
      BY <2>5 DEF DeleteBill
    <3>2. bills \in [Bills -> {None} \cup StoredBill]
      BY <1>2 DEF Inv, TypeOK
    <3>3. bills[x] \in StoredBill
      BY <3>1, <3>2
    <3>4. bills'[x].deleted /\ \A b \in Bills : b # x => bills'[b] = bills[b]
      BY <3>1, <3>2, <3>3 DEF StoredBill
    <3>5. \A b \in Live' : b \in Live /\ bills'[b] = bills[b]
      BY <3>4 DEF Live
    <3> QED BY <1>2, <3>1, <3>5, CreditKept
  <2>6. ASSUME NEW c \in Customers, DeleteCustomer(c)
        PROVE  CreditIsCollectable'
    <3>1. /\ customers[c] # None /\ UNCHANGED <<bills, replaced>>
          /\ customers' = [customers EXCEPT ![c].live = FALSE]
      BY <2>6 DEF DeleteCustomer
    <3>2. /\ customers \in [Customers -> {None} \cup StoredCustomer]
          /\ customers' \in [Customers -> {None} \cup StoredCustomer]
      BY <1>2, InvNext DEF Inv, TypeOK
    <3>3. customers[c] \in StoredCustomer
      BY <3>1, <3>2
    <3>4. [customers[c] EXCEPT !.live = FALSE] \in StoredCustomer
      BY <3>3 DEF StoredCustomer
    <3>5. \A d \in Customers : customers[d] # None => customers'[d] # None
      BY <3>1, <3>2, <3>4, NoneAssumption
    <3>6. \A b \in Live' : b \in Live /\ bills'[b] = bills[b]
      BY <3>1 DEF Live
    <3> QED BY <1>2, <3>1, <3>5, <3>6, CreditKept
  <2>7. ASSUME NEW c \in Customers, NEW p \in Phones, PullCustomer(c, p)
        PROVE  CreditIsCollectable'
    <3>1. /\ customers' = [x \in Customers |->
               IF x = c THEN [phone |-> p, live |-> TRUE]
               ELSE IF x \in WithPhone(p) THEN None ELSE customers[x]]
          /\ customers[c] = None
          /\ replaced' = replaced \cup WithPhone(p) /\ bills' = bills
      BY <2>7 DEF PullCustomer
    <3>2. \A d \in Customers : customers[d] # None =>
            customers'[d] # None \/ d \in replaced'
      BY <3>1
    <3>3. \A b \in Live' : b \in Live /\ bills'[b] = bills[b]
      BY <3>1 DEF Live
    <3> QED BY <1>2, <3>1, <3>2, <3>3, CreditKept
  <2>8. CASE OtherStep
    BY <2>4, <2>5, <2>6, <2>7, <2>8, Zenon DEF OtherStep
  <2> QED BY <1>2, <2>1, <2>2, <2>3, <2>8, Steps, Zenon
<1> QED BY <1>1, <1>2, Invariance, PTL DEF Spec

(***************************************************************************)
(* The reports.                                                            *)
(***************************************************************************)
\* The lines that are joined are those of the live bills.
LEMMA LiveBills ==
  ASSUME Inv
  PROVE  /\ IsFiniteSet(Live)
         /\ \A b \in Live :
              /\ b \in Bills /\ bills[b] \in StoredBill /\ ~bills[b].gone
              /\ bills[b].gross = Gross(bills[b].lines)
              /\ bills[b].comm = Earned(bills[b].lines)
              /\ \A s \in Services :
                   /\ s \in Used(bills[b].lines) <=> bills[b].lines[s] # None
                   /\ bills[b].lines[s] = None
                        \/ bills[b].lines[s] \in ItemOf(Emps)
<1>1. IsFiniteSet(Live)
  BY ListsAssumption, FS_Subset DEF Live
<1>2. ASSUME NEW b \in Live
      PROVE  /\ b \in Bills /\ bills[b] \in StoredBill /\ ~bills[b].gone
             /\ bills[b].gross = Gross(bills[b].lines)
             /\ bills[b].comm = Earned(bills[b].lines)
             /\ \A s \in Services :
                  /\ s \in Used(bills[b].lines) <=> bills[b].lines[s] # None
                  /\ bills[b].lines[s] = None
                       \/ bills[b].lines[s] \in ItemOf(Emps)
  <2>1. b \in Bills /\ bills[b] # None /\ ~bills[b].deleted
    BY DEF Live
  <2> QED BY <2>1, StoredLines DEF AddsUp
<1> QED BY <1>1, <1>2

LEMMA JoinedLines ==
  ASSUME Inv
  PROVE  /\ IsFiniteSet(Joined)
         /\ \A x \in Joined :
              /\ x[1] \in Live /\ x[2] \in Used(bills[x[1]].lines)
              /\ x[2] \in Services /\ x = <<x[1], x[2]>>
              /\ Line(x) \in ItemOf(Emps)
         /\ \A b \in Live : \A s \in Used(bills[b].lines) :
              <<b, s>> \in Joined /\ Line(<<b, s>>) = bills[b].lines[s]
<1>1. IsFiniteSet(Joined)
  <2>1. IsFiniteSet(Live \X Services)
    BY LiveBills, ListsAssumption, FS_Product
  <2> QED BY <2>1, FS_Subset DEF Joined
<1>2. ASSUME NEW x \in Joined
      PROVE  /\ x[1] \in Live /\ x[2] \in Used(bills[x[1]].lines)
             /\ x[2] \in Services /\ x = <<x[1], x[2]>>
             /\ Line(x) \in ItemOf(Emps)
  <2>1. /\ x[1] \in Live /\ x[2] \in Services /\ x = <<x[1], x[2]>>
        /\ bills[x[1]].lines[x[2]] # None
    BY DEF Joined, Line
  <2> QED BY <2>1, LiveBills DEF Line
<1>3. ASSUME NEW b \in Live, NEW s \in Used(bills[b].lines)
      PROVE  <<b, s>> \in Joined /\ Line(<<b, s>>) = bills[b].lines[s]
  <2>1. Line(<<b, s>>) = bills[b].lines[s]
    BY DEF Line
  <2>2. s \in Services /\ bills[b].lines[s] # None
    BY DEF Used
  <2> QED BY <2>1, <2>2, LiveBills DEF Joined
<1> QED BY <1>1, <1>2, <1>3

\* A figure of the headers that adds up lines is the sum over all the lines.
LEMMA HeadersAreLines ==
  ASSUME Inv, NEW v \in [Joined -> Int], NEW h,
         h = [b \in Live |->
                SumFunction([s \in Used(bills[b].lines) |-> v[<<b, s>>]])]
  PROVE  SumFunction(h) = SumFunction(v)
<1> DEFINE g == [x \in Joined |-> x[1]]
           Of(b) == {x \in Joined : g[x] = b}
<1>1. IsFiniteSet(Joined) /\ IsFiniteSet(Live) /\ g \in [Joined -> Live]
  BY LiveBills, JoinedLines
<1>2. SumFunction(v) = SumFunction([b \in Live |-> SumFunction(On(v, Of(b)))])
  <2> HIDE DEF g
  <2> QED BY <1>1, SumByClass
<1>3. ASSUME NEW b \in Live
      PROVE  SumFunction([s \in Used(bills[b].lines) |-> v[<<b, s>>]])
               = SumFunction(On(v, Of(b)))
  <2> DEFINE S == Used(bills[b].lines)
             D == Of(b)
             f == On(v, D)
             q == [s \in S |-> <<b, s>>]
  <2>1. IsFiniteSet(S) /\ IsFiniteSet(D)
    BY <1>1, ListsAssumption, FS_Subset DEF Used
  <2>2. \A s \in S : <<b, s>> \in D
    BY JoinedLines
  <2>3. q \in [S -> D] /\ \A s \in S : q[s] = <<b, s>>
    BY <2>2
  <2>4. \A x \in S, y \in S : q[x] = q[y] => x = y
    BY <2>3
  <2>5. \A d \in D : \E x \in S : q[x] = d
    <3> SUFFICES ASSUME NEW d \in D PROVE \E x \in S : q[x] = d
      OBVIOUS
    <3>1. d \in Joined /\ d[1] = b
      OBVIOUS
    <3>2. d = <<b, d[2]>> /\ d[2] \in S
      BY <3>1, JoinedLines
    <3> QED BY <2>3, <3>2
  <2>6. f \in [D -> Int] /\ \A d \in D : f[d] = v[d]
    BY DEF On
  <2> HIDE DEF D, f, q
  <2>7. SumFunction([x \in S |-> f[q[x]]]) = SumFunction(f)
    BY <2>1, <2>3, <2>4, <2>5, <2>6, SumRenamed
  <2>8. [x \in S |-> f[q[x]]] = [x \in S |-> v[<<b, x>>]]
    BY <2>2, <2>3, <2>6
  <2> QED BY <2>7, <2>8 DEF f, D
<1>4. h = [b \in Live |-> SumFunction(On(v, Of(b)))]
  BY <1>3
<1> QED BY <1>2, <1>4

\* A figure of the lines, by employee and by service.
LEMMA LinesByClass ==
  ASSUME Inv, NEW v \in [Joined -> Int]
  PROVE  /\ SumFunction(v) = SumFunction([e \in Emps |->
              SumFunction([x \in {y \in Joined : Line(y).emp = e} |-> v[x]])])
         /\ SumFunction(v) = SumFunction([s \in Services |->
              SumFunction([x \in {y \in Joined : y[2] = s} |-> v[x]])])
<1> DEFINE e(x) == Line(x).emp
           by == [x \in Joined |-> e(x)]
           of == [x \in Joined |-> x[2]]
<1>1. IsFiniteSet(Joined) /\ IsFiniteSet(Emps) /\ IsFiniteSet(Services)
  BY JoinedLines, ListsAssumption
<1>2. by \in [Joined -> Emps] /\ of \in [Joined -> Services]
  BY JoinedLines DEF ItemOf
<1>3. SumFunction(v) =
        SumFunction([d \in Emps |-> SumFunction(On(v, {x \in Joined : by[x] = d}))])
  <2> HIDE DEF by
  <2> QED BY <1>1, <1>2, SumByClass
<1>4. SumFunction(v) =
        SumFunction([s \in Services |-> SumFunction(On(v, {x \in Joined : of[x] = s}))])
  <2> HIDE DEF of
  <2> QED BY <1>1, <1>2, SumByClass
<1>5. \A d : {x \in Joined : by[x] = d} = {y \in Joined : Line(y).emp = d}
  OBVIOUS
<1>6. \A s : {x \in Joined : of[x] = s} = {y \in Joined : y[2] = s}
  OBVIOUS
<1> HIDE DEF by, of
<1>7. \A d : On(v, {x \in Joined : by[x] = d}) =
               [x \in {y \in Joined : Line(y).emp = d} |-> v[x]]
  BY <1>5 DEF On
<1>8. \A s : On(v, {x \in Joined : of[x] = s}) =
               [x \in {y \in Joined : y[2] = s} |-> v[x]]
  BY <1>6 DEF On
<1>9. [d \in Emps |-> SumFunction(On(v, {x \in Joined : by[x] = d}))] =
        [d \in Emps |->
           SumFunction([x \in {y \in Joined : Line(y).emp = d} |-> v[x]])]
  BY <1>7
<1>10. [s \in Services |-> SumFunction(On(v, {x \in Joined : of[x] = s}))] =
         [s \in Services |->
            SumFunction([x \in {y \in Joined : y[2] = s} |-> v[x]])]
  BY <1>8
<1>11. SumFunction(v) = SumFunction([d \in Emps |->
         SumFunction([x \in {y \in Joined : Line(y).emp = d} |-> v[x]])])
  BY <1>3, <1>9, Zenon
<1>12. SumFunction(v) = SumFunction([s \in Services |->
         SumFunction([x \in {y \in Joined : y[2] = s} |-> v[x]])])
  BY <1>4, <1>10, Zenon
<1> QED BY <1>11, <1>12

\* The reports agree: a header is always the sum of the lines it is stored
\* with, a deletion takes header and lines together, and an edit that was open
\* while its bill was deleted elsewhere leaves the header deleted, so the item
\* queries do not join its new lines.
THEOREM ReportsAlwaysAgree == Spec => []ReportsAgree
<1>1. ASSUME Inv PROVE ReportsAgree
  <2> DEFINE comm == [x \in Joined |-> Line(x).comm]
             made == [x \in Joined |-> Amount(Line(x))]
  <2>1. comm \in [Joined -> Int] /\ made \in [Joined -> Int]
    <3>1. \A x \in Joined : Line(x).comm \in Int /\ Amount(Line(x)) \in Int
      <4> SUFFICES ASSUME NEW x \in Joined
                   PROVE  Line(x).comm \in Int /\ Amount(Line(x)) \in Int
        OBVIOUS
      <4>1. Line(x) \in ItemOf(Emps)
        BY <1>1, JoinedLines
      <4>2. Line(x).comm \in Int /\ Line(x).price \in Nat /\ Line(x).qty \in Nat
        BY <4>1 DEF ItemOf
      <4> QED BY <4>2 DEF Amount
    <3> QED BY <3>1
  <2>2. CommissionToday = SumFunction(comm)
    <3>1. ASSUME NEW b \in Live
          PROVE  bills[b].comm =
                   SumFunction([s \in Used(bills[b].lines) |-> comm[<<b, s>>]])
      <4>1. [s \in Used(bills[b].lines) |-> bills[b].lines[s].comm] =
              [s \in Used(bills[b].lines) |-> comm[<<b, s>>]]
        BY <1>1, JoinedLines
      <4> QED BY <1>1, <4>1, LiveBills DEF Earned
    <3>2. [b \in Live |-> bills[b].comm] = [b \in Live |->
            SumFunction([s \in Used(bills[b].lines) |-> comm[<<b, s>>]])]
      BY <3>1
    <3> HIDE DEF comm
    <3> QED BY <1>1, <2>1, <3>2, HeadersAreLines DEF CommissionToday
  <2>3. GrossToday = SumFunction(made)
    <3>1. ASSUME NEW b \in Live
          PROVE  bills[b].gross =
                   SumFunction([s \in Used(bills[b].lines) |-> made[<<b, s>>]])
      <4>1. [s \in Used(bills[b].lines) |-> Amount(bills[b].lines[s])] =
              [s \in Used(bills[b].lines) |-> made[<<b, s>>]]
        BY <1>1, JoinedLines
      <4> QED BY <1>1, <4>1, LiveBills DEF Gross
    <3>2. [b \in Live |-> bills[b].gross] = [b \in Live |->
            SumFunction([s \in Used(bills[b].lines) |-> made[<<b, s>>]])]
      BY <3>1
    <3> HIDE DEF made
    <3> QED BY <1>1, <2>1, <3>2, HeadersAreLines DEF GrossToday
  <2>4. /\ \A e \in Emps : CommissionOf(e) =
             SumFunction([x \in {y \in Joined : Line(y).emp = e} |-> comm[x]])
        /\ \A e \in Emps : RevenueOf(e) =
             SumFunction([x \in {y \in Joined : Line(y).emp = e} |-> made[x]])
        /\ \A s \in Services : RevenueOfService(s) =
             SumFunction([x \in {y \in Joined : y[2] = s} |-> made[x]])
    <3>1. \A e : [x \in {y \in Joined : Line(y).emp = e} |-> comm[x]] =
                   [x \in {y \in Joined : Line(y).emp = e} |-> Line(x).comm]
      OBVIOUS
    <3>2. \A e : [x \in {y \in Joined : Line(y).emp = e} |-> made[x]] =
                   [x \in {y \in Joined : Line(y).emp = e} |-> Amount(Line(x))]
      OBVIOUS
    <3>3. \A s : [x \in {y \in Joined : y[2] = s} |-> made[x]] =
                   [x \in {y \in Joined : y[2] = s} |-> Amount(Line(x))]
      OBVIOUS
    <3> HIDE DEF comm, made
    <3> QED BY <3>1, <3>2, <3>3, Zenon DEF CommissionOf, RevenueOf, RevenueOfService
  <2> HIDE DEF comm, made
  <2>5. CommissionToday = SumFunction([e \in Emps |-> CommissionOf(e)])
    <3>1. [e \in Emps |-> CommissionOf(e)] = [e \in Emps |->
            SumFunction([x \in {y \in Joined : Line(y).emp = e} |-> comm[x]])]
      BY <2>4
    <3> QED BY <1>1, <2>1, <2>2, <3>1, LinesByClass
  <2>6. GrossToday = SumFunction([e \in Emps |-> RevenueOf(e)])
    <3>1. [e \in Emps |-> RevenueOf(e)] = [e \in Emps |->
            SumFunction([x \in {y \in Joined : Line(y).emp = e} |-> made[x]])]
      BY <2>4
    <3> QED BY <1>1, <2>1, <2>3, <3>1, LinesByClass
  <2>7. GrossToday = SumFunction([s \in Services |-> RevenueOfService(s)])
    <3>1. [s \in Services |-> RevenueOfService(s)] = [s \in Services |->
            SumFunction([x \in {y \in Joined : y[2] = s} |-> made[x]])]
      BY <2>4
    <3> QED BY <1>1, <2>1, <2>3, <3>1, LinesByClass
  <2>8. Income = SumFunction([m \in Modes |-> Split(m)])
    <3> DEFINE net == [b \in Live |-> bills[b].net]
               mode == [b \in Live |-> bills[b].mode]
               Paid(m) == {b \in Live : mode[b] = m}
    <3>1. net \in [Live -> Int] /\ mode \in [Live -> Modes]
      BY <1>1, LiveBills DEF StoredBill
    <3>2. SumFunction(net) = SumFunction([m \in Modes |-> SumFunction(On(net, Paid(m)))])
      <4> HIDE DEF net, mode
      <4> QED BY <1>1, <3>1, LiveBills, ListsAssumption, SumByClass
    <3>3. ASSUME NEW m \in Modes
          PROVE  Split(m) = SumFunction(On(net, Paid(m)))
      <4>1. Paid(m) = {x \in Live : bills[x].mode = m}
        OBVIOUS
      <4> HIDE DEF Paid, mode
      <4>2. On(net, Paid(m)) = [b \in {x \in Live : bills[x].mode = m} |-> bills[b].net]
        BY <4>1 DEF On
      <4> QED BY <4>2 DEF Split
    <3>4. [m \in Modes |-> Split(m)] = [m \in Modes |-> SumFunction(On(net, Paid(m)))]
      BY <3>3
    <3>5. Income = SumFunction(net)
      BY DEF Income
    <3> QED BY <3>2, <3>4, <3>5, Zenon
  <2> QED BY <2>5, <2>6, <2>7, <2>8 DEF ReportsAgree
<1> QED BY <1>1, Invariance, PTL

(***************************************************************************)
(* What a save may do.                                                     *)
(***************************************************************************)
\* A save, from the form or from the sheet.
LEMMA Saves ==
  ASSUME Inv, [Next]_vars, saves' # saves
  PROVE  \E items : \E e \in Emps : \E team \in Staffs :
           /\ Saveable(items) /\ StaffOk(form, items)
           /\ BookedTo(items, e, team) /\ staff' = team
           /\ \/ Stuck(items, e, team)
              \/ \E who \in Customers \cup {None} : \E b \in Bills :
                   Stored(items, e, team, who, b)
<1>1. Save \/ SaveFromSheet
  BY Steps
<1>2. PICK items : Saveable(items) /\ SaveBill(items) /\ StaffOk(form, items)
  BY <1>1, SaveIsSaveable, SheetIsSaveable
<1> QED BY <1>2, SaveCases

\* The lines of the bill that a save stores.
LEMMA StoredBillLines ==
  ASSUME Inv, NEW items, Saveable(items), NEW e \in Emps, NEW team \in Staffs,
         NEW who \in Customers \cup {None}, NEW b \in Bills,
         Stored(items, e, team, who, b)
  PROVE  /\ \A x \in Bills : x # b => bills'[x] = bills[x]
         /\ SameMoney(bills'[b].lines, items) /\ SameMoney(items, bills'[b].lines)
         /\ \A s \in Used(items) : bills'[b].lines[s].emp =
              IF items[s].emp = None THEN e ELSE items[s].emp
         /\ bills'[b].comm = Earned(items)
         /\ bills'[b].net =
              Larger(0, Gross(items) - Discounted(Gross(items), form.disc))
<1> DEFINE new == Written(b, Header(form, items, e, who, team))
<1>1. bills' = [bills EXCEPT ![b] = new] /\ (form.id # None => b = form.id)
  BY DEF Stored
<1>2. /\ new.lines = Saved(form, items, e, team)
      /\ new.comm = Earned(items)
      /\ new.net = Larger(0, Gross(items) - Discounted(Gross(items), form.disc))
  BY <1>1, WrittenBill
<1> HIDE DEF new
<1>3. bills \in [Bills -> {None} \cup StoredBill]
  BY DEF Inv, TypeOK
<1>4. bills'[b] = new /\ \A x \in Bills : x # b => bills'[x] = bills[x]
  BY <1>1, <1>3
<1>5. /\ form.staff \in Staffs /\ items \in ItemsOf(Anyone) /\ AllExplained(items)
  BY OpenForm DEF Saveable
<1> DEFINE L == Saved(form, items, e, team)
<1>6. /\ SameMoney(L, items) /\ SameMoney(items, L)
      /\ \A s \in Used(items) : L[s].emp =
           IF items[s].emp = None THEN e ELSE items[s].emp
  BY <1>5, SavedLines
<1> HIDE DEF L
<1>7. bills'[b].lines = L
  BY <1>2, <1>4 DEF L
<1> QED BY <1>2, <1>4, <1>6, <1>7

\* Saving an edit whose lines and discount were not touched charges what was
\* charged and pays the staff what they were paid: the lines are taken over as
\* they were saved, and nothing but a tap prices them anew.
THEOREM UntouchedEdits == Spec => UntouchedEditKeepsMoney
<1> DEFINE Kept ==
      saves' # saves /\ form.id # None /\ ~form.repriced =>
        LET old == bills[form.id]  new == bills'[form.id]
        IN /\ new.net = old.net /\ new.comm = old.comm
           /\ Used(new.lines) \subseteq Used(old.lines)
           /\ \A s \in Used(new.lines) :
                new.lines[s].comm = old.lines[s].comm
<1>1. ASSUME Inv, [Next]_vars
      PROVE  Kept
  <2> SUFFICES ASSUME saves' # saves, form.id # None, ~form.repriced
               PROVE  /\ bills'[form.id].net = bills[form.id].net
                      /\ bills'[form.id].comm = bills[form.id].comm
                      /\ Used(bills'[form.id].lines)
                           \subseteq Used(bills[form.id].lines)
                      /\ \A s \in Used(bills'[form.id].lines) :
                           bills'[form.id].lines[s].comm
                             = bills[form.id].lines[s].comm
    BY Zenon
  <2>0. PICK items : \E e \in Emps : \E team \in Staffs :
          /\ Saveable(items) /\ StaffOk(form, items)
          /\ BookedTo(items, e, team) /\ staff' = team
          /\ \/ Stuck(items, e, team)
             \/ \E who \in Customers \cup {None} : \E x \in Bills :
                  Stored(items, e, team, who, x)
    BY <1>1, Saves, Zenon
  <2>1. PICK e \in Emps, team \in Staffs :
          /\ Saveable(items)
          /\ \/ Stuck(items, e, team)
             \/ \E who \in Customers \cup {None} : \E b \in Bills :
                  Stored(items, e, team, who, b)
    BY <2>0
  <2>2. CASE Stuck(items, e, team)
    BY <2>2 DEF Stuck
  <2>3. ASSUME NEW who \in Customers \cup {None}, NEW b \in Bills,
               Stored(items, e, team, who, b)
        PROVE  /\ bills'[form.id].net = bills[form.id].net
               /\ bills'[form.id].comm = bills[form.id].comm
               /\ Used(bills'[form.id].lines) \subseteq Used(bills[form.id].lines)
               /\ \A s \in Used(bills'[form.id].lines) :
                    bills'[form.id].lines[s].comm = bills[form.id].lines[s].comm
    <3> DEFINE old == bills[form.id]
               new == bills'[form.id]
    <3>1. b = form.id /\ IsOpen(form) /\ items = form.items /\ Used(items) # {}
      BY <2>1, <2>3 DEF Stored, Saveable
    <3>2. old # None /\ Unpriced(form, old)
      BY <1>1, <3>1, OpenForm DEF FormOk, EditOk
    <3>3. SameMoney(items, old.lines) /\ form.disc = old.disc
      BY <3>1, <3>2 DEF Unpriced
    <3>4. AddsUp(old)
      BY <1>1, <3>1, <3>2, StoredLines
    <3>5. /\ SameMoney(new.lines, items)
          /\ new.comm = Earned(items)
          /\ new.net = Larger(0, Gross(items) - Discounted(Gross(items), form.disc))
      BY <1>1, <2>1, <2>3, <3>1, StoredBillLines
    <3> HIDE DEF old, new
    <3>6. Gross(items) = old.gross /\ Earned(items) = old.comm
      BY <3>3, <3>4, SumsAgree DEF AddsUp
    <3>7. new.net = old.net /\ new.comm = old.comm
      BY <3>3, <3>4, <3>5, <3>6 DEF AddsUp
    <3>8. /\ Used(new.lines) = Used(old.lines)
          /\ \A s \in Used(new.lines) : new.lines[s].comm = old.lines[s].comm
      BY <3>3, <3>5 DEF SameMoney
    <3> QED BY <3>7, <3>8 DEF old, new
  <2> QED BY <2>1, <2>2, <2>3
<1>2. Spec => [][Kept]_vars
  <2> HIDE DEF Kept
  <2>1. Inv /\ [Next]_vars => [Kept]_vars
    BY <1>1
  <2> QED BY <2>1, Invariance, PTL DEF Spec
<1> QED BY <1>2 DEF UntouchedEditKeepsMoney

\* A line that has an employee under the lock.
LEMMA LockedLine ==
  ASSUME Inv, locked, form.id = None \/ form.bound,
         NEW items, Saveable(items), StaffOk(form, items),
         NEW s \in Used(items), items[s].emp # None
  PROVE  \/ staff[items[s].emp].owner
         \/ form.id # None /\ items[s].emp \in OnBill(bills[form.id])
<1> DEFINE e == items[s].emp
<1>1. /\ IsOpen(form) /\ FormOk(form, staff, bills, locked)
      /\ items \in ItemsOf(Anyone)
  BY OpenForm DEF Saveable
<1>2. e \in Emps
  BY <1>1 DEF Used, ItemsOf, ItemOf, Anyone
<1>3. \/ e \in BillingEmployees(form, locked)
      \/ form.id # None /\ e \in Assigned(form)
  BY DEF StaffOk
<1> HIDE DEF e
<1>4. form.staff[e].owner => staff[e].owner
  BY <1>1, <1>2 DEF FormOk, Loaded
<1>5. CASE e \in BillingEmployees(form, locked)
  BY <1>4, <1>5, Picked DEF e
<1>6. CASE form.id # None /\ e \in Assigned(form)
  <2>1. BoundToBill(form, bills[form.id])
    BY <1>1, <1>6 DEF FormOk, EditOk
  <2>2. e \in OnBill(bills[form.id]) \/ form.staff[e].owner
    BY <1>2, <1>6, <2>1, NoneAssumption DEF BoundToBill
  <2> QED BY <1>4, <1>6, <2>2 DEF e
<1> QED BY <1>3, <1>5, <1>6

\* Under the lock a new bill is the owner's, and an edit gives no line to
\* anybody who was not on the bill: a line without an employee is saved only
\* when the form knows no active owner, so nobody is its default either, and
\* the bill is booked to another line's employee or to the owner.
THEOREM LockIsKept == Spec => LockHolds
<1> DEFINE Kept ==
      saves' # saves /\ locked /\ (form.id = None \/ form.bound) =>
        \A b \in {x \in Bills : bills'[x] # bills[x]} :
          \A s \in Used(bills'[b].lines) :
            LET e == bills'[b].lines[s].emp
            IN \/ staff'[e].owner
               \/ /\ form.id # None
                  /\ e \in {bills[b].emp} \cup
                       {bills[b].lines[x].emp : x \in Used(bills[b].lines)}
<1>1. ASSUME Inv, [Next]_vars
      PROVE  Kept
  <2> SUFFICES ASSUME saves' # saves, locked, form.id = None \/ form.bound,
                      NEW b \in Bills, bills'[b] # bills[b],
                      NEW s \in Used(bills'[b].lines)
               PROVE  \/ staff'[bills'[b].lines[s].emp].owner
                      \/ /\ form.id # None
                         /\ bills'[b].lines[s].emp \in OnBill(bills[b])
    BY Zenon DEF OnBill
  <2>0. PICK items : \E e \in Emps : \E team \in Staffs :
          /\ Saveable(items) /\ StaffOk(form, items)
          /\ BookedTo(items, e, team) /\ staff' = team
          /\ \/ Stuck(items, e, team)
             \/ \E who \in Customers \cup {None} : \E x \in Bills :
                  Stored(items, e, team, who, x)
    BY <1>1, Saves, Zenon
  <2>1. PICK e \in Emps, team \in Staffs :
          /\ Saveable(items) /\ StaffOk(form, items)
          /\ BookedTo(items, e, team) /\ staff' = team
          /\ \/ Stuck(items, e, team)
             \/ \E who \in Customers \cup {None} : \E x \in Bills :
                  Stored(items, e, team, who, x)
    BY <2>0
  <2>2. PICK who \in Customers \cup {None}, x \in Bills :
          Stored(items, e, team, who, x)
    BY <2>1 DEF Stuck
  <2>3. /\ \A y \in Bills : y # x => bills'[y] = bills[y]
        /\ Used(bills'[x].lines) = Used(items)
        /\ \A y \in Used(items) : bills'[x].lines[y].emp =
             IF items[y].emp = None THEN e ELSE items[y].emp
    BY <1>1, <2>1, <2>2, StoredBillLines DEF SameMoney
  <2>4. b = x /\ s \in Used(items) /\ (form.id # None => b = form.id)
    BY <2>2, <2>3 DEF Stored
  <2>5. \A y \in Emps : staff[y].owner => team[y].owner
    BY <1>1, <2>1, EnsuringOwner DEF BookedTo
  <2>6. \A y \in Used(items) : items[y].emp \in Anyone
    BY <2>1 DEF Saveable, ItemsOf, ItemOf, Used
  <2>7. ASSUME NEW y \in Used(items), items[y].emp # None
        PROVE  \/ team[items[y].emp].owner
               \/ form.id # None /\ items[y].emp \in OnBill(bills[b])
    <3>1. \/ staff[items[y].emp].owner
          \/ form.id # None /\ items[y].emp \in OnBill(bills[form.id])
      BY <1>1, <2>1, <2>7, LockedLine
    <3> QED BY <2>4, <2>5, <2>6, <2>7, <3>1 DEF Anyone
  <2>8. CASE items[s].emp # None
    BY <2>1, <2>3, <2>4, <2>7, <2>8
  <2>9. CASE items[s].emp = None
    <3>1. bills'[b].lines[s].emp = e
      BY <2>3, <2>4, <2>9
    <3>2. BillingEmployees(form, locked) = {}
      BY <2>1, <2>4, <2>9 DEF StaffOk
    <3>3. ~\E y \in Employees(form) : form.staff[y].owner
      BY <3>2 DEF BillingEmployees
    <3>4. form.emp = None
      BY <1>1, <2>1, <2>4, <2>9, <3>3, OpenForm DEF OwnerToChoose, Saveable
    <3>5. PICK y \in Used(items) : Primary(form, items) = items[y].emp
      BY <1>1, <2>1, <3>4, OpenForm, PrimaryIsAssigned DEF Saveable
    <3>6. CASE items[y].emp # None
      <4>1. e = items[y].emp
        BY <2>1, <3>5, <3>6 DEF BookedTo
      <4> QED BY <2>1, <2>7, <3>1, <3>6, <4>1
    <3>7. CASE items[y].emp = None
      <4>1. e \in OwnerEmployee /\ team = EnsuredOwner(e)
        BY <2>1, <3>5, <3>7 DEF BookedTo
      <4> QED BY <1>1, <2>1, <3>1, <4>1, EnsuringOwner
    <3> QED BY <3>6, <3>7
  <2> QED BY <2>8, <2>9
<1>2. Spec => [][Kept]_vars
  <2> HIDE DEF Kept
  <2>1. Inv /\ [Next]_vars => [Kept]_vars
    BY <1>1
  <2> QED BY <2>1, Invariance, PTL DEF Spec
<1> QED BY <1>2, PTL DEF LockHolds

=============================================================================
