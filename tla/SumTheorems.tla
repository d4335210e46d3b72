----------------------------- MODULE SumTheorems -----------------------------
(***************************************************************************)
(* Facts about sums over finite sets (SumFunctionOnSet of Functions), for  *)
(* the proofs about quantities that are booked in several places: orders   *)
(* and tape in the book, children and parents in the algorithmic engine;   *)
(* and about what the calls on an order have left to do together.          *)
(* Induction over a finite set is stated for a family of sets, so that it  *)
(* can be cited without an operator to instantiate.                        *)
(***************************************************************************)
EXTENDS Integers, Functions, FiniteSets, FiniteSetTheorems, WellFoundedInduction, TLAPS

(* A set of naturals that is not empty has a least member. *)
LEMMA LeastNat ==
  ASSUME NEW S \in SUBSET Nat, S # {}
  PROVE  \E n \in S : \A k \in S : n <= k
<1> DEFINE R == OpToRel(<, Nat)
<1>1. \A x, y \in Nat : <<x, y>> \in R <=> x < y
  BY DEF OpToRel
<1>2. IsWellFoundedOn(R, Nat)
  BY NatLessThanWellFounded
<1> HIDE DEF R
<1>3. PICK n \in S : \A k \in S : ~(<<k, n>> \in R)
  BY <1>2, WFMin
<1>4. ASSUME NEW k \in S PROVE n <= k
  <2>1. n \in Nat /\ k \in Nat /\ ~(k < n)
    BY <1>1, <1>3
  <2>2. QED
    BY <2>1
<1>5. QED
  BY <1>4

(* A set of naturals that has 0, and each member's successor, has them all. *)
LEMMA NatFamily ==
  ASSUME NEW T, 0 \in T, \A n \in Nat : n \in T => n + 1 \in T
  PROVE  Nat \subseteq T
<1> DEFINE Missing == Nat \ T
<1>1. SUFFICES ASSUME Missing # {} PROVE FALSE
  OBVIOUS
<1>2. PICK n \in Missing : \A k \in Missing : n <= k
  BY <1>1, LeastNat
<1>3. n \in Nat /\ n # 0 /\ n \notin T
  BY <1>2
<1>4. n - 1 \in Nat /\ n - 1 \notin Missing
  BY <1>2, <1>3
<1>5. n \in T
  BY <1>3, <1>4
<1>6. QED
  BY <1>3, <1>5

(* A family of subsets of a finite set that has the empty set, and with each *)
(* member the member with one more element, has the set itself.             *)
LEMMA SetFamily ==
  ASSUME NEW S, IsFiniteSet(S), NEW F, {} \in F,
         \A A \in SUBSET S : \A x \in S \ A : A \in F => A \cup {x} \in F
  PROVE  S \in F
<1> DEFINE T == {n \in Nat : \A A \in SUBSET S : Cardinality(A) = n => A \in F}
<1>1. 0 \in T
  <2>1. ASSUME NEW A \in SUBSET S, Cardinality(A) = 0 PROVE A \in F
    <3>1. IsFiniteSet(A)
      BY FS_Subset
    <3>2. A = {}
      BY <2>1, <3>1, FS_EmptySet
    <3>3. QED
      BY <3>2
  <2>2. QED
    BY <2>1
<1>2. ASSUME NEW n \in Nat, n \in T PROVE n + 1 \in T
  <2>1. ASSUME NEW A \in SUBSET S, Cardinality(A) = n + 1 PROVE A \in F
    <3>1. IsFiniteSet(A)
      BY FS_Subset
    <3>2. A # {}
      <4>1. Cardinality({}) = 0 /\ n + 1 # 0
        BY FS_EmptySet
      <4>2. QED
        BY <2>1, <4>1
    <3>3. PICK x \in A : TRUE
      BY <3>2
    <3>4. Cardinality(A \ {x}) = n
      <4>1. Cardinality(A \ {x}) = Cardinality(A) - 1
        BY <3>1, FS_RemoveElement
      <4>2. QED
        BY <2>1, <4>1
    <3>5. A \ {x} \in F
      BY <1>2, <3>4
    <3>6. (A \ {x}) \cup {x} \in F
      BY <3>5
    <3>7. (A \ {x}) \cup {x} = A
      OBVIOUS
    <3>8. QED
      BY <3>6, <3>7
  <2>2. QED
    BY <2>1
<1> HIDE DEF T
<1>3. Nat \subseteq T
  BY <1>1, <1>2, NatFamily
<1>4. Cardinality(S) \in Nat
  BY FS_CardinalityType
<1>5. QED
  BY <1>3, <1>4 DEF T

-----------------------------------------------------------------------------
(* How the sum is defined: by a function on the subsets, which takes out of *)
(* each the element that CHOOSE picks.                                      *)
First(B) == CHOOSE x \in B : TRUE
Adds(f, D, g) ==
  g = [B \in D |-> IF B = {} THEN 0 ELSE f[First(B)] + g[B \ {First(B)}]]

(* The library's sum over S is the value at S of a function that adds up, chosen on the subsets of S. *)
LEMMA SumIs ==
  ASSUME NEW f, NEW S
  PROVE  SumFunctionOnSet(f, S) = (CHOOSE g : Adds(f, SUBSET S, g))[S]
BY DEF SumFunctionOnSet, FoldFunctionOnSet, MapThenFoldSet, Adds, First

(* A set that is not empty has a first element. *)
LEMMA FirstIn ==
  ASSUME NEW B, B # {}
  PROVE  First(B) \in B
BY DEF First

(* Such a function exists: on the sets of n elements at most, for every n.  *)
LEMMA AddsExists ==
  ASSUME NEW S, IsFiniteSet(S), NEW f
  PROVE  \E g : Adds(f, SUBSET S, g)
<1> DEFINE Upto(n) == {B \in SUBSET S : Cardinality(B) <= n}
           T == {n \in Nat : \E g : Adds(f, Upto(n), g)}
<1>1. \A B \in SUBSET S : IsFiniteSet(B) /\ Cardinality(B) \in Nat /\ Cardinality(B) <= Cardinality(S)
  BY FS_Subset, FS_CardinalityType
<1>2. 0 \in T
  <2>1. Adds(f, Upto(0), [B \in Upto(0) |-> 0])
    <3>1. ASSUME NEW B \in Upto(0) PROVE B = {}
      <4>1. IsFiniteSet(B) /\ Cardinality(B) = 0
        BY <1>1
      <4>2. QED
        BY <4>1, FS_EmptySet
    <3> HIDE DEF Upto
    <3>2. QED
      BY <3>1 DEF Adds
  <2>2. QED
    BY <2>1
<1>3. ASSUME NEW n \in Nat, n \in T PROVE n + 1 \in T
  <2>1. PICK g : Adds(f, Upto(n), g)
    BY <1>3
  <2> DEFINE h == [B \in Upto(n + 1) |-> IF B = {} THEN 0 ELSE f[First(B)] + g[B \ {First(B)}]]
  <2>2. \A B \in Upto(n) : B \in Upto(n + 1)
    BY <1>1
  <2>3. ASSUME NEW B \in Upto(n + 1), B # {} PROVE B \ {First(B)} \in Upto(n)
    <3>1. First(B) \in B
      BY <2>3, FirstIn
    <3>2. IsFiniteSet(B) /\ Cardinality(B) \in Nat /\ Cardinality(B) <= n + 1
      BY <1>1
    <3>3. Cardinality(B \ {First(B)}) = Cardinality(B) - 1
      BY <3>1, <3>2, FS_RemoveElement
    <3>4. QED
      BY <3>2, <3>3
  <2> HIDE DEF Upto
  <2>4. \A B \in Upto(n) : h[B] = g[B]
    BY <2>1, <2>2 DEF Adds
  <2>5. h = [B \in Upto(n + 1) |-> IF B = {} THEN 0 ELSE f[First(B)] + h[B \ {First(B)}]]
    <3>1. \A B \in Upto(n + 1) : B # {} => h[B \ {First(B)}] = g[B \ {First(B)}]
      BY <2>3, <2>4
    <3>2. QED
      BY <3>1
  <2>6. Adds(f, Upto(n + 1), h)
    BY <2>5 DEF Adds
  <2>7. QED
    BY <2>6
<1>4. Nat \subseteq T
  <2> HIDE DEF T
  <2>1. QED
    BY <1>2, <1>3, NatFamily
<1>5. Cardinality(S) \in T
  BY <1>4, FS_CardinalityType
<1>6. Upto(Cardinality(S)) = SUBSET S
  BY <1>1
<1>7. QED
  BY <1>5, <1>6

(* The sum over any subset of the set is what such a function says.         *)
LEMMA AddsUnique ==
  ASSUME NEW S, IsFiniteSet(S), NEW f, NEW g, Adds(f, SUBSET S, g),
         NEW U \in SUBSET S, NEW h, Adds(f, SUBSET U, h)
  PROVE  h[U] = g[U]
<1> DEFINE T == {n \in Nat : \A B \in SUBSET U : Cardinality(B) = n => h[B] = g[B]}
<1>1. \A B \in SUBSET U : B \in SUBSET S /\ IsFiniteSet(B) /\ Cardinality(B) \in Nat
  BY FS_Subset, FS_CardinalityType
<1>2. g[{}] = 0 /\ h[{}] = 0
  BY DEF Adds
<1>3. 0 \in T
  <2>1. ASSUME NEW B \in SUBSET U, Cardinality(B) = 0 PROVE h[B] = g[B]
    <3>1. B = {}
      BY <1>1, <2>1, FS_EmptySet
    <3>2. QED
      BY <1>2, <3>1
  <2>2. QED
    BY <2>1
<1>4. ASSUME NEW n \in Nat, n \in T PROVE n + 1 \in T
  <2>1. ASSUME NEW B \in SUBSET U, Cardinality(B) = n + 1 PROVE h[B] = g[B]
    <3>1. B # {}
      <4>1. Cardinality({}) = 0 /\ n + 1 # 0
        BY FS_EmptySet
      <4>2. QED
        BY <2>1, <4>1
    <3> DEFINE C == B \ {First(B)}
    <3>2. C \in SUBSET U /\ Cardinality(C) = n
      <4>1. First(B) \in B
        BY <3>1, FirstIn
      <4>2. Cardinality(C) = Cardinality(B) - 1
        BY <1>1, <4>1, FS_RemoveElement
      <4>3. QED
        BY <2>1, <4>2
    <3>3. h[C] = g[C]
      BY <1>4, <3>2
    <3>4. h[B] = f[First(B)] + h[C]
      BY <3>1 DEF Adds
    <3>5. g[B] = f[First(B)] + g[C]
      BY <1>1, <3>1 DEF Adds
    <3>6. QED
      BY <3>3, <3>4, <3>5
  <2>2. QED
    BY <2>1
<1>5. Nat \subseteq T
  <2> HIDE DEF T
  <2>1. QED
    BY <1>3, <1>4, NatFamily
<1>6. Cardinality(U) \in T
  BY <1>1, <1>5
<1>7. QED
  BY <1>6

(* The sum over U is the value at U of any function that adds up on the subsets of a larger S. *)
LEMMA SumAdds ==
  ASSUME NEW S, IsFiniteSet(S), NEW f, NEW g, Adds(f, SUBSET S, g), NEW U \in SUBSET S
  PROVE  SumFunctionOnSet(f, U) = g[U]
<1> DEFINE h == CHOOSE k : Adds(f, SUBSET U, k)
<1>1. IsFiniteSet(U)
  BY FS_Subset
<1>2. Adds(f, SUBSET U, h)
  BY <1>1, AddsExists
<1>3. SumFunctionOnSet(f, U) = h[U]
  BY SumIs
<1> HIDE DEF h
<1>4. QED
  BY <1>2, <1>3, AddsUnique

(* The sum over no elements is 0. *)
LEMMA SumEmpty ==
  ASSUME NEW f
  PROVE  SumFunctionOnSet(f, {}) = 0
<1>1. IsFiniteSet({})
  BY FS_EmptySet
<1>2. PICK g : Adds(f, SUBSET {}, g)
  BY <1>1, AddsExists
<1>3. SumFunctionOnSet(f, {}) = g[{}]
  BY <1>1, <1>2, SumAdds
<1>4. g[{}] = 0
  BY <1>2 DEF Adds
<1>5. QED
  BY <1>3, <1>4

(* The first element of a set, and the rest of it. *)
LEMMA SumFirst ==
  ASSUME NEW S, IsFiniteSet(S), S # {}, NEW f
  PROVE  SumFunctionOnSet(f, S) = f[First(S)] + SumFunctionOnSet(f, S \ {First(S)})
<1>1. PICK g : Adds(f, SUBSET S, g)
  BY AddsExists
<1>2. SumFunctionOnSet(f, S) = g[S]
  BY <1>1, SumAdds
<1>3. SumFunctionOnSet(f, S \ {First(S)}) = g[S \ {First(S)}]
  BY <1>1, SumAdds
<1>4. g[S] = f[First(S)] + g[S \ {First(S)}]
  BY <1>1 DEF Adds
<1>5. QED
  BY <1>2, <1>3, <1>4

-----------------------------------------------------------------------------
(* A sum of integers is an integer, and any element may be taken out of it. *)
LEMMA SumRemove ==
  ASSUME NEW S, IsFiniteSet(S), NEW f, \A x \in S : f[x] \in Int
  PROVE  /\ SumFunctionOnSet(f, S) \in Int
         /\ \A x \in S : SumFunctionOnSet(f, S) = f[x] + SumFunctionOnSet(f, S \ {x})
<1> DEFINE Sum(A) == SumFunctionOnSet(f, A)
           P(A) == Sum(A) \in Int /\ \A x \in A : Sum(A) = f[x] + Sum(A \ {x})
           T == {n \in Nat : \A A \in SUBSET S : Cardinality(A) <= n => P(A)}
<1>1. \A A \in SUBSET S : IsFiniteSet(A) /\ Cardinality(A) \in Nat
  BY FS_Subset, FS_CardinalityType
<1>2. P({})
  <2>1. Sum({}) = 0
    BY SumEmpty
  <2> HIDE DEF Sum
  <2>2. QED
    BY <2>1
<1> HIDE DEF Sum
<1>3. 0 \in T
  <2>1. ASSUME NEW A \in SUBSET S, Cardinality(A) <= 0 PROVE A = {}
    <3>1. Cardinality(A) = 0
      BY <1>1, <2>1
    <3>2. QED
      BY <1>1, <3>1, FS_EmptySet
  <2> HIDE DEF P
  <2>2. QED
    BY <1>2, <2>1
<1>4. ASSUME NEW n \in Nat, n \in T PROVE n + 1 \in T
  <2> HIDE DEF P
  <2>1. \A A \in SUBSET S : Cardinality(A) <= n => P(A)
    BY <1>4
  <2>2. ASSUME NEW A \in SUBSET S, NEW x \in A, Cardinality(A) <= n + 1
        PROVE  A \ {x} \in SUBSET S /\ Cardinality(A \ {x}) <= n
    <3>1. Cardinality(A \ {x}) = Cardinality(A) - 1
      BY <1>1, FS_RemoveElement
    <3>2. QED
      BY <1>1, <2>2, <3>1
  <2>3. ASSUME NEW A \in SUBSET S, Cardinality(A) <= n + 1, A # {} PROVE P(A)
    <3> DEFINE c == First(A)
    <3>1. c \in A /\ f[c] \in Int
      BY <2>3, FirstIn
    <3>2. Sum(A) = f[c] + Sum(A \ {c})
      BY <1>1, <2>3, SumFirst DEF Sum
    <3> HIDE DEF c
    <3>3. P(A \ {c})
      BY <2>1, <2>2, <2>3, <3>1
    <3>4. ASSUME NEW x \in A PROVE Sum(A) = f[x] + Sum(A \ {x})
      <4>1. CASE x = c
        BY <3>2, <4>1
      <4>2. CASE x # c
        <5> DEFINE B == A \ {c, x}
        <5>1. /\ x \in A \ {c} /\ c \in A \ {x}
              /\ (A \ {c}) \ {x} = B /\ (A \ {x}) \ {c} = B
          BY <3>1, <4>2
        <5>2. P(A \ {x}) /\ f[x] \in Int
          BY <2>1, <2>2, <2>3
        <5>3. P(B)
          <6>1. A \ {x} \in SUBSET S /\ Cardinality(A \ {x}) <= n
            BY <2>2, <2>3
          <6>2. Cardinality((A \ {x}) \ {c}) <= n /\ B \in SUBSET S
            <7>1. Cardinality((A \ {x}) \ {c}) = Cardinality(A \ {x}) - 1
              BY <1>1, <5>1, <6>1, FS_RemoveElement
            <7>2. QED
              BY <1>1, <6>1, <7>1
          <6>3. QED
            BY <2>1, <5>1, <6>2
        <5> HIDE DEF B
        <5>4. Sum(A \ {c}) = f[x] + Sum(B)
          BY <3>3, <5>1 DEF P
        <5>5. Sum(A \ {x}) = f[c] + Sum(B)
          BY <5>1, <5>2 DEF P
        <5>6. Sum(B) \in Int
          BY <5>3 DEF P
        <5>7. QED
          BY <3>1, <3>2, <5>2, <5>4, <5>5, <5>6
      <4>3. QED
        BY <4>1, <4>2
    <3>5. Sum(A) \in Int
      BY <3>1, <3>2, <3>3 DEF P
    <3>6. QED
      BY <3>4, <3>5 DEF P
  <2>4. QED
    BY <1>2, <2>3
<1>5. Nat \subseteq T
  <2> HIDE DEF T
  <2>1. QED
    BY <1>3, <1>4, NatFamily
<1>6. P(S)
  <2> HIDE DEF P
  <2>1. QED
    BY <1>1, <1>5
<1>7. QED
  BY <1>6 DEF Sum

(* An element that is added adds its value. *)
LEMMA SumInsert ==
  ASSUME NEW S, IsFiniteSet(S), NEW x, x \notin S, NEW f,
         f[x] \in Int, \A y \in S : f[y] \in Int
  PROVE  SumFunctionOnSet(f, S \cup {x}) = f[x] + SumFunctionOnSet(f, S)
<1>1. IsFiniteSet(S \cup {x}) /\ (S \cup {x}) \ {x} = S /\ x \in S \cup {x}
  BY FS_AddElement
<1>2. \A y \in S \cup {x} : f[y] \in Int
  OBVIOUS
<1>3. QED
  BY <1>1, <1>2, SumRemove

(* The sum depends only on the values at the elements. *)
LEMMA SumAgree ==
  ASSUME NEW S, IsFiniteSet(S), NEW f, NEW g,
         \A x \in S : f[x] = g[x] /\ f[x] \in Int
  PROVE  SumFunctionOnSet(f, S) = SumFunctionOnSet(g, S)
<1> DEFINE F == {A \in SUBSET S : SumFunctionOnSet(f, A) = SumFunctionOnSet(g, A)}
<1>1. {} \in F
  BY SumEmpty
<1>2. ASSUME NEW A \in SUBSET S, NEW x \in S \ A, A \in F PROVE A \cup {x} \in F
  <2>1. IsFiniteSet(A) /\ (\A y \in A : f[y] \in Int /\ g[y] \in Int)
    BY FS_Subset
  <2>2. SumFunctionOnSet(f, A \cup {x}) = f[x] + SumFunctionOnSet(f, A)
    BY <2>1, SumInsert
  <2>3. SumFunctionOnSet(g, A \cup {x}) = g[x] + SumFunctionOnSet(g, A)
    BY <2>1, SumInsert
  <2>4. QED
    BY <1>2, <2>2, <2>3
<1> HIDE DEF F
<1>3. S \in F
  BY <1>1, <1>2, SetFamily
<1>4. QED
  BY <1>3 DEF F

(* A change at one element changes the sum by as much. *)
LEMMA SumChange ==
  ASSUME NEW S, IsFiniteSet(S), NEW f, NEW g, NEW x \in S,
         \A y \in S : f[y] \in Int /\ g[y] \in Int,
         \A y \in S \ {x} : f[y] = g[y]
  PROVE  SumFunctionOnSet(g, S) = SumFunctionOnSet(f, S) - f[x] + g[x]
<1>1. IsFiniteSet(S \ {x})
  BY FS_Subset
<1>2. /\ SumFunctionOnSet(f, S) = f[x] + SumFunctionOnSet(f, S \ {x})
      /\ SumFunctionOnSet(g, S) = g[x] + SumFunctionOnSet(g, S \ {x})
  BY SumRemove
<1>3. SumFunctionOnSet(f, S \ {x}) = SumFunctionOnSet(g, S \ {x})
  BY <1>1, SumAgree
<1>4. SumFunctionOnSet(f, S \ {x}) \in Int
  BY <1>1, SumRemove
<1> DEFINE r == SumFunctionOnSet(f, S \ {x})
<1>5. r \in Int
  BY <1>4
<1> HIDE DEF r
<1>6. QED
  BY <1>2, <1>3, <1>5 DEF r

(* Of two functions, the one that is nowhere greater has no greater sum.    *)
LEMMA SumAtMost ==
  ASSUME NEW S, IsFiniteSet(S), NEW f, NEW g,
         \A x \in S : f[x] \in Int /\ g[x] \in Int /\ f[x] <= g[x]
  PROVE  SumFunctionOnSet(f, S) <= SumFunctionOnSet(g, S)
<1> DEFINE sf(A) == SumFunctionOnSet(f, A)
           sg(A) == SumFunctionOnSet(g, A)
           F == {A \in SUBSET S : sf(A) <= sg(A)}
<1>1. {} \in F
  <2>1. sf({}) = 0 /\ sg({}) = 0
    BY SumEmpty
  <2> HIDE DEF sf, sg
  <2>2. QED
    BY <2>1
<1>2. ASSUME NEW A \in SUBSET S, NEW x \in S \ A, A \in F PROVE A \cup {x} \in F
  <2>1. IsFiniteSet(A) /\ (\A y \in A : f[y] \in Int /\ g[y] \in Int)
    BY FS_Subset
  <2>2. sf(A \cup {x}) = f[x] + sf(A) /\ sf(A) \in Int
    BY <2>1, SumInsert, SumRemove
  <2>3. sg(A \cup {x}) = g[x] + sg(A) /\ sg(A) \in Int
    BY <2>1, SumInsert, SumRemove
  <2> HIDE DEF sf, sg
  <2>4. QED
    BY <1>2, <2>2, <2>3
<1> HIDE DEF F
<1>3. S \in F
  BY <1>1, <1>2, SetFamily
<1>4. QED
  BY <1>3 DEF F

(* What is nowhere negative has a sum that is not negative, and is no less  *)
(* than k times the number of the elements at which it is at least k.       *)
LEMMA SumAtLeast ==
  ASSUME NEW S, IsFiniteSet(S), NEW f, NEW k \in Nat,
         \A x \in S : f[x] \in Nat
  PROVE  k * Cardinality({x \in S : f[x] >= k}) <= SumFunctionOnSet(f, S)
<1> DEFINE sf(A) == SumFunctionOnSet(f, A)
           Big(A) == {x \in A : f[x] >= k}
           F == {A \in SUBSET S : k * Cardinality(Big(A)) <= sf(A)}
<1>1. {} \in F
  <2>1. sf({}) = 0 /\ Big({}) = {} /\ Cardinality({}) = 0
    BY SumEmpty, FS_EmptySet
  <2> HIDE DEF sf, Big
  <2>2. QED
    BY <2>1
<1>2. ASSUME NEW A \in SUBSET S, NEW x \in S \ A, A \in F PROVE A \cup {x} \in F
  <2>1. IsFiniteSet(A) /\ (\A y \in A : f[y] \in Int)
    BY FS_Subset
  <2>2. sf(A \cup {x}) = f[x] + sf(A) /\ sf(A) \in Int /\ f[x] \in Nat
    <3>1. f[x] \in Nat /\ f[x] \in Int /\ x \notin A
      OBVIOUS
    <3>2. sf(A \cup {x}) = f[x] + sf(A)
      BY <2>1, <3>1, SumInsert
    <3>3. sf(A) \in Int
      BY <2>1, SumRemove
    <3>4. QED
      BY <3>1, <3>2, <3>3
  <2>3. IsFiniteSet(Big(A)) /\ x \notin Big(A) /\ Cardinality(Big(A)) \in Nat
    BY <2>1, FS_Subset, FS_CardinalityType
  <2>4. CASE f[x] >= k
    <3>1. Big(A \cup {x}) = Big(A) \cup {x}
      BY <2>4
    <3>2. Cardinality(Big(A \cup {x})) = Cardinality(Big(A)) + 1
      BY <2>3, <3>1, FS_AddElement
    <3> DEFINE m == Cardinality(Big(A))
    <3>3. m \in Nat /\ k * m <= sf(A) /\ Cardinality(Big(A \cup {x})) = m + 1
      BY <1>2, <2>3, <3>2
    <3> HIDE DEF sf, Big, m
    <3>4. k * (m + 1) = k * m + k /\ k * m \in Nat
      BY <3>3
    <3>5. QED
      BY <2>2, <2>4, <3>3, <3>4
  <2>5. CASE f[x] < k
    <3>1. Big(A \cup {x}) = Big(A)
      BY <2>2, <2>5
    <3> DEFINE m == k * Cardinality(Big(A))
    <3>2. m \in Nat /\ m <= sf(A) /\ k * Cardinality(Big(A \cup {x})) = m
      BY <1>2, <2>3, <3>1
    <3> HIDE DEF sf, Big, m
    <3>3. QED
      BY <2>2, <3>2
  <2>6. QED
    BY <2>2, <2>4, <2>5
<1> HIDE DEF F
<1>3. S \in F
  BY <1>1, <1>2, SetFamily
<1>4. QED
  BY <1>3 DEF F

(* Where nothing is negative, a part adds up to no more than the whole.     *)
LEMMA SumOfPart ==
  ASSUME NEW S, IsFiniteSet(S), NEW f, \A x \in S : f[x] \in Nat, NEW P \in SUBSET S
  PROVE  /\ SumFunctionOnSet(f, P) <= SumFunctionOnSet(f, S)
         /\ SumFunctionOnSet(f, P) \in Nat
<1> DEFINE sf(A) == SumFunctionOnSet(f, A)
           F == {A \in SUBSET S : sf(A \cap P) \in Nat /\ sf(A \cap P) <= sf(A)}
<1>1. {} \in F
  <2>1. sf({}) = 0 /\ {} \cap P = {}
    BY SumEmpty
  <2> HIDE DEF sf
  <2>2. QED
    BY <2>1
<1>2. ASSUME NEW A \in SUBSET S, NEW x \in S \ A, A \in F PROVE A \cup {x} \in F
  <2>1. /\ IsFiniteSet(A) /\ IsFiniteSet(A \cap P)
        /\ \A y \in A : f[y] \in Int
        /\ \A y \in A \cap P : f[y] \in Int
    BY FS_Subset
  <2>2. sf(A \cup {x}) = f[x] + sf(A) /\ sf(A) \in Int /\ f[x] \in Nat
    <3>1. f[x] \in Nat /\ f[x] \in Int /\ x \notin A
      OBVIOUS
    <3>2. sf(A \cup {x}) = f[x] + sf(A)
      BY <2>1, <3>1, SumInsert
    <3>3. sf(A) \in Int
      BY <2>1, SumRemove
    <3>4. QED
      BY <3>1, <3>2, <3>3
  <2>3. CASE x \in P
    <3>1. (A \cup {x}) \cap P = (A \cap P) \cup {x} /\ x \notin A \cap P
      BY <2>3
    <3>2. sf((A \cap P) \cup {x}) = f[x] + sf(A \cap P)
      <4>1. f[x] \in Int
        BY <2>2
      <4>2. QED
        BY <2>1, <3>1, <4>1, SumInsert
    <3> HIDE DEF sf
    <3>3. QED
      BY <1>2, <2>2, <3>1, <3>2
  <2>4. CASE x \notin P
    <3>1. (A \cup {x}) \cap P = A \cap P
      BY <2>4
    <3> HIDE DEF sf
    <3>2. QED
      BY <1>2, <2>2, <3>1
  <2>5. QED
    BY <2>3, <2>4
<1> HIDE DEF F
<1>3. S \in F
  BY <1>1, <1>2, SetFamily
<1>4. S \cap P = P
  OBVIOUS
<1>5. QED
  BY <1>3, <1>4 DEF F

(* Nothing but zeros adds up to zero. *)
LEMMA SumZero ==
  ASSUME NEW S, IsFiniteSet(S), NEW f, \A x \in S : f[x] = 0
  PROVE  SumFunctionOnSet(f, S) = 0
<1> DEFINE F == {A \in SUBSET S : SumFunctionOnSet(f, A) = 0}
<1>1. {} \in F
  BY SumEmpty
<1>2. ASSUME NEW A \in SUBSET S, NEW x \in S \ A, A \in F PROVE A \cup {x} \in F
  <2>1. IsFiniteSet(A) /\ f[x] \in Int /\ (\A y \in A : f[y] \in Int)
    BY FS_Subset
  <2>2. SumFunctionOnSet(f, A \cup {x}) = f[x] + SumFunctionOnSet(f, A)
    BY <2>1, SumInsert
  <2>3. QED
    BY <1>2, <2>2
<1> HIDE DEF F
<1>3. S \in F
  BY <1>1, <1>2, SetFamily
<1>4. QED
  BY <1>3 DEF F

(* If a function exceeds another by c at most, and only on a part A, so do  *)
(* the sums by c for each element of A.                                     *)
LEMMA SumShiftOn ==
  ASSUME NEW S, IsFiniteSet(S), NEW f, NEW g, NEW c \in Nat, NEW P \in SUBSET S,
         \A x \in S : f[x] \in Int /\ g[x] \in Int,
         \A x \in P : g[x] <= f[x] + c,
         \A x \in S \ P : g[x] <= f[x]
  PROVE  SumFunctionOnSet(g, S) <= SumFunctionOnSet(f, S) + c * Cardinality(P)
<1> DEFINE sf(A) == SumFunctionOnSet(f, A)
           sg(A) == SumFunctionOnSet(g, A)
           n(A) == Cardinality(A \cap P)
           F == {A \in SUBSET S : sg(A) <= sf(A) + c * n(A)}
<1>1. {} \in F
  <2>1. sf({}) = 0 /\ sg({}) = 0
    BY SumEmpty
  <2>2. n({}) = 0
    <3>1. {} \cap P = {}
      OBVIOUS
    <3>2. QED
      BY <3>1, FS_EmptySet
  <2> HIDE DEF sf, sg, n
  <2>3. QED
    BY <2>1, <2>2
<1>2. ASSUME NEW A \in SUBSET S, NEW x \in S \ A, A \in F PROVE A \cup {x} \in F
  <2>1. IsFiniteSet(A) /\ (\A y \in A : f[y] \in Int /\ g[y] \in Int)
    BY FS_Subset
  <2>2. sf(A \cup {x}) = f[x] + sf(A) /\ sf(A) \in Int
    BY <2>1, SumInsert, SumRemove
  <2>3. sg(A \cup {x}) = g[x] + sg(A) /\ sg(A) \in Int
    BY <2>1, SumInsert, SumRemove
  <2>4. IsFiniteSet(A \cap P) /\ n(A) \in Nat
    BY <2>1, FS_Subset, FS_CardinalityType
  <2>5. sg(A) <= sf(A) + c * n(A)
    BY <1>2
  <2>6. CASE x \in P
    <3>1. (A \cup {x}) \cap P = (A \cap P) \cup {x} /\ x \notin A \cap P
      BY <2>6
    <3>2. n(A \cup {x}) = n(A) + 1
      BY <2>4, <3>1, FS_AddElement
    <3>3. g[x] <= f[x] + c /\ f[x] \in Int /\ g[x] \in Int
      BY <2>6
    <3> HIDE DEF sf, sg, n
    <3>4. c * (n(A) + 1) = c * n(A) + c /\ c * n(A) \in Nat
      BY <2>4
    <3>5. sg(A \cup {x}) <= sf(A \cup {x}) + c * (n(A) + 1)
      BY <2>2, <2>3, <2>5, <3>3, <3>4
    <3>6. QED
      BY <3>2, <3>5
  <2>7. CASE x \notin P
    <3>1. (A \cup {x}) \cap P = A \cap P
      BY <2>7
    <3>2. n(A \cup {x}) = n(A)
      BY <3>1
    <3>3. g[x] <= f[x] /\ f[x] \in Int /\ g[x] \in Int
      BY <2>7
    <3> HIDE DEF sf, sg, n
    <3>4. c * n(A) \in Nat
      BY <2>4
    <3>5. sg(A \cup {x}) <= sf(A \cup {x}) + c * n(A)
      BY <2>2, <2>3, <2>5, <3>3, <3>4
    <3>6. QED
      BY <3>2, <3>5
  <2>8. QED
    BY <2>6, <2>7
<1> HIDE DEF F
<1>3. S \in F
  BY <1>1, <1>2, SetFamily
<1>4. S \cap P = P
  OBVIOUS
<1>5. QED
  BY <1>3, <1>4 DEF F

(* If it exceeds it by c at most everywhere, so does the sum for each       *)
(* element.                                                                 *)
LEMMA SumShift ==
  ASSUME NEW S, IsFiniteSet(S), NEW f, NEW g, NEW c \in Nat,
         \A x \in S : f[x] \in Int /\ g[x] \in Int /\ g[x] <= f[x] + c
  PROVE  SumFunctionOnSet(g, S) <= SumFunctionOnSet(f, S) + c * Cardinality(S)
<1>1. S \in SUBSET S /\ \A x \in S \ S : g[x] <= f[x]
  OBVIOUS
<1>2. QED
  BY <1>1, SumShiftOn

(* The same where one element is accounted for apart.                       *)
LEMMA SumShiftBut ==
  ASSUME NEW S, IsFiniteSet(S), NEW f, NEW g, NEW c \in Nat, NEW x \in S,
         \A y \in S : f[y] \in Int /\ g[y] \in Int,
         \A y \in S \ {x} : g[y] <= f[y] + c
  PROVE  SumFunctionOnSet(g, S) <= SumFunctionOnSet(f, S) + g[x] - f[x] + c * Cardinality(S)
<1> DEFINE R == S \ {x}
           n == Cardinality(R)
<1>1. IsFiniteSet(R) /\ n \in Nat /\ Cardinality(S) = n + 1
  BY FS_Subset, FS_RemoveElement, FS_CardinalityType
<1>2. /\ SumFunctionOnSet(f, S) = f[x] + SumFunctionOnSet(f, R)
      /\ SumFunctionOnSet(g, S) = g[x] + SumFunctionOnSet(g, R)
  BY SumRemove
<1>3. \A y \in R : f[y] \in Int /\ g[y] \in Int /\ g[y] <= f[y] + c
  OBVIOUS
<1>4. SumFunctionOnSet(g, R) <= SumFunctionOnSet(f, R) + c * n
  BY <1>1, <1>3, SumShift
<1>5. SumFunctionOnSet(f, R) \in Int /\ SumFunctionOnSet(g, R) \in Int
  BY <1>1, <1>3, SumRemove
<1> DEFINE a == SumFunctionOnSet(f, R)
           b == SumFunctionOnSet(g, R)
<1>6. a \in Int /\ b \in Int /\ b <= a + c * n
  BY <1>4, <1>5
<1> HIDE DEF n, a, b, R
<1>7. c * (n + 1) = c * n + c /\ c * n \in Nat
  BY <1>1
<1>8. g[x] + b <= (f[x] + a) + g[x] - f[x] + c * (n + 1)
  BY <1>1, <1>6, <1>7
<1>9. QED
  BY <1>1, <1>2, <1>8 DEF a, b
=============================================================================
