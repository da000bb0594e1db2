---------------------------- MODULE SetInduction ----------------------------
(***************************************************************************)
(* Induction over the naturals for a predicate that is given as a set, and *)
(* what follows from it: of Max and Min, of folds over sequences, of       *)
(* finite sets and of folds over them in any order, and of what Only keeps *)
(* of a sequence.  The library's induction theorems take the predicate as  *)
(* an operator; its least-element theorem does not.                        *)
(***************************************************************************)
EXTENDS Integers, Selection, FiniteSetTheorems, SequenceTheorems, WellFoundedInduction, TLAPS

\* A set of naturals that is not empty has a least element.
LEMMA LeastElement ==
  ASSUME NEW T \in SUBSET Nat, T # {}
  PROVE  \E x \in T : \A y \in T : x <= y
<1>1. PICK x \in T : \A y \in T : ~(<<y, x>> \in OpToRel(<, Nat))
  BY NatLessThanWellFounded, WFMin
<1>2. \A y \in T : ~(y < x)
  BY <1>1 DEF OpToRel
<1> QED
  BY <1>2

\* A set that holds 0 and the successor of each of its elements holds Nat.
LEMMA NatSetInduction ==
  ASSUME NEW T, 0 \in T, \A k \in Nat : k \in T => k + 1 \in T
  PROVE  \A k \in Nat : k \in T
<1> DEFINE U == {k \in Nat : k \notin T}
<1>1. SUFFICES ASSUME U # {} PROVE FALSE
  OBVIOUS
<1>2. PICK x \in U : \A y \in U : x <= y
  BY <1>1, LeastElement
<1>3. x # 0 /\ x - 1 \in Nat
  BY <1>2
<1>4. x - 1 \in T
  BY <1>2, <1>3
<1> QED
  BY <1>2, <1>3, <1>4

\* The same up to a bound.
LEMMA BoundedSetInduction ==
  ASSUME NEW n \in Nat, NEW T, 0 \in T, \A k \in 0 .. n - 1 : k \in T => k + 1 \in T
  PROVE  \A k \in 0 .. n : k \in T
<1> DEFINE U == T \cup {k \in Nat : k > n}
<1>1. \A k \in Nat : k \in U => k + 1 \in U
  OBVIOUS
<1>2. \A k \in Nat : k \in U
  BY <1>1, NatSetInduction
<1> QED
  BY <1>2

\* The least element is what Min returns.
LEMMA MinProperties ==
  ASSUME NEW T \in SUBSET Nat, T # {}
  PROVE  Min(T) \in T /\ \A y \in T : Min(T) <= y
BY LeastElement DEF Min

\* A bounded set of naturals that is not empty has a greatest element, which is
\* what Max returns.
LEMMA MaxProperties ==
  ASSUME NEW n \in Nat, NEW T \in SUBSET (0 .. n), T # {}
  PROVE  Max(T) \in T /\ \A y \in T : y <= Max(T)
<1> DEFINE D == {d \in Nat : n - d \in T}
<1>1. D # {}
  <2>1. PICK y \in T : TRUE
    OBVIOUS
  <2>2. n - y \in Nat /\ n - (n - y) = y
    BY <2>1
  <2> QED
    BY <2>1, <2>2
<1>2. PICK d \in D : \A e \in D : d <= e
  BY <1>1, LeastElement
<1>3. \A y \in T : n - y \in D
  OBVIOUS
<1>4. \A y \in T : y <= n - d
  BY <1>2, <1>3
<1>5. n - d \in T /\ \A y \in T : n - d >= y
  BY <1>2, <1>4
<1> QED
  BY <1>5 DEF Max

-----------------------------------------------------------------------------
(* Folds over a sequence of m elements.  FoldLeft is the value at 1 .. m of  *)
(* a function on SUBSET (1 .. m) that CHOOSE picks: what these lemmas say is *)
(* that there is one, for a step that is given as a function g, and what     *)
(* follows for the one that is picked.                                       *)

Folds(F, V, m, base, g) ==
  /\ F \in [SUBSET (1 .. m) -> V]
  /\ \A s \in SUBSET (1 .. m) :
       F[s] = IF s = {} THEN base ELSE g[<<F[s \ {Max(s)}], Max(s)>>]

\* The greatest index of a set of indices.
LEMMA MaxIndex ==
  ASSUME NEW m \in Nat, NEW s \in SUBSET (1 .. m), s # {}
  PROVE  Max(s) \in s /\ \A y \in s : y <= Max(s)
<1>1. s \in SUBSET (0 .. m)
  OBVIOUS
<1> QED
  BY <1>1, MaxProperties

\* In particular, of the first k + 1.
LEMMA MaxPrefix ==
  ASSUME NEW k \in Nat
  PROVE  Max(1 .. k + 1) = k + 1 /\ (1 .. k + 1) \ {Max(1 .. k + 1)} = 1 .. k
<1>1. k + 1 \in Nat /\ k + 1 \in 1 .. k + 1 /\ 1 .. k + 1 # {}
  OBVIOUS
<1>2. Max(1 .. k + 1) \in 1 .. k + 1 /\ k + 1 <= Max(1 .. k + 1)
  BY <1>1, MaxIndex
<1>3. \A x \in 1 .. k + 1 : k + 1 <= x => x = k + 1
  OBVIOUS
<1>4. Max(1 .. k + 1) = k + 1
  BY <1>2, <1>3
<1>5. (1 .. k + 1) \ {k + 1} = 1 .. k
  OBVIOUS
<1> QED
  BY <1>4, <1>5

\* Whatever the step does to values of V, as long as it stays in V, the fold is
\* defined.
LEMMA FoldExists ==
  ASSUME NEW m \in Nat, NEW V, NEW base \in V, NEW g \in [V \X (1 .. m) -> V]
  PROVE  \E F : Folds(F, V, m, base, g)
<1> DEFINE T == {k \in 0 .. m : \E F \in [SUBSET (1 .. k) -> V] :
                   \A s \in SUBSET (1 .. k) :
                     F[s] = IF s = {} THEN base ELSE g[<<F[s \ {Max(s)}], Max(s)>>]}
<1>1. 0 \in T
  <2> DEFINE F == [s \in SUBSET (1 .. 0) |-> base]
  <2>1. F \in [SUBSET (1 .. 0) -> V] /\ \A s \in SUBSET (1 .. 0) : s = {} /\ F[s] = base
    OBVIOUS
  <2>2. \A s \in SUBSET (1 .. 0) :
          F[s] = IF s = {} THEN base ELSE g[<<F[s \ {Max(s)}], Max(s)>>]
    BY <2>1
  <2> HIDE DEF F
  <2>3. 0 \in 0 .. m
    OBVIOUS
  <2> QED
    BY <2>1, <2>2, <2>3
<1>2. ASSUME NEW k \in 0 .. m - 1, k \in T PROVE k + 1 \in T
  <2>1. PICK F \in [SUBSET (1 .. k) -> V] :
          \A s \in SUBSET (1 .. k) :
            F[s] = IF s = {} THEN base ELSE g[<<F[s \ {Max(s)}], Max(s)>>]
    BY <1>2
  <2> DEFINE G == [s \in SUBSET (1 .. k + 1) |->
                     IF k + 1 \in s THEN g[<<F[s \ {k + 1}], k + 1>>] ELSE F[s]]
  <2>2. \A s \in SUBSET (1 .. k + 1) : s \ {k + 1} \in SUBSET (1 .. k)
    OBVIOUS
  <2>3. \A s \in SUBSET (1 .. k + 1) : k + 1 \notin s => s \in SUBSET (1 .. k)
    OBVIOUS
  <2>4. \A s \in SUBSET (1 .. k) : s \in SUBSET (1 .. k + 1) /\ k + 1 \notin s
    OBVIOUS
  <2>5. \A s \in SUBSET (1 .. k) : G[s] = F[s]
    BY <2>4
  <2>6. \A s \in SUBSET (1 .. k + 1) : G[s] \in V
    <3> TAKE s \in SUBSET (1 .. k + 1)
    <3>1. CASE k + 1 \in s
      <4>1. F[s \ {k + 1}] \in V /\ k + 1 \in 1 .. m
        BY <2>2
      <4>2. G[s] = g[<<F[s \ {k + 1}], k + 1>>]
        BY <3>1
      <4> QED
        BY <4>1, <4>2
    <3>2. CASE k + 1 \notin s
      BY <2>3, <2>5, <3>2
    <3> QED
      BY <3>1, <3>2
  <2>7. G \in [SUBSET (1 .. k + 1) -> V]
    BY <2>6
  <2>8. ASSUME NEW s \in SUBSET (1 .. k + 1)
        PROVE  G[s] = IF s = {} THEN base ELSE g[<<G[s \ {Max(s)}], Max(s)>>]
    <3>1. CASE k + 1 \in s
      <4>1. Max(s) = k + 1
        <5>1. k + 1 \in Nat /\ s # {}
          BY <3>1
        <5>2. Max(s) \in s /\ k + 1 <= Max(s)
          BY <3>1, <5>1, MaxIndex
        <5>3. \A x \in s : k + 1 <= x => x = k + 1
          OBVIOUS
        <5> QED
          BY <5>2, <5>3
      <4>2. G[s] = g[<<F[s \ {k + 1}], k + 1>>]
        BY <3>1
      <4>3. F[s \ {k + 1}] = G[s \ {k + 1}]
        BY <2>2, <2>5
      <4> QED
        BY <3>1, <4>1, <4>2, <4>3
    <3>2. CASE k + 1 \notin s
      <4>1. s \in SUBSET (1 .. k) /\ G[s] = F[s]
        BY <2>3, <2>5, <3>2
      <4>2. s \ {Max(s)} \in SUBSET (1 .. k)
        BY <4>1
      <4>3. G[s \ {Max(s)}] = F[s \ {Max(s)}]
        BY <2>5, <4>2
      <4>4. F[s] = IF s = {} THEN base ELSE g[<<F[s \ {Max(s)}], Max(s)>>]
        BY <2>1, <4>1
      <4> QED
        BY <4>1, <4>3, <4>4
    <3> QED
      BY <3>1, <3>2
  <2> HIDE DEF G
  <2>9. k + 1 \in 0 .. m
    OBVIOUS
  <2> QED
    BY <2>7, <2>8, <2>9
<1> HIDE DEF T
<1>3. m \in T
  BY <1>1, <1>2, BoundedSetInduction
<1> QED
  BY <1>3 DEF T, Folds

\* A function on the sets of indices that keeps to V from a set without its
\* greatest index to the set with it, keeps to V.
LEMMA FoldStays ==
  ASSUME NEW m \in Nat, NEW V, NEW h, h[{}] \in V,
         \A s \in SUBSET (1 .. m) : s # {} /\ h[s \ {Max(s)}] \in V => h[s] \in V
  PROVE  \A k \in 0 .. m : h[1 .. k] \in V
<1> DEFINE T == {k \in 0 .. m : h[1 .. k] \in V}
<1>1. 0 \in T
  <2>1. 1 .. 0 = {} /\ 0 \in 0 .. m
    OBVIOUS
  <2> QED
    BY <2>1
<1>2. ASSUME NEW k \in 0 .. m - 1, k \in T PROVE k + 1 \in T
  <2>1. 1 .. k + 1 \in SUBSET (1 .. m) /\ 1 .. k + 1 # {} /\ k + 1 \in 0 .. m /\ k \in Nat
    OBVIOUS
  <2>2. (1 .. k + 1) \ {Max(1 .. k + 1)} = 1 .. k
    BY <2>1, MaxPrefix
  <2>3. h[1 .. k + 1] \in V
    BY <1>2, <2>1, <2>2
  <2> QED
    BY <2>1, <2>3
<1> HIDE DEF T
<1>3. \A k \in 0 .. m : k \in T
  BY <1>1, <1>2, BoundedSetInduction
<1> QED
  BY <1>3 DEF T

(* Finite sets: induction, and a fold in any order. *)

LEMMA PartFinite ==
  ASSUME NEW S, IsFiniteSet(S), NEW s, s \subseteq S
  PROVE  IsFiniteSet(s)
<1>1. s \in SUBSET S
  OBVIOUS
<1> QED
  BY <1>1, FS_Subset

LEMMA OneMoreFinite ==
  ASSUME NEW S, IsFiniteSet(S), NEW x
  PROVE  IsFiniteSet(S \cup {x})
BY FS_AddElement

LEMMA NoneFinite == IsFiniteSet({})
BY FS_EmptySet

LEMMA PrefixFinite ==
  ASSUME NEW n \in Nat
  PROVE  IsFiniteSet(1 .. n)
BY FS_Interval

\* A family of sets that holds {} and, with each of its elements that is a part of
\* a finite S, that part with one more element of S, holds all parts of S.
LEMMA FiniteSetInduction ==
  ASSUME NEW S, IsFiniteSet(S), NEW T, {} \in T,
         \A s \in SUBSET S : \A x \in S \ s : s \in T => s \cup {x} \in T
  PROVE  \A s \in SUBSET S : s \in T
<1> DEFINE K == {k \in 0 .. Cardinality(S) : \A s \in SUBSET S : Cardinality(s) = k => s \in T}
<1>1. /\ Cardinality(S) \in Nat
      /\ \A s \in SUBSET S : IsFiniteSet(s) /\ Cardinality(s) \in 0 .. Cardinality(S)
  <2>1. Cardinality(S) \in Nat
    BY FS_CardinalityType
  <2>2. ASSUME NEW s \in SUBSET S
        PROVE  IsFiniteSet(s) /\ Cardinality(s) \in 0 .. Cardinality(S)
    <3>1. IsFiniteSet(s) /\ Cardinality(s) <= Cardinality(S)
      BY FS_Subset
    <3> QED
      BY <2>1, <3>1, FS_CardinalityType
  <2> QED
    BY <2>1, <2>2
<1>2. 0 \in K
  <2>1. \A s \in SUBSET S : Cardinality(s) = 0 => s = {}
    BY <1>1, FS_EmptySet
  <2> QED
    BY <1>1, <2>1
<1>3. ASSUME NEW k \in 0 .. Cardinality(S) - 1, k \in K PROVE k + 1 \in K
  <2>1. ASSUME NEW s \in SUBSET S, Cardinality(s) = k + 1 PROVE s \in T
    <3>1. s # {}
      BY <1>1, <2>1, FS_EmptySet
    <3>2. PICK x \in s : TRUE
      BY <3>1
    <3>3. s \ {x} \in SUBSET S /\ x \in S \ (s \ {x}) /\ (s \ {x}) \cup {x} = s
      BY <3>2
    <3>4. Cardinality(s \ {x}) = k
      <4>1. Cardinality(s \ {x}) = Cardinality(s) - 1
        BY <1>1, <3>2, FS_RemoveElement
      <4> QED
        BY <2>1, <4>1
    <3>5. s \ {x} \in T
      BY <1>3, <3>3, <3>4
    <3> QED
      BY <3>3, <3>5
  <2> QED
    BY <1>1, <1>3, <2>1
<1> HIDE DEF K
<1>4. \A k \in 0 .. Cardinality(S) : k \in K
  BY <1>1, <1>2, <1>3, BoundedSetInduction
<1> QED
  BY <1>1, <1>4 DEF K

AnyOf(s) == CHOOSE x \in s : TRUE

\* What FoldSet builds up over the parts of S.
Gathers(F, S, V, base, g) ==
  /\ F \in [SUBSET S -> V]
  /\ \A s \in SUBSET S : F[s] = IF s = {} THEN base ELSE g[<<AnyOf(s), F[s \ {AnyOf(s)}]>>]

LEMMA GathersExists ==
  ASSUME NEW S, IsFiniteSet(S), NEW V, NEW base \in V, NEW g \in [S \X V -> V]
  PROVE  \E F : Gathers(F, S, V, base, g)
<1> DEFINE Small(k) == {s \in SUBSET S : Cardinality(s) <= k}
           Ok(F, k) == /\ F \in [Small(k) -> V]
                       /\ \A s \in Small(k) :
                            F[s] = IF s = {} THEN base ELSE g[<<AnyOf(s), F[s \ {AnyOf(s)}]>>]
           K == {k \in 0 .. Cardinality(S) : \E F : Ok(F, k)}
<1>1. /\ Cardinality(S) \in Nat
      /\ \A s \in SUBSET S : IsFiniteSet(s) /\ Cardinality(s) \in 0 .. Cardinality(S)
  <2>1. Cardinality(S) \in Nat
    BY FS_CardinalityType
  <2>2. ASSUME NEW s \in SUBSET S
        PROVE  IsFiniteSet(s) /\ Cardinality(s) \in 0 .. Cardinality(S)
    <3>1. IsFiniteSet(s) /\ Cardinality(s) <= Cardinality(S)
      BY FS_Subset
    <3> QED
      BY <2>1, <3>1, FS_CardinalityType
  <2> QED
    BY <2>1, <2>2
<1>2. \A s : s # {} => AnyOf(s) \in s
  BY DEF AnyOf
<1>3. 0 \in K
  <2>1. \A s \in Small(0) : s = {}
    BY <1>1, FS_EmptySet
  <2> DEFINE F == [s \in Small(0) |-> base]
  <2>2. Ok(F, 0)
    BY <2>1
  <2> HIDE DEF F, Ok
  <2> QED
    BY <1>1, <2>2
<1>4. ASSUME NEW k \in 0 .. Cardinality(S) - 1, k \in K PROVE k + 1 \in K
  <2>1. PICK F : Ok(F, k)
    BY <1>4
  <2> DEFINE G == [s \in Small(k + 1) |->
                    IF s \in Small(k) THEN F[s] ELSE g[<<AnyOf(s), F[s \ {AnyOf(s)}]>>]]
  <2>2. ASSUME NEW s \in Small(k + 1), s # {}
        PROVE  s \ {AnyOf(s)} \in Small(k) /\ AnyOf(s) \in S
    <3>1. AnyOf(s) \in s /\ s \in SUBSET S
      BY <1>2, <2>2
    <3>2. Cardinality(s \ {AnyOf(s)}) = Cardinality(s) - 1
      BY <1>1, <3>1, FS_RemoveElement
    <3> QED
      BY <1>1, <2>2, <3>1, <3>2
  <2>3. {} \in Small(k)
    <3>1. Cardinality({}) = 0
      BY FS_EmptySet
    <3> QED
      BY <3>1
  <2>4. \A s \in Small(k + 1) : G[s] \in V
    <3> TAKE s \in Small(k + 1)
    <3>1. CASE s \in Small(k)
      BY <2>1, <3>1
    <3>2. CASE s \notin Small(k)
      <4>1. F[s \ {AnyOf(s)}] \in V /\ AnyOf(s) \in S
        BY <2>1, <2>2, <2>3, <3>2
      <4> QED
        BY <3>2, <4>1
    <3> QED
      BY <3>1, <3>2
  <2>5. \A s \in Small(k + 1) : G[s] = IF s = {} THEN base ELSE g[<<AnyOf(s), G[s \ {AnyOf(s)}]>>]
    <3> TAKE s \in Small(k + 1)
    <3>0. Small(k) \subseteq Small(k + 1)
      BY <1>1
    <3>1. s # {} => G[s \ {AnyOf(s)}] = F[s \ {AnyOf(s)}]
      BY <2>2, <3>0
    <3>2. CASE s \in Small(k)
      BY <2>1, <3>1, <3>2
    <3>3. CASE s \notin Small(k)
      BY <2>3, <3>1, <3>3
    <3> QED
      BY <3>2, <3>3
  <2>6. G \in [Small(k + 1) -> V]
    BY <2>4
  <2> HIDE DEF G
  <2>7. Ok(G, k + 1)
    BY <2>5, <2>6
  <2> HIDE DEF Ok
  <2> QED
    BY <1>1, <1>4, <2>7
<1> HIDE DEF K
<1>5. \A k \in 0 .. Cardinality(S) : k \in K
  BY <1>1, <1>3, <1>4, BoundedSetInduction
<1>6. PICK F : Ok(F, Cardinality(S))
  BY <1>1, <1>5 DEF K
<1>7. Small(Cardinality(S)) = SUBSET S
  BY <1>1
<1> QED
  BY <1>6, <1>7 DEF Gathers

Commutes(S, V, g) ==
  \A x, y \in S : \A v \in V : g[<<x, g[<<y, v>>]>>] = g[<<y, g[<<x, v>>]>>]

\* The order does not matter when the steps commute.
LEMMA GathersAnyOrder ==
  ASSUME NEW S, IsFiniteSet(S), NEW V, NEW base \in V, NEW g \in [S \X V -> V],
         Commutes(S, V, g),
         NEW F, Gathers(F, S, V, base, g)
  PROVE  \A s \in SUBSET S : \A x \in s : F[s] = g[<<x, F[s \ {x}]>>]
<1> DEFINE T == {s \in SUBSET S : \A x \in s : F[s] = g[<<x, F[s \ {x}]>>]}
           K == {k \in 0 .. Cardinality(S) : \A s \in SUBSET S : Cardinality(s) = k => s \in T}
<1>1. /\ Cardinality(S) \in Nat
      /\ \A s \in SUBSET S : IsFiniteSet(s) /\ Cardinality(s) \in 0 .. Cardinality(S)
  <2>1. Cardinality(S) \in Nat
    BY FS_CardinalityType
  <2>2. ASSUME NEW s \in SUBSET S
        PROVE  IsFiniteSet(s) /\ Cardinality(s) \in 0 .. Cardinality(S)
    <3>1. IsFiniteSet(s) /\ Cardinality(s) <= Cardinality(S)
      BY FS_Subset
    <3> QED
      BY <2>1, <3>1, FS_CardinalityType
  <2> QED
    BY <2>1, <2>2
<1>2. \A s : s # {} => AnyOf(s) \in s
  BY DEF AnyOf
<1>3. 0 \in K
  <2>1. \A s \in SUBSET S : Cardinality(s) = 0 => s = {}
    BY <1>1, FS_EmptySet
  <2> QED
    BY <1>1, <2>1
<1>4. ASSUME NEW k \in 0 .. Cardinality(S) - 1, k \in K PROVE k + 1 \in K
  <2>1. ASSUME NEW s \in SUBSET S, Cardinality(s) = k + 1, NEW x \in s
        PROVE  F[s] = g[<<x, F[s \ {x}]>>]
    <3> DEFINE c == AnyOf(s)
    <3>1. s # {} /\ c \in s /\ F[s] = g[<<c, F[s \ {c}]>>]
      BY <1>2, <2>1 DEF Gathers
    <3> HIDE DEF c
    <3>2. CASE x = c
      BY <3>1, <3>2
    <3>3. CASE x # c
      <4>1. /\ s \ {c} \in SUBSET S /\ s \ {x} \in SUBSET S /\ x \in s \ {c} /\ c \in s \ {x}
            /\ (s \ {c}) \ {x} = (s \ {x}) \ {c} /\ (s \ {x}) \ {c} \in SUBSET S
            /\ x \in S /\ c \in S
        BY <3>1, <3>3
      <4>2. Cardinality(s \ {c}) = k /\ Cardinality(s \ {x}) = k
        <5>1. Cardinality(s \ {c}) = Cardinality(s) - 1 /\ Cardinality(s \ {x}) = Cardinality(s) - 1
          BY <1>1, <3>1, FS_RemoveElement
        <5> QED
          BY <2>1, <5>1
      <4> DEFINE v == F[(s \ {x}) \ {c}]
      <4>3. F[s \ {c}] = g[<<x, v>>] /\ F[s \ {x}] = g[<<c, v>>]
        <5>1. s \ {c} \in T /\ s \ {x} \in T
          BY <1>4, <4>1, <4>2
        <5> QED
          BY <4>1, <5>1
      <4>4. v \in V
        BY <4>1 DEF Gathers
      <4> HIDE DEF v
      <4> QED
        BY <3>1, <4>1, <4>3, <4>4 DEF Commutes
    <3> QED
      BY <3>2, <3>3
  <2> QED
    BY <1>1, <1>4, <2>1
<1> HIDE DEF K
<1>5. \A k \in 0 .. Cardinality(S) : k \in K
  BY <1>1, <1>3, <1>4, BoundedSetInduction
<1> QED
  BY <1>1, <1>5 DEF K

(* Folds over sequences, step by step. *)

\* What is known of the function behind a FoldLeft, and the same step by step.
Climbs(fold, m, V, base, g) ==
  /\ fold[{}] = base
  /\ \A t \in SUBSET (1 .. m) : t # {} /\ fold[t \ {Max(t)}] \in V
       => fold[t] = g[<<fold[t \ {Max(t)}], Max(t)>>]

Steps(h, m, V, base, g, last) ==
  h \in [0 .. m -> V] /\ h[0] = base /\ h[m] = last /\ \A i \in 1 .. m : h[i] = g[<<h[i - 1], i>>]

LEMMA FoldSteps ==
  ASSUME NEW m \in Nat, NEW V, NEW base \in V, NEW g \in [V \X (1 .. m) -> V], NEW fold,
         Climbs(fold, m, V, base, g)
  PROVE  \E h : Steps(h, m, V, base, g, fold[1 .. m])
<1>1. \A t \in SUBSET (1 .. m) : t # {} /\ fold[t \ {Max(t)}] \in V => fold[t] \in V
  <2> TAKE t \in SUBSET (1 .. m)
  <2> HAVE t # {} /\ fold[t \ {Max(t)}] \in V
  <2>1. Max(t) \in 1 .. m
    BY MaxIndex
  <2> QED
    BY <2>1 DEF Climbs
<1>2. \A k \in 0 .. m : fold[1 .. k] \in V
  BY <1>1, FoldStays DEF Climbs
<1>3. \A i \in 1 .. m : fold[1 .. i] = g[<<fold[1 .. i - 1], i>>]
  <2> TAKE i \in 1 .. m
  <2>1. i - 1 \in Nat /\ i - 1 \in 0 .. m /\ (i - 1) + 1 = i /\ 1 .. i \subseteq 1 .. m /\ i \in 1 .. i
    OBVIOUS
  <2>2. Max(1 .. i) = i /\ (1 .. i) \ {Max(1 .. i)} = 1 .. i - 1
    BY <2>1, MaxPrefix
  <2>3. 1 .. i \in SUBSET (1 .. m) /\ 1 .. i # {} /\ fold[1 .. i - 1] \in V
    BY <1>2, <2>1
  <2> QED
    BY <2>2, <2>3 DEF Climbs
<1> DEFINE h == [k \in 0 .. m |-> fold[1 .. k]]
<1>4. h \in [0 .. m -> V] /\ h[0] = base /\ h[m] = fold[1 .. m]
  <2>1. 0 \in 0 .. m /\ m \in 0 .. m /\ 1 .. 0 = {}
    OBVIOUS
  <2> QED
    BY <1>2, <2>1 DEF Climbs
<1>5. \A i \in 1 .. m : h[i] = g[<<h[i - 1], i>>]
  <2>1. \A i \in 1 .. m : i \in 0 .. m /\ i - 1 \in 0 .. m
    OBVIOUS
  <2> QED
    BY <1>3, <2>1
<1> HIDE DEF h
<1> QED
  BY <1>4, <1>5 DEF Steps

\* f on the parts of S, one element after the other, as CHOOSE has it.
Picks(f, S, V, base, g) ==
  /\ f[{}] = base
  /\ \A s \in SUBSET S : s # {} /\ f[s \ {AnyOf(s)}] \in V
       => f[s] = g[<<AnyOf(s), f[s \ {AnyOf(s)}]>>]

AnyLast(f, S, V, g) ==
  \A s \in SUBSET S : f[s] \in V /\ \A x \in s : f[s] = g[<<x, f[s \ {x}]>>]

\* What follows for a fold over a finite set whose steps commute: any element may
\* have been the last one.
LEMMA Gathered ==
  ASSUME NEW S, IsFiniteSet(S), NEW V, NEW base \in V, NEW g \in [S \X V -> V],
         Commutes(S, V, g),
         NEW f, Picks(f, S, V, base, g)
  PROVE  AnyLast(f, S, V, g)
<1>1. PICK F : Gathers(F, S, V, base, g)
  BY GathersExists
<1> DEFINE T == {s \in SUBSET S : f[s] = F[s]}
           K == {k \in 0 .. Cardinality(S) : \A s \in SUBSET S : Cardinality(s) = k => s \in T}
<1>2. /\ Cardinality(S) \in Nat
      /\ \A s \in SUBSET S : IsFiniteSet(s) /\ Cardinality(s) \in 0 .. Cardinality(S)
  <2>1. Cardinality(S) \in Nat
    BY FS_CardinalityType
  <2>2. ASSUME NEW s \in SUBSET S
        PROVE  IsFiniteSet(s) /\ Cardinality(s) \in 0 .. Cardinality(S)
    <3>1. IsFiniteSet(s) /\ Cardinality(s) <= Cardinality(S)
      BY FS_Subset
    <3> QED
      BY <2>1, <3>1, FS_CardinalityType
  <2> QED
    BY <2>1, <2>2
<1>3. 0 \in K
  <2>1. \A s \in SUBSET S : Cardinality(s) = 0 => s = {}
    BY <1>2, FS_EmptySet
  <2>2. {} \in T
    BY <1>1 DEF Gathers, Picks
  <2>3. \A s \in SUBSET S : Cardinality(s) = 0 => s \in T
    BY <2>1, <2>2
  <2> HIDE DEF T
  <2> QED
    BY <1>2, <2>3
<1>4. ASSUME NEW k \in 0 .. Cardinality(S) - 1, k \in K PROVE k + 1 \in K
  <2>1. ASSUME NEW s \in SUBSET S, Cardinality(s) = k + 1 PROVE s \in T
    <3> DEFINE c == AnyOf(s)
    <3>1. s # {} /\ IsFiniteSet(s)
      BY <1>2, <2>1, FS_EmptySet
    <3>2. c \in s
      BY <3>1 DEF AnyOf
    <3>3. F[s] = g[<<c, F[s \ {c}]>>] /\ F[s \ {c}] \in V
      BY <1>1, <3>1, <3>2 DEF Gathers
    <3>4. f[s \ {c}] \in V => f[s] = g[<<c, f[s \ {c}]>>]
      BY <3>1 DEF Picks
    <3> HIDE DEF c
    <3>5. Cardinality(s \ {c}) = k
      <4>1. Cardinality(s \ {c}) = Cardinality(s) - 1
        BY <3>1, <3>2, FS_RemoveElement
      <4> QED
        BY <2>1, <4>1
    <3>6. s \ {c} \in T
      BY <1>4, <3>5
    <3> QED
      BY <3>3, <3>4, <3>6
  <2> QED
    BY <1>2, <1>4, <2>1
<1> HIDE DEF K
<1>5. \A k \in 0 .. Cardinality(S) : k \in K
  BY <1>2, <1>3, <1>4, BoundedSetInduction
<1>6. \A s \in SUBSET S : f[s] = F[s]
  BY <1>2, <1>5 DEF K
<1>7. \A s \in SUBSET S : \A x \in s : F[s] = g[<<x, F[s \ {x}]>>]
  BY <1>1, GathersAnyOrder
<1>8. \A s \in SUBSET S : F[s] \in V
  BY <1>1 DEF Gathers
<1> QED
  BY <1>6, <1>7, <1>8 DEF AnyLast

\* Induction over the elements of a sequence, for a predicate given as a set.
LEMMA SeqSetInduction ==
  ASSUME NEW V, NEW T, <<>> \in T,
         \A s \in Seq(V), e \in V : s \in T => Append(s, e) \in T
  PROVE  \A s \in Seq(V) : s \in T
<1> TAKE s \in Seq(V)
<1> DEFINE n == Len(s)
           K == {k \in 0 .. n : SubSeq(s, 1, k) \in T}
<1>1. n \in Nat /\ SubSeq(s, 1, 0) = <<>> /\ SubSeq(s, 1, n) = s
  OBVIOUS
<1>2. 0 \in K
  <2>1. 0 \in 0 .. n
    BY <1>1
  <2> QED
    BY <1>1, <2>1
<1>3. ASSUME NEW k \in 0 .. n - 1, k \in K PROVE k + 1 \in K
  <2>1. k + 1 \in 0 .. n /\ k + 1 \in 1 .. n /\ s[k + 1] \in V /\ k \in Nat
    OBVIOUS
  <2>2. SubSeq(s, 1, k) \in Seq(V) /\ SubSeq(s, 1, k) \in T
    BY <1>3, <2>1
  <2>3. SubSeq(s, 1, k + 1) = Append(SubSeq(s, 1, k), s[k + 1])
    BY <2>1
  <2>4. Append(SubSeq(s, 1, k), s[k + 1]) \in T
    BY <2>1, <2>2
  <2> QED
    BY <2>1, <2>3, <2>4
<1> HIDE DEF K
<1>4. \A k \in 0 .. n : k \in K
  BY <1>1, <1>2, <1>3, BoundedSetInduction
<1>5. n \in K
  BY <1>1, <1>4
<1> QED
  BY <1>1, <1>5 DEF K

-----------------------------------------------------------------------------
(* Selection: what Only keeps of a sequence.                               *)

\* Only adds the elements of s one by one.
Builds(h, s, S) ==
  /\ h[0] = <<>>
  /\ \A i \in 1 .. Len(s) : h[i] = IF s[i] \in S THEN Append(h[i - 1], s[i]) ELSE h[i - 1]

LEMMA OnlyBuilds ==
  ASSUME NEW V, NEW s \in Seq(V), NEW S
  PROVE  \E h \in [0 .. Len(s) -> Seq(V)] : Builds(h, s, S) /\ Only(s, S) = h[Len(s)]
<1> DEFINE m == Len(s)
           W == Seq(V)
           base == <<>>
           Step(k, e) == IF e \in S THEN Append(k, e) ELSE k
           g == [p \in W \X (1 .. m) |-> Step(p[1], s[p[2]])]
           Is(f) == f = [t \in SUBSET DOMAIN s |->
                          IF t = {} THEN base ELSE Step(f[t \ {Max(t)}], s[Max(t)])]
           fold == CHOOSE f : Is(f)
<1>1. m \in Nat /\ base \in W
  OBVIOUS
<1>2. \A k \in W, e \in V : Step(k, e) \in W
  OBVIOUS
<1>3. Only(s, S) = fold[DOMAIN s]
  BY DEF FoldLeft, MapThenFoldSet, Only
<1>0. DOMAIN s = 1 .. m /\ \A i \in 1 .. m : s[i] \in V
  OBVIOUS
<1> HIDE DEF m, Step, W, base
<1>4. g \in [W \X (1 .. m) -> W]
  BY <1>0, <1>2
<1>5. PICK F : Folds(F, W, m, base, g)
  BY <1>1, <1>4, FoldExists
<1>6. \A t \in SUBSET (1 .. m) : t # {} => Max(t) \in 1 .. m
  BY <1>1, MaxIndex
<1>7. Is(F)
  <2>1. \A t \in SUBSET (1 .. m) : t # {} =>
          g[<<F[t \ {Max(t)}], Max(t)>>] = Step(F[t \ {Max(t)}], s[Max(t)])
    BY <1>5, <1>6 DEF Folds
  <2> HIDE DEF g
  <2> QED
    BY <1>0, <1>5, <2>1 DEF Folds
<1>8. Is(fold)
  BY <1>7
<1> HIDE DEF fold
<1>9. fold[{}] = base
  BY <1>0, <1>1, <1>8
<1>10. \A t \in SUBSET (1 .. m) : t # {} => fold[t] = Step(fold[t \ {Max(t)}], s[Max(t)])
  BY <1>0, <1>8
<1> HIDE DEF Is
<1>11. \A t \in SUBSET (1 .. m) : t # {} /\ fold[t \ {Max(t)}] \in W => fold[t] \in W
  BY <1>0, <1>2, <1>6, <1>10
<1>12. \A k \in 0 .. m : fold[1 .. k] \in W
  BY <1>1, <1>9, <1>11, FoldStays
<1>13. \A i \in 1 .. m : fold[1 .. i] = Step(fold[1 .. i - 1], s[i])
  <2> TAKE i \in 1 .. m
  <2>0. i - 1 \in Nat /\ (i - 1) + 1 = i /\ i \in 1 .. i
    BY <1>1
  <2>3. 1 .. i \subseteq 1 .. m
    BY <1>1
  <2>1. i - 1 \in Nat /\ (i - 1) + 1 = i /\ 1 .. i \in SUBSET (1 .. m) /\ 1 .. i # {}
    BY <2>0, <2>3
  <2>2. Max(1 .. i) = i /\ (1 .. i) \ {Max(1 .. i)} = 1 .. i - 1
    BY <2>1, MaxPrefix
  <2>4. fold[1 .. i] = Step(fold[(1 .. i) \ {Max(1 .. i)}], s[Max(1 .. i)])
    BY <1>10, <2>1
  <2> QED
    BY <2>2, <2>4
<1> DEFINE h == [k \in 0 .. m |-> fold[1 .. k]]
<1>14. h \in [0 .. m -> W] /\ h[0] = base /\ h[m] = fold[1 .. m]
  <2>1. 0 \in 0 .. m /\ m \in 0 .. m /\ 1 .. 0 = {}
    BY <1>1
  <2> QED
    BY <1>9, <1>12, <2>1
<1>15. \A i \in 1 .. m : h[i] = Step(h[i - 1], s[i])
  <2>1. \A i \in 1 .. m : i \in 0 .. m /\ i - 1 \in 0 .. m
    BY <1>1
  <2> QED
    BY <1>13, <2>1
<1> HIDE DEF h
<1> QED
  BY <1>0, <1>3, <1>14, <1>15 DEF Builds, Step, base, m, W

\* The last element comes last, if at all.
LEMMA OnlyAppend ==
  ASSUME NEW V, NEW s \in Seq(V), NEW e \in V, NEW S
  PROVE  Only(Append(s, e), S) = IF e \in S THEN Append(Only(s, S), e) ELSE Only(s, S)
<1> DEFINE n == Len(s)
           t == Append(s, e)
<1>1. n \in Nat /\ t \in Seq(V) /\ Len(t) = n + 1 /\ t[n + 1] = e /\ \A i \in 1 .. n : t[i] = s[i]
  OBVIOUS
<1> HIDE DEF t
<1>2. PICK h : Builds(h, s, S) /\ Only(s, S) = h[n]
  BY OnlyBuilds
<1>3. PICK k : Builds(k, t, S) /\ Only(t, S) = k[n + 1]
  BY <1>1, OnlyBuilds
<1> DEFINE T == {i \in 0 .. n : h[i] = k[i]}
<1>4. 0 \in T
  BY <1>1, <1>2, <1>3 DEF Builds
<1>5. ASSUME NEW i \in 0 .. n - 1, i \in T PROVE i + 1 \in T
  <2>1. i + 1 \in 1 .. n /\ i + 1 \in 1 .. n + 1 /\ (i + 1) - 1 = i /\ i + 1 \in 0 .. n
    BY <1>1
  <2>2. h[i + 1] = IF s[i + 1] \in S THEN Append(h[i], s[i + 1]) ELSE h[i]
    BY <1>2, <2>1 DEF Builds
  <2>3. k[i + 1] = IF t[i + 1] \in S THEN Append(k[i], t[i + 1]) ELSE k[i]
    BY <1>1, <1>3, <2>1 DEF Builds
  <2> QED
    BY <1>1, <1>5, <2>1, <2>2, <2>3
<1> HIDE DEF T
<1>6. n \in T
  <2>1. \A i \in 0 .. n : i \in T
    BY <1>1, <1>4, <1>5, BoundedSetInduction
  <2> QED
    BY <1>1, <2>1
<1>7. k[n + 1] = IF e \in S THEN Append(k[n], e) ELSE k[n]
  <2>1. n + 1 \in 1 .. n + 1 /\ (n + 1) - 1 = n
    BY <1>1
  <2> QED
    BY <1>1, <1>3, <2>1 DEF Builds
<1> QED
  BY <1>2, <1>3, <1>6, <1>7 DEF T, t

LEMMA OnlyEmpty ==
  ASSUME NEW S
  PROVE  Only(<<>>, S) = <<>>
<1>1. <<>> \in Seq({}) /\ Len(<<>>) = 0
  OBVIOUS
<1>2. PICK h : Builds(h, <<>>, S) /\ Only(<<>>, S) = h[0]
  BY <1>1, OnlyBuilds
<1> QED
  BY <1>2 DEF Builds

LEMMA OnlyType ==
  ASSUME NEW V, NEW s \in Seq(V), NEW S
  PROVE  Only(s, S) \in Seq(V \cap S)
<1> DEFINE T == {t \in Seq(V) : Only(t, S) \in Seq(V \cap S)}
<1>1. <<>> \in T
  <2>1. <<>> \in Seq(V) /\ <<>> \in Seq(V \cap S)
    OBVIOUS
  <2>2. Only(<<>>, S) = <<>>
    BY OnlyEmpty
  <2> QED
    BY <2>1, <2>2
<1>2. ASSUME NEW t \in Seq(V), NEW e \in V, t \in T PROVE Append(t, e) \in T
  <2>1. Append(t, e) \in Seq(V) /\ Only(t, S) \in Seq(V \cap S)
    BY <1>2
  <2>2. e \in S => Append(Only(t, S), e) \in Seq(V \cap S)
    BY <2>1
  <2> QED
    BY <2>1, <2>2, OnlyAppend
<1> HIDE DEF T
<1>3. \A t \in Seq(V) : t \in T
  BY <1>1, <1>2, SeqSetInduction
<1> QED
  BY <1>3 DEF T

\* What is selected does not depend on what is not in the sequence.
LEMMA OnlySame ==
  ASSUME NEW V, NEW s \in Seq(V), NEW S, NEW R, V \cap S = V \cap R
  PROVE  Only(s, S) = Only(s, R)
<1> DEFINE T == {t \in Seq(V) : Only(t, S) = Only(t, R)}
<1>1. <<>> \in T
  BY OnlyEmpty
<1>2. ASSUME NEW t \in Seq(V), NEW e \in V, t \in T PROVE Append(t, e) \in T
  <2>1. Append(t, e) \in Seq(V) /\ (e \in S <=> e \in R) /\ Only(t, S) = Only(t, R)
    BY <1>2
  <2>2. Only(Append(t, e), S) = IF e \in S THEN Append(Only(t, S), e) ELSE Only(t, S)
    BY OnlyAppend
  <2>3. Only(Append(t, e), R) = IF e \in R THEN Append(Only(t, R), e) ELSE Only(t, R)
    BY OnlyAppend
  <2>4. Only(Append(t, e), S) = Only(Append(t, e), R)
    BY <2>1, <2>2, <2>3
  <2> QED
    BY <2>1, <2>4
<1> HIDE DEF T
<1>3. \A t \in Seq(V) : t \in T
  BY <1>1, <1>2, SeqSetInduction
<1> QED
  BY <1>3 DEF T

LEMMA OnlyConcat ==
  ASSUME NEW V, NEW s \in Seq(V), NEW t \in Seq(V), NEW S
  PROVE  Only(s \o t, S) = Only(s, S) \o Only(t, S)
<1> DEFINE T == {u \in Seq(V) : Only(s \o u, S) = Only(s, S) \o Only(u, S)}
<1>1. <<>> \in T
  <2>1. s \o <<>> = s /\ <<>> \in Seq(V)
    OBVIOUS
  <2>2. Only(s, S) \in Seq(V \cap S)
    BY OnlyType
  <2>3. Only(s, S) \o <<>> = Only(s, S)
    BY <2>2
  <2> QED
    BY <2>1, <2>3, OnlyEmpty
<1>2. ASSUME NEW u \in Seq(V), NEW e \in V, u \in T PROVE Append(u, e) \in T
  <2>1. /\ Append(u, e) \in Seq(V) /\ s \o u \in Seq(V)
        /\ s \o Append(u, e) = Append(s \o u, e)
    OBVIOUS
  <2>2. /\ Only(s, S) \in Seq(V \cap S) /\ Only(u, S) \in Seq(V \cap S)
    BY OnlyType
  <2>3. e \in S => Only(s, S) \o Append(Only(u, S), e) = Append(Only(s, S) \o Only(u, S), e)
    BY <2>2
  <2>4. Only(s \o Append(u, e), S) = IF e \in S THEN Append(Only(s \o u, S), e) ELSE Only(s \o u, S)
    BY ZenonT(60), <2>1, OnlyAppend
  <2>5. Only(Append(u, e), S) = IF e \in S THEN Append(Only(u, S), e) ELSE Only(u, S)
    BY OnlyAppend
  <2> QED
    BY <1>2, <2>1, <2>3, <2>4, <2>5
<1> HIDE DEF T
<1>3. \A v \in Seq(V) : v \in T
  BY <1>1, <1>2, SeqSetInduction
<1> QED
  BY <1>3 DEF T

LEMMA OnlyAll ==
  ASSUME NEW V, NEW s \in Seq(V), NEW S, V \subseteq S
  PROVE  Only(s, S) = s
<1> DEFINE T == {t \in Seq(V) : Only(t, S) = t}
<1>1. <<>> \in T
  BY OnlyEmpty
<1>2. ASSUME NEW t \in Seq(V), NEW e \in V, t \in T PROVE Append(t, e) \in T
  <2>1. Append(t, e) \in Seq(V) /\ e \in S
    OBVIOUS
  <2> QED
    BY <1>2, <2>1, OnlyAppend
<1> HIDE DEF T
<1>3. \A t \in Seq(V) : t \in T
  BY <1>1, <1>2, SeqSetInduction
<1> QED
  BY <1>3 DEF T

=============================================================================
