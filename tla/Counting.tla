------------------------------ MODULE Counting ------------------------------
(* Lemmas about least and greatest elements, and about the places of the     *)
(* elements of a finite set in a strict total order: what pages of a list,   *)
(* caps of a table and sorted events are counted by.                         *)
EXTENDS Integers, FiniteSets, Functions, FiniteSetTheorems, WellFoundedInduction, TLAPS

(* ---- induction ----------------------------------------------------------- *)
LEMMA LessThan ==
  \E R : IsWellFoundedOn(R, Nat) /\ \A k, m \in Nat : <<k, m>> \in R <=> k < m
  <1> DEFINE R == OpToRel(<, Nat)
  <1>1. IsWellFoundedOn(R, Nat) BY NatLessThanWellFounded
  <1>2. \A k, m \in Nat : <<k, m>> \in R <=> k < m
    BY DEF OpToRel
  <1> HIDE DEF R
  <1> QED BY <1>1, <1>2

LEMMA MinimalIn ==
  ASSUME NEW R, IsWellFoundedOn(R, Nat), NEW T, T \subseteq Nat, T # {}
  PROVE  \E x \in T : \A y \in T : ~ (<<y, x>> \in R)
  BY WFMin, Zenon

(* A set of natural numbers that is not empty has a least element.           *)
LEMMA LeastOf ==
  ASSUME NEW S \in SUBSET Nat, S # {}
  PROVE  \E m \in S : \A k \in S : m <= k
  <1>1. PICK R : IsWellFoundedOn(R, Nat) /\ \A k, m \in Nat : <<k, m>> \in R <=> k < m
    BY LessThan
  <1>2. PICK m \in S : \A k \in S : ~ (<<k, m>> \in R) BY <1>1, MinimalIn
  <1>3. ASSUME NEW k \in S PROVE m <= k
    <2>1. k \in Nat /\ m \in Nat OBVIOUS
    <2>2. ~(k < m) BY <1>1, <1>2, <2>1
    <2> QED BY <2>1, <2>2
  <1> QED BY <1>3

(* Induction over the natural numbers, the property being a set.             *)
LEMMA Induction ==
  ASSUME NEW S, 0 \in S, \A n \in Nat : n \in S => n + 1 \in S
  PROVE  Nat \subseteq S
  <1> DEFINE T == Nat \ S
  <1>1. SUFFICES ASSUME T # {} PROVE FALSE OBVIOUS
  <1>2. PICK m \in T : \A k \in T : m <= k BY <1>1, LeastOf
  <1>3. m \in Nat /\ m # 0 /\ m - 1 \in Nat /\ m - 1 \notin T /\ (m - 1) + 1 = m BY <1>2
  <1> QED BY <1>2, <1>3

(* ---- the largest --------------------------------------------------------- *)
(* A finite set of integers that is not empty has a largest element.         *)
LEMMA HasLargest ==
  ASSUME NEW S, IsFiniteSet(S), S \subseteq Int, S # {}
  PROVE  \E m \in S : \A k \in S : k <= m
  <1> DEFINE Has(T) == T # {} => \E m \in T : \A k \in T : k <= m
             G == {n \in Nat : \A T \in SUBSET Int : IsFiniteSet(T) /\ Cardinality(T) = n => Has(T)}
  <1>1. 0 \in G BY FS_EmptySet
  <1>2. ASSUME NEW n \in Nat, n \in G PROVE n + 1 \in G
    <2> SUFFICES ASSUME NEW T \in SUBSET Int, IsFiniteSet(T), Cardinality(T) = n + 1
                 PROVE  Has(T)
      OBVIOUS
    <2>1. T # {} BY FS_EmptySet
    <2>2. PICK x \in T : TRUE BY <2>1
    <2>3. IsFiniteSet(T \ {x}) /\ Cardinality(T \ {x}) = n
      <3>1. IsFiniteSet(T \ {x}) /\ Cardinality(T \ {x}) = Cardinality(T) - 1
        BY <2>2, FS_RemoveElement
      <3> QED BY <3>1
    <2>4. Has(T \ {x}) BY <1>2, <2>3
    <2>5. CASE T \ {x} = {} BY <2>5, <2>2
    <2>6. CASE T \ {x} # {}
      <3>1. PICK m \in T \ {x} : \A k \in T \ {x} : k <= m BY <2>4, <2>6
      <3>2. CASE x <= m BY <3>1, <3>2
      <3>3. CASE ~(x <= m)
        <4>1. \A k \in T : k <= x BY <3>1, <3>3
        <4> QED BY <4>1, <2>2
      <3> QED BY <3>2, <3>3
    <2> QED BY <2>5, <2>6
  <1>3. Nat \subseteq G
    <2> HIDE DEF G
    <2> QED BY <1>1, <1>2, Induction
  <1>4. Cardinality(S) \in Nat BY FS_CardinalityType
  <1> QED BY <1>3, <1>4

(* ---- places -------------------------------------------------------------- *)
(* R orders the elements of S strictly and totally.                          *)
StrictlyOrders(R, S) ==
  /\ \A x \in S : <<x, x>> \notin R
  /\ \A x, y \in S : x # y => <<x, y>> \in R \/ <<y, x>> \in R
  /\ \A x, y, z \in S : <<x, y>> \in R /\ <<y, z>> \in R => <<x, z>> \in R

Ahead(R, S, x) == {y \in S : <<y, x>> \in R}
PlaceOf(R, S) == [x \in S |-> Cardinality(Ahead(R, S, x))]

LEMMA PlaceGrows ==
  ASSUME NEW S, IsFiniteSet(S), NEW R, StrictlyOrders(R, S), NEW x \in S, NEW y \in S, <<x, y>> \in R
  PROVE  PlaceOf(R, S)[x] < PlaceOf(R, S)[y]
  <1>1. Ahead(R, S, x) \subseteq Ahead(R, S, y) \ {x} BY DEF StrictlyOrders, Ahead
  <1>2. x \in Ahead(R, S, y) BY DEF Ahead
  <1>3. IsFiniteSet(Ahead(R, S, y)) BY FS_Subset DEF Ahead
  <1>4. /\ IsFiniteSet(Ahead(R, S, y) \ {x})
        /\ Cardinality(Ahead(R, S, y) \ {x}) = Cardinality(Ahead(R, S, y)) - 1
    BY <1>2, <1>3, FS_RemoveElement
  <1>5. Cardinality(Ahead(R, S, x)) <= Cardinality(Ahead(R, S, y) \ {x}) BY <1>1, <1>4, FS_Subset
  <1>6. IsFiniteSet(Ahead(R, S, x)) BY FS_Subset DEF Ahead
  <1>7. Cardinality(Ahead(R, S, x)) \in Nat /\ Cardinality(Ahead(R, S, y)) \in Nat
    BY <1>3, <1>6, FS_CardinalityType
  <1>8. PlaceOf(R, S)[x] = Cardinality(Ahead(R, S, x)) /\ PlaceOf(R, S)[y] = Cardinality(Ahead(R, S, y))
    BY DEF PlaceOf
  <1> QED BY <1>4, <1>5, <1>7, <1>8

(* The places are 0 .. n - 1, each taken by one element.                     *)
LEMMA PlacesAreTaken ==
  ASSUME NEW S, IsFiniteSet(S), NEW R, StrictlyOrders(R, S)
  PROVE  /\ PlaceOf(R, S) \in [S -> 0..(Cardinality(S) - 1)]
         /\ \A x, y \in S : PlaceOf(R, S)[x] = PlaceOf(R, S)[y] => x = y
         /\ \A k \in 0..(Cardinality(S) - 1) : \E x \in S : PlaceOf(R, S)[x] = k
  <1> DEFINE n == Cardinality(S)
             P == PlaceOf(R, S)
  <1>1. n \in Nat BY FS_CardinalityType
  <1>2. ASSUME NEW x \in S PROVE P[x] \in 0..(n - 1)
    <2>1. Ahead(R, S, x) \subseteq S \ {x} BY DEF StrictlyOrders, Ahead
    <2>2. IsFiniteSet(S \ {x}) /\ Cardinality(S \ {x}) = n - 1 BY FS_RemoveElement
    <2>3. IsFiniteSet(Ahead(R, S, x)) /\ Cardinality(Ahead(R, S, x)) <= n - 1
      BY <2>1, <2>2, FS_Subset
    <2>4. Cardinality(Ahead(R, S, x)) \in Nat BY <2>3, FS_CardinalityType
    <2>5. P[x] = Cardinality(Ahead(R, S, x)) BY DEF PlaceOf
    <2> QED BY <2>3, <2>4, <2>5, <1>1
  <1>3. P \in [S -> 0..(n - 1)] BY <1>2 DEF PlaceOf
  <1>4. ASSUME NEW x \in S, NEW y \in S, P[x] = P[y] PROVE x = y
    <2> SUFFICES ASSUME x # y PROVE FALSE OBVIOUS
    <2>1. P[x] < P[y] \/ P[y] < P[x] BY PlaceGrows DEF StrictlyOrders
    <2>2. P[x] \in 0..(n - 1) /\ P[y] \in 0..(n - 1) BY <1>2
    <2> QED BY <2>1, <2>2, <1>4, <1>1
  <1>5. ASSUME NEW k \in 0..(n - 1), \A x \in S : P[x] # k PROVE FALSE
    <2> DEFINE T == (0..(n - 1)) \ {k}
    <2>1. IsFiniteSet(0..(n - 1)) /\ Cardinality(0..(n - 1)) = n
      <3>1. 0 \in Int /\ n - 1 \in Int BY <1>1
      <3>2. /\ IsFiniteSet(0..(n - 1))
            /\ Cardinality(0..(n - 1)) = IF 0 > n - 1 THEN 0 ELSE (n - 1) - 0 + 1
        BY <3>1, FS_Interval
      <3> HIDE DEF n
      <3> QED BY <3>2, <1>1
    <2>2. IsFiniteSet(T) /\ Cardinality(T) = n - 1 BY <2>1, FS_RemoveElement
    <2>3. P \in [S -> T] BY <1>3, <1>5 DEF PlaceOf
    <2>4. Cardinality(T) < Cardinality(S) BY <2>2, <1>1
    <2> HIDE DEF T, P
    <2>5. \E x, y \in S : x # y /\ P[x] = P[y] BY <2>2, <2>3, <2>4, FS_PigeonHole
    <2> QED BY <2>5, <1>4
  <1> QED BY <1>3, <1>4, <1>5

(* What is in the places a .. b - 1.                                         *)
LEMMA PageHolds ==
  ASSUME NEW S, IsFiniteSet(S), NEW R, StrictlyOrders(R, S),
         NEW a \in Nat, NEW b \in Nat, a <= b, b <= Cardinality(S),
         NEW page, page = {x \in S : a <= PlaceOf(R, S)[x] /\ PlaceOf(R, S)[x] < b}
  PROVE  IsFiniteSet(page) /\ Cardinality(page) = b - a
  <1> DEFINE n == Cardinality(S)
             P == PlaceOf(R, S)
             f == [x \in page |-> P[x]]
  <1>1. n \in Nat BY FS_CardinalityType
  <1>2. IsFiniteSet(page) BY FS_Subset
  <1>3. /\ P \in [S -> 0..(n - 1)]
        /\ \A x, y \in S : P[x] = P[y] => x = y
        /\ \A k \in 0..(n - 1) : \E x \in S : P[x] = k
    BY PlacesAreTaken
  <1> HIDE DEF P
  <1>4. f \in [page -> a..(b - 1)]
    <2>1. ASSUME NEW x \in page PROVE P[x] \in a..(b - 1)
      <3>1. x \in S /\ P[x] \in 0..(n - 1) BY <1>3
      <3>2. a <= P[x] /\ P[x] < b BY DEF P
      <3> QED BY <3>1, <3>2, <1>1
    <2> QED BY <2>1
  <1>5. \A x, y \in page : f[x] = f[y] => x = y BY <1>3
  <1>6. \A k \in a..(b - 1) : \E x \in page : f[x] = k
    <2> SUFFICES ASSUME NEW k \in a..(b - 1) PROVE \E x \in page : f[x] = k
      OBVIOUS
    <2>1. k \in 0..(n - 1) BY <1>1
    <2>2. PICK x \in S : P[x] = k BY <2>1, <1>3
    <2>3. x \in page BY <2>2 DEF P
    <2> QED BY <2>2, <2>3
  <1>7. f \in Bijection(page, a..(b - 1))
    BY <1>4, <1>5, <1>6 DEF Bijection, Injection, Surjection, IsInjective
  <1>8. Cardinality(a..(b - 1)) = Cardinality(page)
    BY <1>2, <1>7, FS_Bijection DEF ExistsBijection
  <1>9. Cardinality(a..(b - 1)) = b - a
    <2>1. a \in Int /\ b - 1 \in Int OBVIOUS
    <2>2. Cardinality(a..(b - 1)) = IF a > b - 1 THEN 0 ELSE (b - 1) - a + 1 BY <2>1, FS_Interval
    <2> QED BY <2>2
  <1> QED BY <1>2, <1>8, <1>9

(* What a map with finitely many entries holds is finite.                    *)
LEMMA RangeIsFinite ==
  ASSUME NEW f, IsFiniteSet(DOMAIN f)
  PROVE  IsFiniteSet({f[x] : x \in DOMAIN f})
  <1> DEFINE T == {f[x] : x \in DOMAIN f}
             g == [x \in DOMAIN f |-> f[x]]
  <1>1. g \in Surjection(DOMAIN f, T) BY DEF Surjection
  <1> QED BY <1>1, FS_Surjection
=============================================================================
