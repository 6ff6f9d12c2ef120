------------------------------ MODULE UnitSums ------------------------------
(***************************************************************************)
(* The sum of a function over a finite set, written as the number of its   *)
(* units.  In this form an atomic counter can be compared with what its    *)
(* holders own, by TLC on an instance and by proof for every instance.     *)
(***************************************************************************)
EXTENDS Integers, FiniteSets, FiniteSetTheorems, TLAPS

\* One element for each unit that a member of S owns.
Units(S, h) == UNION {{x} \X (1..h[x]) : x \in S}

SumOver(S, h) == Cardinality(Units(S, h))

\* The arithmetic of the counters: min and saturating_sub.
Least(a, b) == IF a <= b THEN a ELSE b
SaturatingSub(a, b) == IF a >= b THEN a - b ELSE 0

-----------------------------------------------------------------------------
(* The units of one owner are as many as it owns.                          *)
LEMMA OwnUnits ==
  ASSUME NEW x, NEW n \in Nat
  PROVE  IsFiniteSet({x} \X (1..n)) /\ Cardinality({x} \X (1..n)) = n
<1> DEFINE A == {x}
           B == 1..n
<1>1. IsFiniteSet(A) /\ Cardinality(A) = 1
  BY FS_Singleton
<1>2. IsFiniteSet(B) /\ Cardinality(B) = n
  BY FS_Interval
<1> HIDE DEF A, B
<1>3. IsFiniteSet(A \X B) /\ Cardinality(A \X B) = Cardinality(A) * Cardinality(B)
  BY <1>1, <1>2, FS_Product, Zenon
<1>4. IsFiniteSet(A \X B) /\ Cardinality(A \X B) = n
  <2> DEFINE C == Cardinality(A \X B)
  <2>1. C = 1 * n
    BY <1>1, <1>2, <1>3, Zenon
  <2> HIDE DEF C
  <2>2. C = n
    BY <2>1
  <2> QED
    BY <1>3, <2>2, Zenon DEF C
<1> QED
  BY <1>4, Zenon DEF A, B

(* A finite set of owners has finitely many units.                         *)
LEMMA UnitsFinite ==
  ASSUME NEW S, IsFiniteSet(S), NEW h \in [S -> Nat]
  PROVE  IsFiniteSet(Units(S, h)) /\ SumOver(S, h) \in Nat
<1> DEFINE f == [x \in S |-> {x} \X (1..h[x])]
           T == {{x} \X (1..h[x]) : x \in S}
<1>1. f \in Surjection(S, T)
  BY DEF Surjection
<1>2. IsFiniteSet(T)
  BY <1>1, FS_Surjection
<1>3. \A x \in S : IsFiniteSet({x} \X (1..h[x]))
  BY OwnUnits
<1>4. \A t \in T : IsFiniteSet(t)
  BY <1>3
<1>5. IsFiniteSet(UNION T)
  BY <1>2, <1>4, FS_UNION
<1> QED
  BY <1>5, FS_CardinalityType DEF Units, SumOver

(* The sum splits into one owner and the others.                           *)
LEMMA SumSplit ==
  ASSUME NEW S, IsFiniteSet(S), NEW h \in [S -> Nat], NEW x \in S
  PROVE  SumOver(S, h) = SumOver(S \ {x}, h) + h[x]
<1> DEFINE R == S \ {x}
           g == [y \in R |-> h[y]]
<1>1. IsFiniteSet(R)
  BY FS_RemoveElement
<1>2. Units(R, g) = Units(R, h)
  BY DEF Units
<1>3. IsFiniteSet(Units(R, h))
  BY <1>1, <1>2, UnitsFinite
<1>4. IsFiniteSet({x} \X (1..h[x])) /\ Cardinality({x} \X (1..h[x])) = h[x]
  BY OwnUnits
<1>5. Units(S, h) = Units(R, h) \cup ({x} \X (1..h[x]))
  BY DEF Units
<1>6. Units(R, h) \cap ({x} \X (1..h[x])) = {}
  BY DEF Units
<1>7. Cardinality(Units(R, h)) \in Nat
  BY <1>3, FS_CardinalityType
<1> HIDE DEF R
<1>8. Cardinality(Units(S, h)) = Cardinality(Units(R, h)) + h[x] - Cardinality({})
  BY <1>3, <1>4, <1>5, <1>6, FS_Union
<1> QED
  BY <1>7, <1>8, FS_EmptySet DEF SumOver, R

(* Changing what one owner has changes the sum by the difference.          *)
LEMMA SumUpdate ==
  ASSUME NEW S, IsFiniteSet(S), NEW h \in [S -> Nat], NEW k \in [S -> Nat],
         NEW x \in S, \A y \in S \ {x} : k[y] = h[y]
  PROVE  SumOver(S, k) = SumOver(S, h) - h[x] + k[x]
<1> DEFINE R == S \ {x}
<1>1. h[x] \in Nat /\ k[x] \in Nat
  OBVIOUS
<1>2. SumOver(R, k) = SumOver(R, h)
  BY DEF SumOver, Units
<1>3. SumOver(S, h) = SumOver(R, h) + h[x]
  BY SumSplit
<1>4. SumOver(S, k) = SumOver(R, k) + k[x]
  BY <1>1, SumSplit
<1>5. SumOver(R, h) \in Int
  <2> DEFINE g == [y \in R |-> h[y]]
  <2>1. IsFiniteSet(R) /\ g \in [R -> Nat]
    BY FS_RemoveElement
  <2>2. SumOver(R, g) = SumOver(R, h)
    BY DEF SumOver, Units
  <2>3. SumOver(R, g) \in Nat
    BY <2>1, UnitsFinite
  <2> QED
    BY <2>2, <2>3
<1> HIDE DEF R
<1> QED
  BY <1>1, <1>2, <1>3, <1>4, <1>5

(* A sum of zeros is zero.                                                 *)
LEMMA SumZero ==
  ASSUME NEW S, NEW h, \A x \in S : h[x] = 0
  PROVE  SumOver(S, h) = 0
<1>1. Units(S, h) = {}
  BY DEF Units
<1> QED
  BY <1>1, FS_EmptySet DEF SumOver
=============================================================================
