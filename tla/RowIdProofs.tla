----------------------------- MODULE RowIdProofs -----------------------------
(***************************************************************************)
(* What getPrefix returns, for every finite set of keys.  The proofs about *)
(* the tables whose rows get their keys from it rest on this.              *)
(***************************************************************************)
EXTENDS RowId, FiniteSetTheorems, WellFoundedInduction, TLAPS

(* Sets of row numbers have a least element. *)
LEMMA MinNat ==
  ASSUME NEW S \in SUBSET Nat, S # {}
  PROVE  Min(S) \in S /\ \A y \in S : Min(S) <= y
<1>1. \E x \in S : \A y \in S : ~(<<y, x>> \in OpToRel(<, Nat))
  BY NatLessThanWellFounded, WFMin
<1>2. PICK x \in S : \A y \in S : ~(<<y, x>> \in OpToRel(<, Nat))
  BY <1>1
<1>3. ASSUME NEW y \in S PROVE x <= y
  <2>1. x \in Nat /\ y \in Nat
    OBVIOUS
  <2>2. ~(y < x)
    BY <1>2, <2>1 DEF OpToRel
  <2> QED
    BY <2>1, <2>2
<1> QED
  BY <1>3 DEF Min

(* Bounded sets of row numbers have a greatest element. *)
LEMMA MaxNat ==
  ASSUME NEW n \in Nat, NEW S \in SUBSET (1..n), S # {}
  PROVE  Max(S) \in S /\ \A y \in S : Max(S) >= y
<1> DEFINE D == {n - x : x \in S}
<1>1. D \in SUBSET Nat /\ D # {}
  <2>1. \A x \in S : x \in 1..n
    OBVIOUS
  <2>2. \A x \in S : n - x \in Nat
    BY <2>1
  <2> QED
    BY <2>2
<1>2. PICK x \in S : Min(D) = n - x
  BY <1>1, MinNat
<1>3. \A y \in S : x >= y
  <2> TAKE y \in S
  <2>1. n - y \in D
    OBVIOUS
  <2>2. n - x <= n - y
    BY <1>1, <1>2, <2>1, MinNat
  <2> QED
    BY <2>2
<1> QED
  BY <1>3 DEF Max

(* Sets of row numbers are finite, so Position is a number. *)
LEMMA RowsFinite ==
  ASSUME NEW n \in Nat, NEW S \in SUBSET (1..n)
  PROVE  IsFiniteSet(S) /\ Cardinality(S) \in 0..n
<1>1. IsFiniteSet(1..n) /\ Cardinality(1..n) = n
  BY FS_Interval
<1>2. IsFiniteSet(S) /\ Cardinality(S) <= n
  BY <1>1, FS_Subset
<1>3. Cardinality(S) \in Nat
  BY <1>2, FS_CardinalityType
<1> QED
  BY <1>2, <1>3

(* The counter numNum is at least 1 on a row, grows from one row to a      *)
(* later one, and never passes the key of the row it stands on.            *)
LEMMA PositionBounds ==
  ASSUME NEW n \in Nat, NEW S \in SUBSET (1..n), NEW x \in S
  PROVE  /\ Position(S, x) \in 1..x
         /\ \A y \in S : y < x => Position(S, y) < Position(S, x)
<1> DEFINE Upto(z) == {y \in S : y <= z}
<1>0. \A y \in S : y \in Nat /\ y >= 1
  OBVIOUS
<1>1. IsFiniteSet(S) /\ IsFiniteSet(Upto(x))
  <2>1. Upto(x) \in SUBSET (1..n)
    OBVIOUS
  <2> QED
    BY <2>1, RowsFinite
<1>2. Upto(x) \in SUBSET (1..x) /\ x \in Nat
  <2>1. \A y \in Upto(x) : y \in 1..x
    BY <1>0
  <2> QED
    BY <2>1, <1>0
<1>3. Cardinality(Upto(x)) \in 0..x
  BY <1>2, RowsFinite
<1>4. Cardinality(Upto(x)) # 0
  BY <1>1, FS_EmptySet
<1>5. ASSUME NEW y \in S, y < x
      PROVE  Cardinality(Upto(y)) < Cardinality(Upto(x))
  <2>1. Upto(y) \in SUBSET Upto(x) /\ x \in Upto(x) /\ x \notin Upto(y)
    <3>1. \A z \in Upto(y) : z <= x
      BY <1>0, <1>5
    <3>2. ~(x <= y) /\ x <= x
      BY <1>0, <1>5
    <3> QED
      BY <3>1, <3>2
  <2>2. Upto(y) # Upto(x)
    BY <2>1
  <2>3. Cardinality(Upto(y)) <= Cardinality(Upto(x))
        /\ Cardinality(Upto(y)) # Cardinality(Upto(x))
    BY <1>1, <2>1, <2>2, FS_Subset
  <2>4. Upto(y) \in SUBSET (1..n)
    OBVIOUS
  <2>5. Cardinality(Upto(y)) \in Nat
    BY <2>4, RowsFinite
  <2> HIDE DEF Upto
  <2> QED
    BY <2>3, <2>5, <1>3, <1>2
<1>6. Cardinality(Upto(x)) \in 1..x
  BY <1>3, <1>4, <1>2
<1> QED
  BY <1>5, <1>6 DEF Position

(* The loop stopped at a gap: the number it stopped with is free and every *)
(* smaller number is the key of a row.                                     *)
LEMMA StopsAtGap ==
  ASSUME NEW n \in Nat, NEW S \in SUBSET (1..n), GapRows(S) # {}
  PROVE  /\ getPrefix(S) \in 1..n
         /\ getPrefix(S) \notin S
         /\ 1..(getPrefix(S) - 1) \subseteq S
<1> DEFINE x == Min(GapRows(S))
           g == Position(S, x)
           Before == {y \in S : y < x}
<1>1. x \in S /\ x > g /\ \A y \in GapRows(S) : x <= y
  <2>1. GapRows(S) \in SUBSET Nat
    <3>1. \A y \in S : y \in Nat
      OBVIOUS
    <3> QED
      BY <3>1 DEF GapRows
  <2>2. x \in GapRows(S) /\ \A y \in GapRows(S) : x <= y
    BY <2>1, MinNat
  <2> QED
    BY <2>2 DEF GapRows
<1>2. getPrefix(S) = g
  BY DEF getPrefix
<1>3. g \in 1..x /\ x \in 1..n
  BY <1>1, PositionBounds
<1> HIDE DEF x
<1>4. ASSUME NEW y \in Before PROVE y \in 1..(g - 1)
  <2>1. y \in S /\ y < x /\ y \in Nat
    OBVIOUS
  <2>2. y \notin GapRows(S)
    BY <1>1, <1>3, <2>1
  <2>3. y <= Position(S, y)
    <3>1. Position(S, y) \in 1..y
      BY <2>1, PositionBounds
    <3> QED
      BY <2>1, <2>2, <3>1 DEF GapRows
  <2>4. Position(S, y) < g
    BY <1>1, <2>1, PositionBounds
  <2>5. Position(S, y) \in 1..y
    BY <2>1, PositionBounds
  <2> HIDE DEF g
  <2> QED
    BY <2>1, <2>3, <2>4, <2>5, <1>3
<1>5. Before = 1..(g - 1)
  <2>1. Before \in SUBSET (1..n) /\ x \notin Before
    <3>1. ~(x < x)
      BY <1>3
    <3> QED
      BY <3>1
  <2>2. IsFiniteSet(Before) /\ Cardinality(Before) \in Nat
    BY <2>1, RowsFinite
  <2>3. {y \in S : y <= x} = Before \cup {x}
    <3>1. \A y \in S : y <= x <=> (y < x \/ y = x)
      <4> TAKE y \in S
      <4>1. y \in Nat /\ x \in Nat
        BY <1>3
      <4> QED
        BY <4>1
    <3> QED
      BY <1>1, <3>1
  <2>4. g = Cardinality(Before) + 1
    BY <2>1, <2>2, <2>3, FS_AddElement DEF Position
  <2> HIDE DEF g
  <2>5. IsFiniteSet(1..(g - 1)) /\ Cardinality(1..(g - 1)) = g - 1
    BY <1>3, FS_Interval
  <2>6. Before \in SUBSET (1..(g - 1))
    BY <1>4
  <2>7. Cardinality(Before) = Cardinality(1..(g - 1))
    BY <2>2, <2>4, <2>5
  <2> HIDE DEF Before
  <2> QED
    BY <2>5, <2>6, <2>7, FS_Subset
<1>6. g \notin S
  <2> SUFFICES ASSUME g \in S PROVE FALSE
    OBVIOUS
  <2>1. g \in Before
    BY <1>1
  <2> HIDE DEF g, Before
  <2> QED
    BY <2>1, <1>5, <1>3
<1> HIDE DEF g
<1> QED
  BY <1>1, <1>2, <1>3, <1>5, <1>6

(* No gap: the rows are 1, 2, ... without a hole and the next number is    *)
(* one more than the last.                                                 *)
LEMMA NoGap ==
  ASSUME NEW n \in Nat, NEW S \in SUBSET (1..n), GapRows(S) = {}
  PROVE  /\ getPrefix(S) \in 1..(n + 1)
         /\ getPrefix(S) \notin S
         /\ 1..(getPrefix(S) - 1) \subseteq S
<1>1. CASE S = {}
  BY <1>1 DEF getPrefix
<1>2. CASE S # {}
  <2> DEFINE m == Max(S)
  <2>1. m \in S /\ m \in 1..n /\ \A y \in S : m >= y
    BY <1>2, MaxNat
  <2>2. getPrefix(S) = m + 1
    BY <1>2 DEF getPrefix
  <2> HIDE DEF m
  <2>3. S \in SUBSET (1..m)
    BY <2>1
  <2>4. {y \in S : y <= m} = S
    BY <2>1
  <2>5. Position(S, m) = Cardinality(S)
    BY <2>4 DEF Position
  <2>6. Position(S, m) \in 1..m
    BY <2>1, PositionBounds
  <2>7. m <= Position(S, m)
    BY <2>1, <2>6 DEF GapRows
  <2>8. IsFiniteSet(1..m) /\ Cardinality(1..m) = m
    BY <2>1, FS_Interval
  <2>9. Cardinality(S) = Cardinality(1..m)
    BY <2>1, <2>5, <2>6, <2>7, <2>8
  <2>10. S = 1..m
    BY <2>3, <2>8, <2>9, FS_Subset
  <2> QED
    BY <2>1, <2>2, <2>10
<1> QED
  BY <1>1, <1>2

(* getPrefix returns the smallest number that is no row's key, whatever    *)
(* the rows are: numprefix.cpp:34-56, both branches.                       *)
THEOREM GetPrefixSmallestFree ==
  ASSUME NEW n \in Nat, NEW S \in SUBSET (1..n)
  PROVE  /\ getPrefix(S) \in 1..(n + 1)
         /\ getPrefix(S) \notin S
         /\ 1..(getPrefix(S) - 1) \subseteq S
<1>1. CASE GapRows(S) = {}
  BY <1>1, NoGap
<1>2. CASE GapRows(S) # {}
  BY <1>2, StopsAtGap
<1> QED
  BY <1>1, <1>2
=============================================================================
