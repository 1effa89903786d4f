-------------------------- MODULE RangePointsProofs --------------------------
(***************************************************************************)
(* Proofs about the conversions of range points in src/sql/plan/range.go, *)
(* for every handle width W.                                               *)
(*                                                                         *)
(* convertPoint rounds a constant bound to the column type and flips its  *)
(* exclusion flag; buildTableRanges turns a bound into an int64 handle,   *)
(* stepping it by one with Go's wrapping ++ and --.  The run `range`      *)
(* checks the ranges these produce against SQL evaluation on a 2-bit      *)
(* column; the theorems below show the per-point facts that run rests on  *)
(* for every width, and the exact places where the handle step wraps.     *)
(*                                                                         *)
(* Numbers are in half units (see RangePoints), so an odd datum is a      *)
(* constant between two integers, and Round[c] the way the conversion     *)
(* rounds it.                                                              *)
(***************************************************************************)
EXTENDS RangePoints, TLAPS

\* The width assumption gives a positive power of two.
LEMMA HalfPos == Half \in Nat \ {0}
  BY WidthAssumption

\* Every value of an integer column (NULL included) is an even number.
LEMMA RowValsEven == ASSUME NEW v \in RowVals PROVE v \in Int /\ v % 2 = 0
  BY HalfPos DEF RowVals, NullD, MinH, MinInt, MaxInt

(* convertPoint (range.go:473-516) loses no row and adds none: whatever   *)
(* way Datum.ConvertTo rounds a constant that lies between two integers,  *)
(* the converted start point admits exactly the column values the         *)
(* original one admits, and likewise for an end point.                    *)
THEOREM ConvertPointExact ==
  ASSUME NEW p \in Point, NEW Round, NEW v \in RowVals,
         (p.value \in MinH..MaxH /\ p.value % 2 # 0) => Round[p.value] \in {-1, 1}
  PROVE  /\ p.start => (AtOrAbove(convertPoint(p, Round), v) <=> AtOrAbove(p, v))
         /\ ~p.start => (AtOrBelow(convertPoint(p, Round), v) <=> AtOrBelow(p, v))
<1> DEFINE c == p.value
<1>1. c \in Int /\ v \in Int /\ v % 2 = 0
  BY RowValsEven, HalfPos DEF Point, Datums, NullD, MinNotNull, MaxValue, MinH, MaxH, MinInt, MaxInt
<1>2. CASE c \in {MaxValue, MinNotNull}
  BY <1>2 DEF convertPoint
<1>3. CASE c \notin {MaxValue, MinNotNull} /\ (c = NullD \/ c % 2 = 0)
  BY <1>3 DEF convertPoint, Cast
<1>4. CASE c \notin {MaxValue, MinNotNull} /\ c # NullD /\ c % 2 # 0
  <2>1. c \in MinH..MaxH
    BY <1>4 DEF Point, Datums
  <2>2. PICK r \in {-1, 1} : Round[c] = r
    BY <2>1, <1>4
  <2>3. convertPoint(p, Round) = Pt(c + r, IF p.start THEN r = -1 ELSE r = 1, p.start)
    BY <1>4, <2>2, <1>1 DEF convertPoint, Cast
  <2>4. c # v
    BY <1>1, <1>4
  <2>5. ASSUME p.start
        PROVE  AtOrAbove(convertPoint(p, Round), v) <=> AtOrAbove(p, v)
    <3>1. AtOrAbove(p, v) <=> c < v
      BY <2>4 DEF AtOrAbove
    <3>2. CASE r = 1
      <4>1. convertPoint(p, Round).value = c + 1
        BY <2>3, <3>2 DEF Pt
      <4>2. convertPoint(p, Round).excl = (r = -1)
        BY <2>3, <3>2, <2>5 DEF Pt
      <4>3. AtOrAbove(convertPoint(p, Round), v) <=> (c + 1 < v \/ (c + 1 = v /\ ~(r = -1)))
        BY <4>1, <4>2 DEF AtOrAbove
      <4>4. (c + 1 < v \/ (c + 1 = v /\ ~(r = -1))) <=> c < v
        BY <3>2, <1>1, <2>4
      <4>5. QED
        BY <4>3, <4>4, <3>1
    <3>3. CASE r = -1
      <4>1. convertPoint(p, Round).value = c - 1
        BY <2>3, <3>3, <1>1 DEF Pt
      <4>2. convertPoint(p, Round).excl = (r = -1)
        BY <2>3, <3>3, <2>5 DEF Pt
      <4>3. AtOrAbove(convertPoint(p, Round), v) <=> (c - 1 < v \/ (c - 1 = v /\ ~(r = -1)))
        BY <4>1, <4>2 DEF AtOrAbove
      <4>4. (c - 1 < v \/ (c - 1 = v /\ ~(r = -1))) <=> c < v
        BY <3>3, <1>1, <2>4
      <4>5. QED
        BY <4>3, <4>4, <3>1
    <3>4. QED
      BY <2>2, <3>2, <3>3
  <2>6. ASSUME ~p.start
        PROVE  AtOrBelow(convertPoint(p, Round), v) <=> AtOrBelow(p, v)
    <3>1. AtOrBelow(p, v) <=> v < c
      BY <2>4 DEF AtOrBelow
    <3>2. CASE r = 1
      <4>1. convertPoint(p, Round).value = c + 1
        BY <2>3, <3>2 DEF Pt
      <4>2. convertPoint(p, Round).excl = (r = 1)
        BY <2>3, <3>2, <2>6 DEF Pt
      <4>3. AtOrBelow(convertPoint(p, Round), v) <=> (v < c + 1 \/ (v = c + 1 /\ ~(r = 1)))
        BY <4>1, <4>2 DEF AtOrBelow
      <4>4. (v < c + 1 \/ (v = c + 1 /\ ~(r = 1))) <=> v < c
        BY <3>2, <1>1, <2>4
      <4>5. QED
        BY <4>3, <4>4, <3>1
    <3>3. CASE r = -1
      <4>1. convertPoint(p, Round).value = c - 1
        BY <2>3, <3>3, <1>1 DEF Pt
      <4>2. convertPoint(p, Round).excl = (r = 1)
        BY <2>3, <3>3, <2>6 DEF Pt
      <4>3. AtOrBelow(convertPoint(p, Round), v) <=> (v < c - 1 \/ (v = c - 1 /\ ~(r = 1)))
        BY <4>1, <4>2 DEF AtOrBelow
      <4>4. (v < c - 1 \/ (v = c - 1 /\ ~(r = 1))) <=> v < c
        BY <3>3, <1>1, <2>4
      <4>5. QED
        BY <4>3, <4>4, <3>1
    <3>4. QED
      BY <2>2, <3>2, <3>3
  <2>7. QED
    BY <2>5, <2>6
<1>5. QED
  BY <1>2, <1>3, <1>4

(* An index range built from a converted (start, end) pair, as           *)
(* buildIndexRanges and appendIndexRange build it (range.go:450-471,      *)
(* 534-565), covers exactly the column values the pair of points covers.  *)
COROLLARY ConvertedPairExact ==
  ASSUME NEW s \in Point, NEW e \in Point, NEW Round, NEW v \in RowVals,
         s.start, ~e.start,
         \A p \in {s, e} :
            (p.value \in MinH..MaxH /\ p.value % 2 # 0) => Round[p.value] \in {-1, 1}
  PROVE  Covers(convertPoint(s, Round), convertPoint(e, Round), v) <=> Covers(s, e, v)
<1>1. AtOrAbove(convertPoint(s, Round), v) <=> AtOrAbove(s, v)
  BY ConvertPointExact
<1>2. AtOrBelow(convertPoint(e, Round), v) <=> AtOrBelow(e, v)
  BY ConvertPointExact
<1>3. QED
  BY <1>1, <1>2 DEF Covers

\* Go's int64 ++ and -- do not wrap inside the int64 range.
LEMMA WrapId == ASSUME NEW x \in MinInt..MaxInt PROVE Wrap(x) = x
  BY HalfPos DEF Wrap, MinInt, MaxInt

\* Datum.ToInt64 of a number: an int64 at most half a unit away, and the
\* number itself when it is an integer.
LEMMA CastNumber ==
  ASSUME NEW Round, NEW v \in MinH..MaxH,
         v % 2 # 0 => Round[v] \in {-1, 1}
  PROVE  LET k == ToInt64(v, Round) IN
           /\ k \in MinInt..MaxInt
           /\ 2 * k \in {v - 1, v, v + 1}
           /\ v % 2 = 0 => 2 * k = v
<1>1. Half \in Nat \ {0}
  BY HalfPos
<1>2. CASE v % 2 = 0
  BY <1>1, <1>2 DEF ToInt64, Cast, MinH, MaxH, MinInt, MaxInt, NullD
<1>3. CASE v % 2 # 0
  <2>1. v # NullD
    BY <1>1 DEF NullD, MinH, MinInt
  <2>2. PICK r \in {-1, 1} : Round[v] = r
    BY <1>3
  <2>3. Cast(v, Round) = v + r
    BY <1>3, <2>1, <2>2 DEF Cast
  <2>4. (v + r) % 2 = 0 /\ v + r \in MinH..MaxH
    BY <1>1, <1>3 DEF MinH, MaxH, MinInt, MaxInt
  <2>5. QED
    BY <1>1, <1>3, <2>3, <2>4 DEF ToInt64, MinH, MaxH, MinInt, MaxInt
<1>4. QED
  BY <1>2, <1>3

(* The start handle of buildTableRanges (range.go:569-589) is exact: for  *)
(* every numeric start point but an exclusive one at MaxInt64, the handle *)
(* is an int64 and the handles at or above it are exactly the values the  *)
(* point admits, however the conversion rounds.                           *)
THEOREM TableStartExact ==
  ASSUME NEW p \in Point, NEW Round, NEW i \in MinInt..MaxInt,
         p.value \in MinH..MaxH,
         p.value % 2 # 0 => Round[p.value] \in {-1, 1},
         ~(p.value = MaxH /\ p.excl)
  PROVE  /\ TableStart(p, Round) \in MinInt..MaxInt
         /\ TableStart(p, Round) <= i <=> AtOrAbove(p, 2 * i)
<1> DEFINE v == p.value
           k == ToInt64(v, Round)
<1>1. Half \in Nat \ {0}
  BY HalfPos
<1>2. /\ k \in MinInt..MaxInt
      /\ 2 * k \in {v - 1, v, v + 1}
      /\ v % 2 = 0 => 2 * k = v
  BY CastNumber
<1>3. v \notin {NullD, MinNotNull}
  BY <1>1 DEF NullD, MinNotNull, MinH, MinInt
<1>4. TableStart(p, Round) = IF 2 * k < v \/ (2 * k = v /\ p.excl) THEN Wrap(k + 1) ELSE k
  BY <1>3 DEF TableStart
<1>5. CASE 2 * k < v
  <2>1. k + 1 \in MinInt..MaxInt
    BY <1>1, <1>2, <1>5 DEF MinH, MaxH, MinInt, MaxInt
  <2>2. TableStart(p, Round) = k + 1
    BY <1>4, <1>5, <2>1, WrapId
  <2>3. AtOrAbove(p, 2 * i) <=> v < 2 * i
    BY <1>2, <1>5 DEF AtOrAbove
  <2>4. QED
    BY <1>2, <1>5, <2>1, <2>2, <2>3
<1>6. CASE 2 * k = v /\ p.excl
  <2>1. k + 1 \in MinInt..MaxInt
    BY <1>1, <1>2, <1>6 DEF MinH, MaxH, MinInt, MaxInt
  <2>2. TableStart(p, Round) = k + 1
    BY <1>4, <1>6, <2>1, WrapId
  <2>3. AtOrAbove(p, 2 * i) <=> v < 2 * i
    BY <1>6 DEF AtOrAbove
  <2>4. QED
    BY <1>2, <1>6, <2>1, <2>2, <2>3
<1>7. CASE 2 * k = v /\ ~p.excl
  <2>1. TableStart(p, Round) = k
    BY <1>4, <1>7
  <2>2. AtOrAbove(p, 2 * i) <=> v <= 2 * i
    BY <1>7 DEF AtOrAbove
  <2>3. QED
    BY <1>2, <1>7, <2>1, <2>2
<1>8. CASE 2 * k > v
  <2>1. TableStart(p, Round) = k
    BY <1>2, <1>4, <1>8
  <2>2. v # 2 * i
    BY <1>1, <1>2, <1>8 DEF MinInt, MaxInt
  <2>3. AtOrAbove(p, 2 * i) <=> v < 2 * i
    BY <2>2 DEF AtOrAbove
  <2>4. QED
    BY <1>2, <1>8, <2>1, <2>3
<1>9. QED
  BY <1>2, <1>5, <1>6, <1>7, <1>8

(* The end handle of buildTableRanges (range.go:590-608) is exact for     *)
(* every numeric end point but an exclusive one at MinInt64.              *)
THEOREM TableEndExact ==
  ASSUME NEW p \in Point, NEW Round, NEW i \in MinInt..MaxInt,
         p.value \in MinH..MaxH,
         p.value % 2 # 0 => Round[p.value] \in {-1, 1},
         ~(p.value = MinH /\ p.excl)
  PROVE  /\ TableEnd(p, Round) \in MinInt..MaxInt
         /\ i <= TableEnd(p, Round) <=> AtOrBelow(p, 2 * i)
<1> DEFINE v == p.value
           k == ToInt64(v, Round)
<1>1. Half \in Nat \ {0}
  BY HalfPos
<1>2. /\ k \in MinInt..MaxInt
      /\ 2 * k \in {v - 1, v, v + 1}
      /\ v % 2 = 0 => 2 * k = v
  BY CastNumber
<1>3. v \notin {NullD, MaxValue}
  BY <1>1 DEF NullD, MaxValue, MinH, MaxH, MinInt, MaxInt
<1>4. TableEnd(p, Round) = IF 2 * k > v \/ (2 * k = v /\ p.excl) THEN Wrap(k - 1) ELSE k
  BY <1>3 DEF TableEnd
<1>5. CASE 2 * k > v
  <2>1. k - 1 \in MinInt..MaxInt
    BY <1>1, <1>2, <1>5 DEF MinH, MaxH, MinInt, MaxInt
  <2>2. TableEnd(p, Round) = k - 1
    BY <1>4, <1>5, <2>1, WrapId
  <2>3. v # 2 * i
    BY <1>1, <1>2, <1>5 DEF MinInt, MaxInt
  <2>4. AtOrBelow(p, 2 * i) <=> 2 * i < v
    BY <2>3 DEF AtOrBelow
  <2>5. QED
    BY <1>2, <1>5, <2>1, <2>2, <2>4
<1>6. CASE 2 * k = v /\ p.excl
  <2>1. k - 1 \in MinInt..MaxInt
    BY <1>1, <1>2, <1>6 DEF MinH, MaxH, MinInt, MaxInt
  <2>2. TableEnd(p, Round) = k - 1
    BY <1>4, <1>6, <2>1, WrapId
  <2>3. AtOrBelow(p, 2 * i) <=> 2 * i < v
    BY <1>6 DEF AtOrBelow
  <2>4. QED
    BY <1>2, <1>6, <2>1, <2>2, <2>3
<1>7. CASE 2 * k = v /\ ~p.excl
  <2>1. TableEnd(p, Round) = k
    BY <1>4, <1>7
  <2>2. AtOrBelow(p, 2 * i) <=> 2 * i <= v
    BY <1>7 DEF AtOrBelow
  <2>3. QED
    BY <1>2, <1>7, <2>1, <2>2
<1>8. CASE 2 * k < v
  <2>1. TableEnd(p, Round) = k
    BY <1>2, <1>4, <1>8
  <2>2. v # 2 * i
    BY <1>1, <1>2, <1>8 DEF MinInt, MaxInt
  <2>3. AtOrBelow(p, 2 * i) <=> 2 * i < v
    BY <2>2 DEF AtOrBelow
  <2>4. QED
    BY <1>2, <1>8, <2>1, <2>3
<1>9. QED
  BY <1>2, <1>5, <1>6, <1>7, <1>8

(* The excluded edge (range.go:606): an exclusive end at MinInt64, as in  *)
(* `a < MinInt64`, which admits no handle, becomes the end handle         *)
(* MaxInt64, because endInt-- wraps; the range then spans every handle.   *)
THEOREM TableEndWrapsAtMin ==
  ASSUME NEW p \in Point, NEW Round, p.value = MinH, p.excl
  PROVE  TableEnd(p, Round) = MaxInt
<1>1. Half \in Nat \ {0}
  BY HalfPos
<1>2. ToInt64(MinH, Round) = MinInt
  BY <1>1 DEF ToInt64, Cast, MinH, MinInt, NullD
<1>3. MinH \notin {NullD, MaxValue}
  BY <1>1 DEF NullD, MaxValue, MinH, MaxH, MinInt, MaxInt
<1>4. TableEnd(p, Round) = Wrap(MinInt - 1)
  BY <1>1, <1>2, <1>3 DEF TableEnd, MinH
<1>5. Wrap(MinInt - 1) = MaxInt
  BY <1>1 DEF Wrap, MinInt, MaxInt
<1>6. QED
  BY <1>4, <1>5
=============================================================================
