----------------------------- MODULE RangePoints -----------------------------
(***************************************************************************)
(* Range points of the planner's range builder (src/sql/plan/range.go):   *)
(* datums and their order, rangePoint and rangePointLess, and the         *)
(* conversions of a point to an index bound (convertPoint) and to an      *)
(* int64 handle (buildTableRanges).                                       *)
(*                                                                         *)
(* A datum is an integer, ordered the way CompareDatum orders datums:      *)
(* NULL < MinNotNull < every number < MaxValue.  A number is kept in half  *)
(* units (the integer x stands for x/2), so that a constant may lie        *)
(* between two column values, as 1.5 does; column values are the even     *)
(* numbers of the W-bit integer range.                                     *)
(***************************************************************************)
EXTENDS Integers

CONSTANT W     \* the width of a handle in bits (int64 in the code)

\* 2^(W-1): MinInt64 is -Half and MaxInt64 is Half - 1.
Half == 2 ^ (W - 1)

ASSUME WidthAssumption == W \in Nat \ {0} /\ Half \in Nat \ {0}

MinInt == -Half
MaxInt == Half - 1
MinH == 2 * MinInt
MaxH == 2 * MaxInt

\* The datum kinds below and above every number.
NullD == MinH - 2
MinNotNull == MinH - 1
MaxValue == MaxH + 1

Datums == {NullD, MinNotNull, MaxValue} \cup (MinH..MaxH)

\* The values of an integer column: NULL and the W-bit integers.
RowVals == {NullD} \cup {2 * i : i \in MinInt..MaxInt}

\* rangePoint.
Point == [value : Datums, excl : BOOLEAN, start : BOOLEAN]
Pt(v, x, s) == [value |-> v, excl |-> x, start |-> s]

\* fullRange (defined outside src/): [NULL, MaxValue].
fullRange == <<Pt(NullD, FALSE, TRUE), Pt(MaxValue, FALSE, FALSE)>>

\* rangePointEqualValueLess: the order of two points of equal value.
rangePointEqualValueLess(a, b) ==
    CASE a.start /\ b.start -> ~a.excl /\ b.excl
      [] a.start            -> ~a.excl /\ ~b.excl
      [] b.start            -> a.excl \/ b.excl
      [] OTHER              -> a.excl /\ ~b.excl

\* rangePointLess; CompareDatum of two integer or NULL datums never fails.
rangePointLess(a, b) ==
    IF a.value # b.value THEN a.value < b.value
                         ELSE rangePointEqualValueLess(a, b)

\* A value lies on the right side of a start point s, or of an end point e.
AtOrAbove(s, v) == s.value < v \/ (s.value = v /\ ~s.excl)
AtOrBelow(e, v) == v < e.value \/ (v = e.value /\ ~e.excl)

\* The column values a (start, end) pair of points covers.
Covers(s, e, v) == AtOrAbove(s, v) /\ AtOrBelow(e, v)

(***************************************************************************)
(* Conversion of the points to the column type and to handles.  Datum     *)
(* ConvertTo and ToInt64 (outside src/) round a constant that lies         *)
(* between two integers one way or the other; Round[c] is the direction   *)
(* (-1 or 1) the conversion takes for the constant c.                      *)
(***************************************************************************)
Cast(v, Round) == IF v = NullD \/ v % 2 = 0 THEN v ELSE v + Round[v]

\* The datums a converted bound may hold: NULL, an integer, or an infinity.
ColDatums == RowVals \cup {MinNotNull, MaxValue}

\* Mutants: the point is not cast; the point is cast but keeps its excl.
convertPointNoCast(p, Round) == p
convertPointKeepExcl(p, Round) ==
    IF p.value \in {MaxValue, MinNotNull} THEN p
    ELSE [p EXCEPT !.value = Cast(p.value, Round)]

\* convertPoint.  A bound moved by the cast becomes exclusive exactly when
\* it moved away from the range (the four cases of the code).
convertPoint(p, Round) ==
    IF p.value \in {MaxValue, MinNotNull} THEN p
    ELSE LET casted == Cast(p.value, Round)
         IN  IF casted = p.value THEN p
             ELSE Pt(casted,
                     IF p.start THEN p.value > casted ELSE p.value < casted,
                     p.start)

\* Go's int64 arithmetic: the result of ++ or -- wraps around at W bits.
Wrap(x) == ((x - MinInt) % (2 * Half)) + MinInt

\* Datum.ToInt64 of a number, in integer units.
ToInt64(v, Round) == Cast(v, Round) \div 2

\* The start handle of buildTableRanges: NULL and -inf become MinInt64,
\* then the bound moves up when the conversion or exclusion calls for it.
TableStart(p, Round) ==
    LET v == IF p.value \in {NullD, MinNotNull} THEN MinH ELSE p.value
        i == ToInt64(v, Round)
    IN  IF 2 * i < v \/ (2 * i = v /\ p.excl) THEN Wrap(i + 1) ELSE i

\* The end handle: NULL becomes MinInt64 and +inf MaxInt64.
TableEnd(p, Round) ==
    LET v == CASE p.value = NullD    -> MinH
               [] p.value = MaxValue -> MaxH
               [] OTHER              -> p.value
        i == ToInt64(v, Round)
    IN  IF 2 * i > v \/ (2 * i = v /\ p.excl) THEN Wrap(i - 1) ELSE i

=============================================================================
