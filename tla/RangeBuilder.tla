---------------------------- MODULE RangeBuilder ----------------------------
(***************************************************************************)
(* The planner's range builder (src/sql/plan/range.go).                    *)
(*                                                                         *)
(* rangeBuilder.build turns a filter condition on one integer column into  *)
(* a sorted sequence of range points (start, end, start, end, ...).        *)
(* buildIndexRanges turns the points into index ranges, converting each    *)
(* bound to the column type.  buildTableRanges turns them into int64       *)
(* handle ranges.                                                          *)
(*                                                                         *)
(* Data abstraction.  A datum is an integer, ordered the way CompareDatum  *)
(* orders datums: NULL < MinNotNull < every number < MaxValue.  A number   *)
(* is kept in half units (the integer x stands for x/2), so that a         *)
(* constant may lie between two column values, as 1.5 does; column values *)
(* are the even numbers of the W-bit integer range.  A condition is a      *)
(* record tree over one column, with constants from Consts.                *)
(***************************************************************************)
EXTENDS RangePoints, Sequences, SequencesExt

CONSTANTS
    Consts,    \* the numeric constants a condition may hold, in half units
    InMax,     \* the longest IN list
    Depth      \* the deepest nesting of AND and OR

ASSUME RangeAssumption ==
    /\ Consts \subseteq MinH..MaxH
    /\ InMax \in Nat \ {0}
    /\ Depth \in Nat

\* sort.Sort with rangePointSorter.
SortPoints(s) == SortSeq(s, rangePointLess)

\* [-inf, 0) (0, +inf]: a bare column, and IS TRUE (buildFromColumn).
buildFromColumn ==
    <<Pt(MinNotNull, FALSE, TRUE), Pt(0, TRUE, FALSE),
      Pt(0, TRUE, TRUE), Pt(MaxValue, FALSE, FALSE)>>

\* buildFromConstant: NULL and false select nothing, true everything.
buildFromConstant(c) == IF c = NullD \/ c = 0 THEN <<>> ELSE fullRange

\* Mutant: the operator is not mirrored when the constant is on the left.
FlipKeep(op) == op

\* The comparison with the constant on the left, read from the column's side.
Flip(op) == CASE op = "ge" -> "le" [] op = "gt" -> "lt"
              [] op = "lt" -> "gt" [] op = "le" -> "ge"
              [] OTHER -> op

\* buildFormBinOp.
buildFormBinOp(fn, c, constLeft) ==
    LET op == IF constLeft THEN Flip(fn) ELSE fn
    IN  IF c = NullD THEN <<>>
        ELSE CASE op = "eq" -> <<Pt(c, FALSE, TRUE), Pt(c, FALSE, FALSE)>>
               [] op = "ne" -> <<Pt(MinNotNull, FALSE, TRUE), Pt(c, TRUE, FALSE),
                                 Pt(c, TRUE, TRUE), Pt(MaxValue, FALSE, FALSE)>>
               [] op = "lt" -> <<Pt(MinNotNull, FALSE, TRUE), Pt(c, TRUE, FALSE)>>
               [] op = "le" -> <<Pt(MinNotNull, FALSE, TRUE), Pt(c, FALSE, FALSE)>>
               [] op = "gt" -> <<Pt(c, TRUE, TRUE), Pt(MaxValue, FALSE, FALSE)>>
               [] op = "ge" -> <<Pt(c, FALSE, TRUE), Pt(MaxValue, FALSE, FALSE)>>

\* buildFromIsTrue: NOT TRUE is [NULL, NULL] [0, 0].
buildFromIsTrue(isNot) ==
    IF isNot
    THEN <<Pt(NullD, FALSE, TRUE), Pt(NullD, FALSE, FALSE),
           Pt(0, FALSE, TRUE), Pt(0, FALSE, FALSE)>>
    ELSE buildFromColumn

\* buildFromIsFalse: NOT FALSE is [NULL, 0) (0, +inf], FALSE is [0, 0].
buildFromIsFalse(isNot) ==
    IF isNot
    THEN <<Pt(NullD, FALSE, TRUE), Pt(0, TRUE, FALSE),
           Pt(0, TRUE, TRUE), Pt(MaxValue, FALSE, FALSE)>>
    ELSE <<Pt(0, FALSE, TRUE), Pt(0, FALSE, FALSE)>>

\* The sweep of newBuildFromIn that keeps a point only when it alternates
\* with the last point kept.  When nothing is duplicated the sweep keeps
\* every point, which is the code's early return.
DropDuplicates(s) ==
    LET keep(acc, p) == IF acc.isStart = p.start THEN acc
                        ELSE [isStart |-> p.start, out |-> Append(acc.out, p)]
    IN  FoldLeft(keep, [isStart |-> FALSE, out |-> <<>>], s).out

\* Mutant: the duplicate removal is skipped.
newBuildFromInKeepDuplicates(list) ==
    LET pair(c) == <<Pt(c, FALSE, TRUE), Pt(c, FALSE, FALSE)>>
    IN  SortPoints(FoldLeft(LAMBDA acc, c : acc \o pair(c), <<>>, list))

\* newBuildFromIn: a point range per constant of the list, sorted.
newBuildFromIn(list) ==
    LET pair(c) == <<Pt(c, FALSE, TRUE), Pt(c, FALSE, FALSE)>>
    IN  DropDuplicates(SortPoints(FoldLeft(LAMBDA acc, c : acc \o pair(c),
                                           <<>>, list)))

\* Mutant: an end point is kept when the count after leaving it is the
\* required one.
mergeLateEnd(a, b, union) ==
    LET required == IF union THEN 1 ELSE 2
        sweep(acc, p) ==
            IF p.start
            THEN [n |-> acc.n + 1,
                  out |-> IF acc.n + 1 = required THEN Append(acc.out, p)
                                                  ELSE acc.out]
            ELSE [n |-> acc.n - 1,
                  out |-> IF acc.n - 1 = required THEN Append(acc.out, p)
                                                  ELSE acc.out]
    IN  FoldLeft(sweep, [n |-> 0, out |-> <<>>], SortPoints(a \o b)).out

\* merge: a sweep over the sorted points of both inputs that keeps the
\* points where the count of open ranges reaches or leaves 1 (union) or
\* 2 (intersection).
merge(a, b, union) ==
    LET required == IF union THEN 1 ELSE 2
        sweep(acc, p) ==
            IF p.start
            THEN [n |-> acc.n + 1,
                  out |-> IF acc.n + 1 = required THEN Append(acc.out, p)
                                                  ELSE acc.out]
            ELSE [n |-> acc.n - 1,
                  out |-> IF acc.n = required THEN Append(acc.out, p)
                                              ELSE acc.out]
    IN  FoldLeft(sweep, [n |-> 0, out |-> <<>>], SortPoints(a \o b)).out

intersection(a, b) == merge(a, b, FALSE)
union(a, b) == merge(a, b, TRUE)

(***************************************************************************)
(* Conditions: the trees the planner's condition checker passes on to the *)
(* builder, over the one column.                                           *)
(***************************************************************************)
CmpOps == {"eq", "ne", "lt", "le", "gt", "ge"}
ConstDatums == {NullD} \cup Consts

Leaves ==
    {[op |-> "col"]}
    \cup {[op |-> "const", v |-> c] : c \in ConstDatums}
    \cup {[op |-> "cmp", fn |-> f, v |-> c, left |-> l] :
            f \in CmpOps, c \in ConstDatums, l \in BOOLEAN}
    \cup {[op |-> o] : o \in {"istrue", "isfalse", "isnull"}}
    \cup {[op |-> "not", f |-> o] :
            o \in {"istrue", "isfalse", "isnull", "in", "like"}}
    \cup {[op |-> "in", list |-> l] : l \in BoundedSeq(ConstDatums, InMax) \ {<<>>}}

CondsUpTo[d \in 0..Depth] ==
    IF d = 0 THEN Leaves
    ELSE CondsUpTo[d - 1]
         \cup {[op |-> o, a |-> x, b |-> y] :
                 o \in {"and", "or"}, x \in CondsUpTo[d - 1], y \in CondsUpTo[d - 1]}

Conds == CondsUpTo[Depth]

\* buildFromNot: the points of NOT f and whether r.err was set (NOT IN and
\* NOT LIKE are unsupported and give fullRange).
buildFromNot(f) ==
    CASE f = "istrue"  -> [pts |-> buildFromIsTrue(TRUE), err |-> FALSE]
      [] f = "isfalse" -> [pts |-> buildFromIsFalse(TRUE), err |-> FALSE]
      [] f = "isnull"  -> [pts |-> <<Pt(MinNotNull, FALSE, TRUE),
                                   Pt(MaxValue, FALSE, FALSE)>>, err |-> FALSE]
      [] OTHER         -> [pts |-> fullRange, err |-> TRUE]

\* build with buildFromScalarFunc: the points and whether r.err was set.
RECURSIVE build(_)
build(e) ==
    CASE e.op = "col"     -> [pts |-> buildFromColumn, err |-> FALSE]
      [] e.op = "const"   -> [pts |-> buildFromConstant(e.v), err |-> FALSE]
      [] e.op = "cmp"     -> [pts |-> buildFormBinOp(e.fn, e.v, e.left), err |-> FALSE]
      [] e.op = "istrue"  -> [pts |-> buildFromIsTrue(FALSE), err |-> FALSE]
      [] e.op = "isfalse" -> [pts |-> buildFromIsFalse(FALSE), err |-> FALSE]
      [] e.op = "isnull"  -> [pts |-> <<Pt(NullD, FALSE, TRUE), Pt(NullD, FALSE, FALSE)>>,
                              err |-> FALSE]
      [] e.op = "in"      -> [pts |-> newBuildFromIn(e.list), err |-> FALSE]
      [] e.op = "not"     -> buildFromNot(e.f)
      [] e.op \in {"and", "or"} ->
           LET x == build(e.a)
               y == build(e.b)
           IN  [pts |-> merge(x.pts, y.pts, e.op = "or"), err |-> x.err \/ y.err]

(***************************************************************************)
(* The reference: SQL's three-valued truth of a condition on a row whose   *)
(* column holds v ("T", "F" or "U" for unknown), and the rows a filter     *)
(* keeps.                                                                  *)
(***************************************************************************)
Truth(b) == IF b THEN "T" ELSE "F"
Compare(fn, x, y) ==
    CASE fn = "eq" -> x = y  [] fn = "ne" -> x # y
      [] fn = "lt" -> x < y  [] fn = "le" -> x <= y
      [] fn = "gt" -> x > y  [] fn = "ge" -> x >= y

RECURSIVE Eval(_, _)
Eval(e, v) ==
    CASE e.op = "col"     -> IF v = NullD THEN "U" ELSE Truth(v # 0)
      [] e.op = "const"   -> IF e.v = NullD THEN "U" ELSE Truth(e.v # 0)
      [] e.op = "cmp"     -> IF v = NullD \/ e.v = NullD THEN "U"
                             ELSE IF e.left THEN Truth(Compare(e.fn, e.v, v))
                                            ELSE Truth(Compare(e.fn, v, e.v))
      [] e.op = "istrue"  -> Truth(v # NullD /\ v # 0)
      [] e.op = "isfalse" -> Truth(v = 0)
      [] e.op = "isnull"  -> Truth(v = NullD)
      [] e.op = "in"      -> IF v = NullD THEN "U"
                             ELSE IF v \in ToSet(e.list) THEN "T"
                             ELSE IF NullD \in ToSet(e.list) THEN "U" ELSE "F"
      [] e.op = "not"     ->
           LET inner == Eval([op |-> e.f, list |-> <<>>], v)
           IN  IF e.f \in {"in", "like"} THEN "U"
               ELSE IF inner = "T" THEN "F" ELSE "T"
      [] e.op = "and"     -> LET x == Eval(e.a, v)
                                 y == Eval(e.b, v)
                             IN  IF "F" \in {x, y} THEN "F"
                                 ELSE IF x = "T" /\ y = "T" THEN "T" ELSE "U"
      [] e.op = "or"      -> LET x == Eval(e.a, v)
                                 y == Eval(e.b, v)
                             IN  IF "T" \in {x, y} THEN "T"
                                 ELSE IF x = "F" /\ y = "F" THEN "F" ELSE "U"

Selected(e) == {v \in RowVals : Eval(e, v) = "T"}

Denote(pts) ==
    {v \in RowVals : \E i \in 1..(Len(pts) \div 2) : Covers(pts[2 * i - 1], pts[2 * i], v)}

\* The loop shared by buildIndexRanges and appendIndexRange: each (start,
\* end) pair converted to the column type, the pairs that stay non-empty.
ConvertedPairs(pts, Round) ==
    LET conv(i) == convertPoint(pts[i], Round)
        pairs == [i \in 1..(Len(pts) \div 2) |-> [s |-> conv(2 * i - 1), e |-> conv(2 * i)]]
    IN  SelectSeq(pairs, LAMBDA q : rangePointLess(q.s, q.e))

\* buildIndexRanges: an IndexRange with one-column bounds per pair.
buildIndexRanges(pts, Round) ==
    LET kept == ConvertedPairs(pts, Round)
    IN  [k \in DOMAIN kept |->
           [LowVal |-> <<kept[k].s.value>>, LowExclude |-> kept[k].s.excl,
            HighVal |-> <<kept[k].e.value>>, HighExclude |-> kept[k].e.excl]]

\* IndexRange.IsPoint (defined outside src/): equal finite bounds, both
\* inclusive.
IsPoint(r) ==
    /\ Len(r.LowVal) = Len(r.HighVal)
    /\ \A i \in DOMAIN r.LowVal :
          /\ r.LowVal[i] # MinNotNull
          /\ r.HighVal[i] # MaxValue
          /\ r.LowVal[i] = r.HighVal[i]
    /\ ~r.LowExclude /\ ~r.HighExclude

\* Mutants: the exclusion flags of the appended column swapped; the second
\* column's points converted without adjusting their exclusion.
appendIndexRangeSwapped(origin, pts, Round) ==
    LET kept == ConvertedPairs(pts, Round)
    IN  [k \in DOMAIN kept |->
           [LowVal |-> Append(origin.LowVal, kept[k].s.value), LowExclude |-> kept[k].e.excl,
            HighVal |-> Append(origin.HighVal, kept[k].e.value), HighExclude |-> kept[k].s.excl]]
appendIndexRangeKeepExcl(origin, pts, Round) ==
    LET conv(i) == convertPointKeepExcl(pts[i], Round)
        pairs == [i \in 1..(Len(pts) \div 2) |-> [s |-> conv(2 * i - 1), e |-> conv(2 * i)]]
        kept == SelectSeq(pairs, LAMBDA q : rangePointLess(q.s, q.e))
    IN  [k \in DOMAIN kept |->
           [LowVal |-> Append(origin.LowVal, kept[k].s.value), LowExclude |-> kept[k].s.excl,
            HighVal |-> Append(origin.HighVal, kept[k].e.value), HighExclude |-> kept[k].e.excl]]

\* appendIndexRange: the point range origin extended by each non-empty
\* converted range of the next column.
appendIndexRange(origin, pts, Round) ==
    LET kept == ConvertedPairs(pts, Round)
    IN  [k \in DOMAIN kept |->
           [LowVal |-> Append(origin.LowVal, kept[k].s.value), LowExclude |-> kept[k].s.excl,
            HighVal |-> Append(origin.HighVal, kept[k].e.value), HighExclude |-> kept[k].e.excl]]

\* appendIndexRanges: point ranges are extended, the others kept as they are.
appendIndexRanges(origin, pts, Round) ==
    FoldLeft(LAMBDA acc, o : acc \o (IF IsPoint(o) THEN appendIndexRange(o, pts, Round)
                                                    ELSE <<o>>),
             <<>>, origin)

\* buildTableRanges: the handle ranges with start <= end.
buildTableRanges(pts, Round) ==
    LET pairs == [i \in 1..(Len(pts) \div 2) |->
                    [LowVal |-> TableStart(pts[2 * i - 1], Round),
                     HighVal |-> TableEnd(pts[2 * i], Round)]]
    IN  SelectSeq(pairs, LAMBDA r : r.LowVal <= r.HighVal)

\* The index keys (one column, or a pair of columns in order) an IndexRange
\* selects: a key is above the low bound when it is above it at the first
\* column where they differ, or equal to it on all of the bound's columns
\* and the bound is inclusive; a one-column bound covers every value of the
\* second column.
AboveLow(r, t) ==
    \/ \E k \in DOMAIN r.LowVal :
          (\A j \in 1..(k - 1) : r.LowVal[j] = t[j]) /\ r.LowVal[k] < t[k]
    \/ (\A j \in DOMAIN r.LowVal : r.LowVal[j] = t[j]) /\ ~r.LowExclude
BelowHigh(r, t) ==
    \/ \E k \in DOMAIN r.HighVal :
          (\A j \in 1..(k - 1) : r.HighVal[j] = t[j]) /\ t[k] < r.HighVal[k]
    \/ (\A j \in DOMAIN r.HighVal : r.HighVal[j] = t[j]) /\ ~r.HighExclude

\* The column values, and the pairs of values, the ranges select.
IndexDenote(rs) ==
    {v \in RowVals : \E i \in DOMAIN rs : AboveLow(rs[i], <<v>>) /\ BelowHigh(rs[i], <<v>>)}
IndexDenote2(rs) ==
    {t \in RowVals \X RowVals : \E i \in DOMAIN rs : AboveLow(rs[i], t) /\ BelowHigh(rs[i], t)}
TableDenote(rs) ==
    {2 * h : h \in {k \in MinInt..MaxInt : \E i \in DOMAIN rs :
                      rs[i].LowVal <= k /\ k <= rs[i].HighVal}}

(***************************************************************************)
(* One condition goes through the builder, then through one of the two    *)
(* conversions; the index ranges of a leaf condition may then be extended *)
(* by a leaf condition on a second index column (cond2, ranges2).          *)
(***************************************************************************)
VARIABLES cond, points, err, ranges, phase, cond2, ranges2
vars == <<cond, points, err, ranges, phase, cond2, ranges2>>

NoCond == [op |-> "none"]

Rounding == [Consts -> {-1, 1}]

Init ==
    /\ cond \in Conds
    /\ points = <<>>
    /\ err = FALSE
    /\ ranges = <<>>
    /\ phase = "init"
    /\ cond2 = NoCond
    /\ ranges2 = <<>>

\* rangeBuilder.build on the condition, recording r.err.
Build ==
    /\ phase = "init"
    /\ points' = build(cond).pts
    /\ err' = build(cond).err
    /\ phase' = "built"
    /\ UNCHANGED <<cond, ranges, cond2, ranges2>>

\* buildIndexRanges on an index over the column.
IndexRanges ==
    /\ phase = "built"
    /\ \E rnd \in Rounding : ranges' = buildIndexRanges(points, rnd)
    /\ phase' = "index"
    /\ UNCHANGED <<cond, points, err, cond2, ranges2>>

\* buildTableRanges on the integer handle column.
TableRanges ==
    /\ phase = "built"
    /\ \E rnd \in Rounding : ranges' = buildTableRanges(points, rnd)
    /\ phase' = "table"
    /\ UNCHANGED <<cond, points, err, cond2, ranges2>>

\* appendIndexRanges with the points of a condition on the second column,
\* built by the same rangeBuilder (so r.err accumulates).  Both conditions
\* are leaves, to keep the product of the two conditions small.
AppendRanges ==
    /\ phase = "index"
    /\ cond \in Leaves
    /\ \E c2 \in Leaves, rnd \in Rounding :
          /\ cond2' = c2
          /\ ranges2' = appendIndexRanges(ranges, build(c2).pts, rnd)
          /\ err' = (err \/ build(c2).err)
    /\ phase' = "append"
    /\ UNCHANGED <<cond, points, ranges>>

Next == Build \/ IndexRanges \/ TableRanges \/ AppendRanges

Spec == Init /\ [][Next]_vars

(***************************************************************************)
(* Properties.                                                             *)
(***************************************************************************)

\* Every point is a datum and every bound a converted range carries is of
\* the column type: convertPoint casts each finite bound to an integer.
TypeOK ==
    /\ cond \in Conds
    /\ \A i \in DOMAIN points : points[i] \in Point
    /\ err \in BOOLEAN
    /\ phase \in {"init", "built", "index", "table", "append"}
    /\ cond2 \in Leaves \cup {NoCond}
    /\ phase \in {"index", "append"} =>
         \A i \in DOMAIN ranges : ranges[i].LowVal \in Seq(ColDatums)
                                 /\ ranges[i].HighVal \in Seq(ColDatums)
    /\ \A i \in DOMAIN ranges2 : ranges2[i].LowVal \in Seq(ColDatums)
                              /\ ranges2[i].HighVal \in Seq(ColDatums)
    /\ phase = "table" =>
         \A i \in DOMAIN ranges : {ranges[i].LowVal, ranges[i].HighVal} \subseteq MinInt..MaxInt

\* What merge, buildIndexRanges and buildTableRanges take for granted of
\* build's result: start and end points alternate, starting with a start,
\* in strictly increasing rangePointLess order (the IN list's duplicates
\* removed, merge's output never overlapping).
WellFormed ==
    phase # "init" =>
      /\ Len(points) % 2 = 0
      /\ \A i \in DOMAIN points : points[i].start = (i % 2 = 1)
      /\ \A i \in 1..(Len(points) - 1) : rangePointLess(points[i], points[i + 1])

\* AND builds the intersection and OR the union of what its two operands
\* select: the counting sweep of merge, with the tie order of
\* rangePointEqualValueLess, neither loses nor adds a value.
MergeExact ==
    (phase # "init" /\ cond.op \in {"and", "or"}) =>
      LET x == Denote(build(cond.a).pts)
          y == Denote(build(cond.b).pts)
      IN  Denote(points) = IF cond.op = "or" THEN x \cup y ELSE x \cap y

\* No row the filter keeps falls outside the points build returns (the
\* ranges are never too narrow, whatever r.err says).
BuildSound ==
    phase # "init" => Selected(cond) \subseteq Denote(points)

\* The points select exactly the rows the condition keeps (checked when
\* r.err is not set, so that the condition is used as an access condition).
BuildExact ==
    (phase # "init" /\ ~err) => Denote(points) = Selected(cond)

\* Converting the points to index ranges, whichever way ConvertTo rounds a
\* constant, neither loses nor adds a column value.
IndexRangesExact ==
    phase \in {"index", "append"} => IndexDenote(ranges) = Denote(points)

\* The handle ranges select exactly the non-NULL values the points cover.
TableRangesExact ==
    phase = "table" => TableDenote(ranges) = Denote(points) \ {NullD}

\* Extending the point ranges of the first index column by the ranges of
\* the second never loses a row that both conditions keep.
AppendSound ==
    phase = "append" => (Selected(cond) \X Selected(cond2)) \subseteq IndexDenote2(ranges2)

\* When every first-column range is a point, the two-column ranges select
\* exactly the pairs of a first-column value in the ranges and a
\* second-column value the second condition's points cover.
AppendExact ==
    (phase = "append" /\ \A i \in DOMAIN ranges : IsPoint(ranges[i])) =>
      IndexDenote2(ranges2) = IndexDenote(ranges) \X Denote(build(cond2).pts)
=============================================================================
