-------------------------- MODULE FileSortRefinement --------------------------
(***************************************************************************)
(* The proof that FileSort, with no I/O failure and no uncomparable datum, *)
(* implements the abstract Sorter: every step of Input, Output and Close  *)
(* is a Sorter step or a stutter under the mapping `Abstract` of FileSort. *)
(***************************************************************************)
EXTENDS FileSortProofs, FiniteSetTheorems

(* The rows held in the runs fs. *)
RunRows(fs) == UNION {RowsOf(fs[i]) : i \in DOMAIN fs}

(* No row is held twice, at two places of the runs fs. *)
RunsDistinct(fs) ==
    \A i1, i2 \in DOMAIN fs : \A j1 \in DOMAIN fs[i1], j2 \in DOMAIN fs[i2] :
        fs[i1][j1] = fs[i2][j2] => i1 = i2 /\ j1 = j2

(* The rows of the merge heap H. *)
HeapVals(H) == {m.value : m \in H}

(* The rows the descriptors F have not read yet from the runs fs. *)
Unread(F, fs) ==
    UNION {{fs[i][j] : j \in (F[i].pos + 1)..Len(fs[i])} : i \in DOMAIN F}

(* Every handle accepted so far was drawn by an earlier Input call. *)
HandlesBelow == \A r \in accepted : r.handle <= nIn

(* Until Close, every descriptor opened is still open. *)
AllOpen == ~closed => \A i \in DOMAIN fds : fds[i].open

(* Before the first Output: nothing is returned, and the accepted rows    *)
(* are those of the buffer and of the sorted runs, each held once.        *)
PreFetch ==
    (~fetched /\ ~closed) =>
        /\ out = <<>> /\ cursor = 0
        /\ accepted = RowsOf(buf) \cup RunRows(files)
        /\ IsInjective(buf) /\ RunsDistinct(files)
        /\ RowsOf(buf) \cap RunRows(files) = {}
        /\ \A i \in DOMAIN files : InOrder(files[i])

(* On the in-memory path, the sorted buffer holds every accepted row once *)
(* and the rows returned are its first `cursor` rows.                     *)
InMemory ==
    (fetched /\ ~closed /\ files = <<>>) =>
        /\ InOrder(buf) /\ IsInjective(buf)
        /\ accepted = RowsOf(buf)
        /\ cursor <= Len(buf)
        /\ Len(out) = cursor
        /\ \A i \in 1..cursor : out[i] = buf[i]

(* The k-way merge state heap H, descriptors F over sorted runs fs: the    *)
(* heap holds, for some descriptors, the last row each read; a descriptor *)
(* with rows left has its item; the rows accepted (acc) and not returned  *)
(* (o) are those of the heap and the unread ones.                         *)
MergeAt(H, F, fs, acc, o) ==
    /\ DOMAIN F = DOMAIN fs
    /\ \A i \in DOMAIN F : F[i].file = i /\ F[i].pos \in 1..Len(fs[i])
    /\ \A i \in DOMAIN fs : InOrder(fs[i])
    /\ RunsDistinct(fs)
    /\ \A m \in H : m.index \in DOMAIN F /\ m.value = fs[m.index][F[m.index].pos]
    /\ UniqueIdx(H)
    /\ \A i \in DOMAIN F : F[i].pos < Len(fs[i]) => \E m \in H : m.index = i
    /\ acc \ RowsOf(o) = HeapVals(H) \cup Unread(F, fs)

Merging ==
    (fetched /\ ~closed /\ files # <<>>) => MergeAt(heap, fds, files, accepted, out)

(* An end of data leaves the sorter open with every accepted row returned. *)
EodDone == ret = "eod" => ~closed /\ accepted \subseteq RowsOf(out)

(* The invariant the refinement rests on. *)
RInv == PInv /\ HandlesBelow /\ AllOpen /\ PreFetch /\ InMemory /\ Merging /\ EodDone

-----------------------------------------------------------------------------
(* With no uncomparable datum, lessThan is a strict total order on keys:   *)
(* the lexicographic order of the key columns, each column reversed when   *)
(* it sorts descending.                                                   *)

LEMMA KeyFacts ==
    ASSUME NEW a \in Key
    PROVE  /\ a \in [1..KeySize -> Nat] /\ KeySize \in Nat
           /\ ByDesc \in [1..KeySize -> BOOLEAN]
BY FileSortAssumption DEF Key

LEMMA LessIrrefl ==
    ASSUME BadVals = {}, NEW a \in Key
    PROVE  ~lessThan(a, a)
<1>1. a \in [1..KeySize -> Nat]
  BY KeyFacts
<1>. QED
  BY <1>1 DEF lessThan

LEMMA LessTrans ==
    ASSUME BadVals = {}, NEW a \in Key, NEW b \in Key, NEW c \in Key,
           lessThan(a, b), lessThan(b, c)
    PROVE  lessThan(a, c)
<1>1. a \in [1..KeySize -> Nat] /\ b \in [1..KeySize -> Nat]
      /\ c \in [1..KeySize -> Nat] /\ KeySize \in Nat
      /\ ByDesc \in [1..KeySize -> BOOLEAN]
  BY KeyFacts
<1>2. \A k \in 1..KeySize :
        ~ColFails(a, b, k) /\ ~ColFails(b, c, k) /\ ~ColFails(a, c, k)
  BY DEF ColFails
<1>3. PICK k1 \in 1..KeySize :
        /\ \A j \in 1..(k1 - 1) : a[j] = b[j]
        /\ IF ByDesc[k1] THEN b[k1] < a[k1] ELSE a[k1] < b[k1]
  BY <1>2 DEF lessThan, TiedBefore
<1>4. PICK k2 \in 1..KeySize :
        /\ \A j \in 1..(k2 - 1) : b[j] = c[j]
        /\ IF ByDesc[k2] THEN c[k2] < b[k2] ELSE b[k2] < c[k2]
  BY <1>2 DEF lessThan, TiedBefore
<1>5. \E k \in 1..KeySize :
        /\ \A j \in 1..(k - 1) : a[j] = c[j]
        /\ IF ByDesc[k] THEN c[k] < a[k] ELSE a[k] < c[k]
  <2>1. CASE k1 < k2
    BY <1>1, <1>3, <1>4, <2>1
  <2>2. CASE k1 = k2
    <3>1. a[k1] \in Nat /\ b[k1] \in Nat /\ c[k1] \in Nat
      BY <1>1
    <3>2. IF ByDesc[k1] THEN c[k1] < b[k1] ELSE b[k1] < c[k1]
      BY <1>4, <2>2
    <3>3. IF ByDesc[k1] THEN c[k1] < a[k1] ELSE a[k1] < c[k1]
      BY <1>3, <3>1, <3>2
    <3>4. \A j \in 1..(k1 - 1) : a[j] = c[j]
      BY <1>3, <1>4, <2>2
    <3>. QED
      BY <3>3, <3>4
  <2>3. CASE k2 < k1
    BY <1>1, <1>3, <1>4, <2>3
  <2>. QED
    BY <1>1, <2>1, <2>2, <2>3
<1>6. PICK k \in 1..KeySize :
        /\ \A j \in 1..(k - 1) : a[j] = c[j]
        /\ IF ByDesc[k] THEN c[k] < a[k] ELSE a[k] < c[k]
  BY <1>5
<1>7. TiedBefore(a, c, k) /\ ~ColFails(a, c, k)
  BY <1>1, <1>2, <1>6 DEF TiedBefore
<1>. QED
  BY <1>6, <1>7 DEF lessThan

LEMMA LessTotal ==
    ASSUME BadVals = {}, NEW a \in Key, NEW b \in Key, a # b
    PROVE  lessThan(a, b) \/ lessThan(b, a)
<1>1. a \in [1..KeySize -> Nat] /\ b \in [1..KeySize -> Nat] /\ KeySize \in Nat
      /\ ByDesc \in [1..KeySize -> BOOLEAN]
  BY KeyFacts
<1>. DEFINE T == {k \in 1..KeySize : a[k] # b[k]}
<1>2. T \subseteq Nat /\ T # {}
  BY <1>1
<1>3. PICK x \in T : \A y \in T : ~(<<y, x>> \in OpToRel(<, Nat))
  BY <1>2, WFMin, NatLessThanWellFounded
<1>4. \A y \in T : ~(y < x)
  BY <1>2, <1>3 DEF OpToRel
<1>9. x \in 1..KeySize /\ a[x] # b[x]
  OBVIOUS
<1>5. \A j \in 1..(x - 1) : a[j] = b[j]
  BY <1>1, <1>4, <1>9
<1>6. \A k \in 1..KeySize : ~ColFails(a, b, k) /\ ~ColFails(b, a, k)
  BY DEF ColFails
<1>7. CASE IF ByDesc[x] THEN b[x] < a[x] ELSE a[x] < b[x]
  <2>1. TiedBefore(a, b, x) /\ ~ColFails(a, b, x)
    BY <1>1, <1>5, <1>6, <1>9 DEF TiedBefore
  <2>. QED
    BY <1>7, <1>9, <2>1 DEF lessThan
<1>8. CASE IF ByDesc[x] THEN a[x] < b[x] ELSE b[x] < a[x]
  <2>1. TiedBefore(b, a, x) /\ ~ColFails(b, a, x)
    BY <1>1, <1>5, <1>6, <1>9 DEF TiedBefore
  <2>. QED
    BY <1>8, <1>9, <2>1 DEF lessThan
<1>. QED
  BY <1>1, <1>7, <1>8, <1>9

(* Not being less is transitive: what the merge needs to show that the    *)
(* least heap item is also below every unread row.                        *)
LEMMA NotLessTrans ==
    ASSUME BadVals = {}, NEW a \in Key, NEW b \in Key, NEW c \in Key,
           ~lessThan(a, b), ~lessThan(b, c)
    PROVE  ~lessThan(a, c)
<1>. SUFFICES ASSUME lessThan(a, c) PROVE FALSE
  OBVIOUS
<1>1. CASE a = b
  BY <1>1
<1>2. CASE a # b
  <2>1. lessThan(b, a)
    BY <1>2, LessTotal
  <2>. QED
    BY <2>1, LessTrans
<1>. QED
  BY <1>1, <1>2

-----------------------------------------------------------------------------
(* Rows of sequences and of the merge state. *)

LEMMA RowsOfAppend ==
    ASSUME NEW S, NEW s \in Seq(S), NEW x
    PROVE  RowsOf(Append(s, x)) = RowsOf(s) \cup {x}
<1>1. Len(s) \in Nat /\ DOMAIN s = 1..Len(s)
  BY LenProperties
<1>2. DOMAIN Append(s, x) = 1..(Len(s) + 1)
      /\ \A i \in 1..Len(s) : Append(s, x)[i] = s[i]
      /\ Append(s, x)[Len(s) + 1] = x
  BY <1>1, AppendProperties
<1>. QED
  BY <1>1, <1>2 DEF RowsOf

LEMMA RunRowsMem ==
    ASSUME NEW fs, NEW z
    PROVE  z \in RunRows(fs) <=> \E i \in DOMAIN fs : z \in RowsOf(fs[i])
BY DEF RunRows

LEMMA UnreadMem ==
    ASSUME NEW F, NEW fs, NEW z
    PROVE  z \in Unread(F, fs) <=>
             \E k \in DOMAIN F : \E j \in (F[k].pos + 1)..Len(fs[k]) : z = fs[k][j]
BY DEF Unread

(* The item heap.Pop returns is below every row not yet returned: below   *)
(* the other items by the heap order, and below every unread row of a run *)
(* because that run is sorted and its last read row is still in the heap. *)
LEMMA PopMin ==
    ASSUME BadVals = {}, NEW fs \in Seq(Seq(Row)), NEW H, NEW F,
           NEW acc, NEW o, MergeAt(H, F, fs, acc, o),
           NEW m \in H, IsHeapMin(m, H)
    PROVE  \A x \in HeapVals(H) \cup Unread(F, fs) : ~RowLess(x, m.value)
<1>1. m.index \in DOMAIN F /\ m.value = fs[m.index][F[m.index].pos]
  BY DEF MergeAt
<1>2. DOMAIN F = DOMAIN fs /\ DOMAIN fs = 1..Len(fs)
  <2>1. Len(fs) \in Nat /\ DOMAIN fs = 1..Len(fs)
    BY LenProperties
  <2>2. DOMAIN F = DOMAIN fs
    BY DEF MergeAt
  <2>. QED
    BY <2>1, <2>2
<1>3. \A i \in DOMAIN fs : fs[i] \in Seq(Row) /\ DOMAIN fs[i] = 1..Len(fs[i])
  BY ElementOfSeq, LenProperties
<1>4. m.value \in Row
  <2>1. F[m.index].pos \in 1..Len(fs[m.index])
    BY <1>1 DEF MergeAt
  <2>. QED
    BY <1>1, <1>2, <1>3, <2>1, ElementOfSeq
<1>5. ASSUME NEW x \in HeapVals(H) PROVE ~RowLess(x, m.value)
  BY <1>5 DEF HeapVals, IsHeapMin, RowLess
<1>6. ASSUME NEW x \in Unread(F, fs) PROVE ~RowLess(x, m.value)
  <2>1. PICK k \in DOMAIN F : \E j \in (F[k].pos + 1)..Len(fs[k]) : x = fs[k][j]
    BY <1>6, UnreadMem
  <2>2. PICK j \in (F[k].pos + 1)..Len(fs[k]) : x = fs[k][j]
    BY <2>1
  <2>3. F[k].pos \in 1..Len(fs[k]) /\ F[k].pos < Len(fs[k]) /\ j \in 1..Len(fs[k])
    BY <1>2, <1>3, <2>2 DEF MergeAt
  <2>4. PICK y \in H : y.index = k
    BY <2>3 DEF MergeAt
  <2>5. y.value = fs[k][F[k].pos]
    BY <2>4 DEF MergeAt
  <2>6. ~lessThan(fs[k][j].key, fs[k][F[k].pos].key)
    <3>1. InOrder(fs[k])
      BY <1>2 DEF MergeAt
    <3>2. F[k].pos < j /\ F[k].pos \in 1..Len(fs[k]) /\ j \in 1..Len(fs[k])
      BY <2>2, <2>3
    <3>. QED
      BY <3>1, <3>2, Zenon DEF InOrder
  <2>7. ~lessThan(y.value.key, m.value.key)
    BY <2>4 DEF IsHeapMin
  <2>8. fs[k][j] \in Row /\ fs[k][F[k].pos] \in Row
    BY <1>2, <1>3, <2>3, ElementOfSeq
  <2>9. fs[k][j].key \in Key /\ fs[k][F[k].pos].key \in Key /\ m.value.key \in Key
    BY <1>4, <2>8 DEF Row
  <2>. QED
    BY <2>2, <2>5, <2>6, <2>7, <2>9, NotLessTrans DEF RowLess
<1>. QED
  BY <1>5, <1>6

(* With no failure and every descriptor open, heap.Pop of item m returns   *)
(* m's row, and either m's run is exhausted and m leaves the heap, or its  *)
(* next row replaces m and its descriptor moves on one row.               *)
LEMMA PopItemCases ==
    ASSUME MaxFail = 0, BadVals = {}, fails = 0,
           NEW H, NEW F, NEW fs, NEW m, F[m.index].open,
           PopItem(m, H, F, fs, FALSE)
    PROVE  /\ IsHeapMin(m, H)
           /\ out' = Append(out, m.value)
           /\ \/ /\ ~HasNext(F[m.index], fs)
                 /\ heap' = H \ {m} /\ fds' = F
              \/ /\ HasNext(F[m.index], fs)
                 /\ heap' = (H \ {m}) \cup
                            {[index |-> m.index, value |-> NextOf(F[m.index], fs)]}
                 /\ fds' = [F EXCEPT ![m.index] = Bumped(F[m.index])]
<1>1. ~HeapMayFail(H)
      /\ ~HeapMayFail((H \ {m}) \cup
                      {[index |-> m.index, value |-> NextOf(F[m.index], fs)]})
  BY NoCompareFail
<1>2. ~(fails < MaxFail)
  OBVIOUS
<1>. QED
  BY <1>1, <1>2, Zenon DEF PopItem

(* The row of heap item m is held nowhere else in the merge state: not by *)
(* another item, and not among the unread rows.                           *)
LEMMA PoppedOnce ==
    ASSUME NEW fs \in Seq(Seq(Row)), NEW H, NEW F, NEW acc, NEW o,
           MergeAt(H, F, fs, acc, o), NEW m \in H
    PROVE  /\ m.value \notin HeapVals(H \ {m})
           /\ m.value \notin Unread(F, fs)
           /\ HeapVals(H) = HeapVals(H \ {m}) \cup {m.value}
<1>1. Len(fs) \in Nat /\ DOMAIN fs = 1..Len(fs) /\ DOMAIN F = DOMAIN fs
  BY LenProperties DEF MergeAt
<1>2. \A i \in DOMAIN fs : DOMAIN fs[i] = 1..Len(fs[i]) /\ Len(fs[i]) \in Nat
  BY ElementOfSeq, LenProperties
<1>3. \A y \in H : /\ y.index \in DOMAIN F
                   /\ F[y.index].pos \in 1..Len(fs[y.index])
                   /\ y.value = fs[y.index][F[y.index].pos]
  BY DEF MergeAt
<1>4. m.value \notin HeapVals(H \ {m})
  <2>. SUFFICES ASSUME NEW y \in H \ {m}, y.value = m.value PROVE FALSE
    BY DEF HeapVals
  <2>0. /\ y.index \in DOMAIN fs /\ m.index \in DOMAIN fs
        /\ F[y.index].pos \in DOMAIN fs[y.index]
        /\ F[m.index].pos \in DOMAIN fs[m.index]
        /\ fs[y.index][F[y.index].pos] = fs[m.index][F[m.index].pos]
    BY <1>1, <1>2, <1>3
  <2>1. y.index = m.index
    <3>1. RunsDistinct(fs)
      BY DEF MergeAt
    <3>. QED
      BY <2>0, <3>1 DEF RunsDistinct
  <2>. QED
    BY <2>1 DEF MergeAt, UniqueIdx
<1>5. m.value \notin Unread(F, fs)
  <2>. SUFFICES ASSUME NEW k \in DOMAIN F, NEW j \in (F[k].pos + 1)..Len(fs[k]),
                       m.value = fs[k][j]
                PROVE  FALSE
    BY UnreadMem, SMTT(30)
  <2>1. F[k].pos \in 1..Len(fs[k]) /\ j \in DOMAIN fs[k]
    BY <1>1, <1>2 DEF MergeAt
  <2>2. k = m.index /\ j = F[m.index].pos
    <3>1. RunsDistinct(fs)
      BY DEF MergeAt
    <3>2. /\ k \in DOMAIN fs /\ m.index \in DOMAIN fs
          /\ F[m.index].pos \in DOMAIN fs[m.index]
          /\ fs[k][j] = fs[m.index][F[m.index].pos]
      BY <1>1, <1>2, <1>3, <2>1
    <3>. QED
      BY <2>1, <3>1, <3>2 DEF RunsDistinct
  <2>. QED
    BY <2>1, <2>2
<1>. QED
  BY <1>4, <1>5 DEF HeapVals

(* G is the descriptor list F with descriptor i moved on one row. *)
BumpedOn(G, F, i) ==
    /\ DOMAIN G = DOMAIN F
    /\ G[i].pos = F[i].pos + 1
    /\ \A k \in DOMAIN F \ {i} : G[k] = F[k]

(* A read moving descriptor i on one row takes that row out of the unread *)
(* rows and nothing else.                                                 *)
LEMMA UnreadBump ==
    ASSUME NEW fs \in Seq(Seq(Row)), NEW F, NEW d \in DOMAIN F,
           F[d].pos \in Nat, F[d].pos < Len(fs[d]),
           NEW G, BumpedOn(G, F, d)
    PROVE  Unread(F, fs) = Unread(G, fs) \cup {fs[d][F[d].pos + 1]}
<1>1. DOMAIN G = DOMAIN F /\ G[d].pos = F[d].pos + 1
      /\ \A k \in DOMAIN F \ {d} : G[k] = F[k]
  BY DEF BumpedOn
<1>2. Len(fs[d]) \in Nat
  <2>1. CASE d \in DOMAIN fs
    BY <2>1, ElementOfSeq, LenProperties
  <2>2. CASE d \notin DOMAIN fs
    BY <2>2
  <2>. QED
    BY <2>1, <2>2
<1>3. ASSUME NEW z \in Unread(F, fs), z # fs[d][F[d].pos + 1]
      PROVE  z \in Unread(G, fs)
  <2>0. z \in Unread(F, fs) <=>
          \E k \in DOMAIN F : \E j \in (F[k].pos + 1)..Len(fs[k]) : z = fs[k][j]
    BY UnreadMem, SMTT(30)
  <2>1. PICK k \in DOMAIN F : \E j \in (F[k].pos + 1)..Len(fs[k]) : z = fs[k][j]
    BY <1>3, <2>0
  <2>2. PICK j \in (F[k].pos + 1)..Len(fs[k]) : z = fs[k][j]
    BY <2>1
  <2>3. CASE k = d
    <3>1. j \in (G[d].pos + 1)..Len(fs[d])
      BY <1>1, <1>2, <1>3, <2>2, <2>3
    <3>. QED
      BY <1>1, <2>2, <2>3, <3>1, UnreadMem
  <2>4. CASE k # d
    BY <1>1, <2>2, <2>4, UnreadMem
  <2>. QED
    BY <2>3, <2>4
<1>4. ASSUME NEW z \in Unread(G, fs) PROVE z \in Unread(F, fs)
  <2>0. z \in Unread(G, fs) <=>
          \E k \in DOMAIN G : \E j \in (G[k].pos + 1)..Len(fs[k]) : z = fs[k][j]
    BY UnreadMem, SMTT(30)
  <2>1. PICK k \in DOMAIN G : \E j \in (G[k].pos + 1)..Len(fs[k]) : z = fs[k][j]
    BY <1>4, <2>0
  <2>2. PICK j \in (G[k].pos + 1)..Len(fs[k]) : z = fs[k][j]
    BY <2>1
  <2>3. CASE k = d
    <3>1. j \in (F[d].pos + 1)..Len(fs[d])
      BY <1>1, <1>2, <2>2, <2>3
    <3>. QED
      BY <1>1, <2>2, <2>3, <3>1, UnreadMem
  <2>4. CASE k # d
    BY <1>1, <2>2, <2>4, UnreadMem
  <2>. QED
    BY <2>3, <2>4
<1>5. fs[d][F[d].pos + 1] \in Unread(F, fs)
  <2>1. F[d].pos + 1 \in (F[d].pos + 1)..Len(fs[d])
    BY <1>2
  <2>2. \E k \in DOMAIN F : \E j \in (F[k].pos + 1)..Len(fs[k]) :
           fs[d][F[d].pos + 1] = fs[k][j]
    BY <2>1
  <2>. QED
    BY <2>2, UnreadMem
<1>. QED
  BY <1>3, <1>4, <1>5

(* heap.Pop of item m whose run is exhausted: m leaves the heap, and the   *)
(* merge state stays consistent with m's row returned.                    *)
LEMMA PopExhausted ==
    ASSUME NEW fs \in Seq(Seq(Row)), NEW H, NEW F, NEW acc, NEW o \in Seq(Row),
           MergeAt(H, F, fs, acc, o), NEW m \in H,
           ~(F[m.index].pos < Len(fs[m.index]))
    PROVE  MergeAt(H \ {m}, F, fs, acc, Append(o, m.value))
<1>1. \A y \in H \ {m} : y.index # m.index
  BY DEF MergeAt, UniqueIdx
<1>2. \A k \in DOMAIN F : F[k].pos < Len(fs[k]) => \E y \in H \ {m} : y.index = k
  BY <1>1 DEF MergeAt
<1>3. UniqueIdx(H \ {m})
  BY DEF MergeAt, UniqueIdx
<1>4. acc \ RowsOf(Append(o, m.value)) = HeapVals(H \ {m}) \cup Unread(F, fs)
  <2>1. RowsOf(Append(o, m.value)) = RowsOf(o) \cup {m.value}
    BY RowsOfAppend
  <2>2. /\ m.value \notin HeapVals(H \ {m})
        /\ m.value \notin Unread(F, fs)
        /\ HeapVals(H) = HeapVals(H \ {m}) \cup {m.value}
    BY PoppedOnce
  <2>3. acc \ RowsOf(o) = HeapVals(H) \cup Unread(F, fs)
    BY DEF MergeAt
  <2>. QED
    BY <2>1, <2>2, <2>3
<1>. QED
  BY <1>2, <1>3, <1>4 DEF MergeAt

(* heap.Pop of item m whose run has rows left: the run's next row replaces *)
(* m in the heap, the descriptor G is m's descriptor moved on one row, and *)
(* the merge state stays consistent with m's row returned.                *)
LEMMA PopRefill ==
    ASSUME NEW fs \in Seq(Seq(Row)), NEW H, NEW F, NEW acc, NEW o \in Seq(Row),
           MergeAt(H, F, fs, acc, o), NEW m \in H,
           F[m.index].pos < Len(fs[m.index]),
           NEW G, DOMAIN G = DOMAIN F, G[m.index] = Bumped(F[m.index]),
           \A k \in DOMAIN F \ {m.index} : G[k] = F[k]
    PROVE  MergeAt((H \ {m}) \cup
                     {[index |-> m.index, value |-> fs[m.index][F[m.index].pos + 1]]},
                   G, fs, acc, Append(o, m.value))
<1>. DEFINE i == m.index
            p == F[i].pos
            w == fs[i][p + 1]
            x == [index |-> i, value |-> w]
            H1 == H \ {m}
            H2 == H1 \cup {x}
<1>1. /\ i \in DOMAIN F /\ DOMAIN F = DOMAIN fs /\ DOMAIN fs = 1..Len(fs)
      /\ p \in 1..Len(fs[i]) /\ p < Len(fs[i]) /\ Len(fs[i]) \in Nat
      /\ F[i].file = i
  <2>1. Len(fs) \in Nat /\ DOMAIN fs = 1..Len(fs)
    BY LenProperties
  <2>2. i \in DOMAIN F /\ DOMAIN F = DOMAIN fs /\ p \in 1..Len(fs[i]) /\ F[i].file = i
    BY DEF MergeAt
  <2>3. Len(fs[i]) \in Nat
    BY <2>1, <2>2, ElementOfSeq, LenProperties
  <2>. QED
    BY <2>1, <2>2, <2>3
<1>2. G[i].file = i /\ G[i].pos = p + 1
  BY <1>1 DEF Bumped
<1>3. \A y \in H1 : y.index # i
  BY DEF MergeAt, UniqueIdx
<1>4. \A k \in DOMAIN G : G[k].file = k /\ G[k].pos \in 1..Len(fs[k])
  <2>1. \A k \in DOMAIN F \ {i} : F[k].file = k /\ F[k].pos \in 1..Len(fs[k])
    BY DEF MergeAt
  <2>. SUFFICES ASSUME NEW k \in DOMAIN G PROVE G[k].file = k /\ G[k].pos \in 1..Len(fs[k])
    OBVIOUS
  <2>2. CASE k = i
    BY <1>1, <1>2, <2>2
  <2>3. CASE k # i
    BY <1>1, <2>1, <2>3
  <2>. QED
    BY <2>2, <2>3
<1>5. \A y \in H2 : y.index \in DOMAIN G /\ y.value = fs[y.index][G[y.index].pos]
  <2>1. \A y \in H1 : y.index \in DOMAIN F /\ y.value = fs[y.index][F[y.index].pos]
    BY DEF MergeAt
  <2>. QED
    BY <1>1, <1>2, <1>3, <2>1
<1>6. UniqueIdx(H2)
  BY <1>3 DEF MergeAt, UniqueIdx
<1>7. \A k \in DOMAIN G : G[k].pos < Len(fs[k]) => \E y \in H2 : y.index = k
  <2>1. \A k \in DOMAIN F \ {i} : F[k].pos < Len(fs[k]) => \E y \in H1 : y.index = k
    BY DEF MergeAt
  <2>. SUFFICES ASSUME NEW k \in DOMAIN G, G[k].pos < Len(fs[k])
                PROVE  \E y \in H2 : y.index = k
    OBVIOUS
  <2>2. CASE k = i
    <3>1. x \in H2 /\ x.index = i
      OBVIOUS
    <3>. QED
      BY <2>2, <3>1
  <2>3. CASE k # i
    <3>1. k \in DOMAIN F \ {i} /\ G[k] = F[k]
      BY <1>1, <2>3
    <3>2. PICK y \in H1 : y.index = k
      BY <2>1, <3>1
    <3>. QED
      BY <3>2
  <2>. QED
    BY <2>2, <2>3
<1>8. acc \ RowsOf(Append(o, m.value)) = HeapVals(H2) \cup Unread(G, fs)
  <2>1. RowsOf(Append(o, m.value)) = RowsOf(o) \cup {m.value}
    BY RowsOfAppend
  <2>2. /\ m.value \notin HeapVals(H1)
        /\ m.value \notin Unread(F, fs)
        /\ HeapVals(H) = HeapVals(H1) \cup {m.value}
    BY PoppedOnce
  <2>3. acc \ RowsOf(o) = HeapVals(H) \cup Unread(F, fs)
    BY DEF MergeAt
  <2>4. Unread(F, fs) = Unread(G, fs) \cup {fs[m.index][F[m.index].pos + 1]}
    <3>1. /\ m.index \in DOMAIN F /\ F[m.index].pos \in Nat
          /\ F[m.index].pos < Len(fs[m.index])
          /\ BumpedOn(G, F, m.index)
      BY <1>1, <1>2 DEF BumpedOn
    <3>2. \A d \in DOMAIN F :
            (F[d].pos \in Nat /\ F[d].pos < Len(fs[d]) /\ BumpedOn(G, F, d))
              => Unread(F, fs) = Unread(G, fs) \cup {fs[d][F[d].pos + 1]}
      BY UnreadBump
    <3>. QED
      BY <3>1, <3>2
  <2>5. HeapVals(H2) = HeapVals(H1) \cup {w}
    <3>1. HeapVals(H2) = {y.value : y \in H1} \cup {x.value}
      BY Zenon DEF HeapVals
    <3>. QED
      BY <3>1 DEF HeapVals
  <2>. QED
    BY <2>1, <2>2, <2>3, <2>4, <2>5
<1>. QED
  <2>1. \A k \in DOMAIN fs : InOrder(fs[k]) /\ RunsDistinct(fs)
    BY DEF MergeAt
  <2>. QED
    BY <1>1, <1>4, <1>5, <1>6, <1>7, <1>8, <2>1 DEF MergeAt

(* One merge step with nothing failing and every descriptor open: it      *)
(* returns a least row not yet returned, or the end of data when none is  *)
(* left, and the merge state stays consistent.                            *)
LEMMA MergePop ==
    ASSUME MaxFail = 0, BadVals = {}, fails = 0,
           NEW fs \in Seq(Seq(Row)), NEW H, NEW F \in Seq(Fd), out \in Seq(Row),
           MergeAt(H, F, fs, accepted, out), \A i \in DOMAIN F : F[i].open,
           PopFrom(H, F, fs, FALSE)
    PROVE  /\ MergeAt(heap', fds', fs, accepted, out')
           /\ \A i \in DOMAIN fds' : fds'[i].open
           /\ \/ \E r \in accepted \ RowsOf(out) :
                    /\ \A x \in accepted \ RowsOf(out) : ~RowLess(x, r)
                    /\ out' = Append(out, r)
              \/ accepted \ RowsOf(out) = {} /\ out' = out
<1>. DEFINE P == accepted \ RowsOf(out)
<1>1. P = HeapVals(H) \cup Unread(F, fs)
  BY DEF MergeAt
<1>2. CASE /\ H = {}
           /\ heap' = H /\ fds' = F
           /\ UNCHANGED out
  <2>1. \A k \in DOMAIN F : ~(F[k].pos < Len(fs[k]))
    BY <1>2 DEF MergeAt
  <2>2. \A k \in DOMAIN F : F[k].pos \in Nat /\ Len(fs[k]) \in Nat
    <3>1. \A k \in DOMAIN fs : Len(fs[k]) \in Nat
      BY ElementOfSeq, LenProperties
    <3>. QED
      BY <3>1 DEF MergeAt
  <2>3. Unread(F, fs) = {}
    <3>. SUFFICES ASSUME NEW k \in DOMAIN F, NEW j \in (F[k].pos + 1)..Len(fs[k])
                  PROVE  FALSE
      BY UnreadMem, Zenon
    <3>. QED
      BY <2>1, <2>2
  <2>4. P = {}
    BY <1>1, <1>2, <2>3 DEF HeapVals
  <2>. QED
    BY <1>2, <2>4
<1>3. CASE \E m \in H : PopItem(m, H, F, fs, FALSE)
  <2>1. PICK m \in H : PopItem(m, H, F, fs, FALSE)
    BY <1>3
  <2>2. /\ m.index \in DOMAIN F /\ F[m.index].file = m.index
        /\ F[m.index].open
    BY DEF MergeAt
  <2>3. /\ IsHeapMin(m, H)
        /\ out' = Append(out, m.value)
        /\ \/ /\ ~HasNext(F[m.index], fs)
              /\ heap' = H \ {m} /\ fds' = F
           \/ /\ HasNext(F[m.index], fs)
              /\ heap' = (H \ {m}) \cup
                         {[index |-> m.index, value |-> NextOf(F[m.index], fs)]}
              /\ fds' = [F EXCEPT ![m.index] = Bumped(F[m.index])]
    BY <2>1, <2>2, PopItemCases
  <2>4. m.value \in P /\ \A x \in P : ~RowLess(x, m.value)
    <3>1. \A x \in HeapVals(H) \cup Unread(F, fs) : ~RowLess(x, m.value)
      BY <2>3, PopMin
    <3>2. m.value \in HeapVals(H)
      BY DEF HeapVals
    <3>. QED
      BY <1>1, <3>1, <3>2
  <2>5. CASE ~HasNext(F[m.index], fs) /\ heap' = H \ {m} /\ fds' = F
    <3>1. ~(F[m.index].pos < Len(fs[m.index]))
      BY <2>2, <2>5 DEF HasNext
    <3>2. MergeAt(H \ {m}, F, fs, accepted, Append(out, m.value))
      BY <3>1, PopExhausted
    <3>. QED
      BY <2>3, <2>4, <2>5, <3>2
  <2>8. CASE /\ HasNext(F[m.index], fs)
             /\ heap' = (H \ {m}) \cup
                        {[index |-> m.index, value |-> NextOf(F[m.index], fs)]}
             /\ fds' = [F EXCEPT ![m.index] = Bumped(F[m.index])]
    <3>1. F[m.index].pos < Len(fs[m.index])
          /\ NextOf(F[m.index], fs) = fs[m.index][F[m.index].pos + 1]
      BY <2>2, <2>8 DEF HasNext, NextOf
    <3>2. /\ DOMAIN fds' = DOMAIN F
          /\ fds'[m.index] = Bumped(F[m.index])
          /\ \A k \in DOMAIN F \ {m.index} : fds'[k] = F[k]
      BY <2>2, <2>8
    <3>3. MergeAt(heap', fds', fs, accepted, Append(out, m.value))
      <4>1. MergeAt((H \ {m}) \cup
                      {[index |-> m.index, value |-> fs[m.index][F[m.index].pos + 1]]},
                    fds', fs, accepted, Append(out, m.value))
        BY <3>1, <3>2, PopRefill
      <4>. QED
        BY <2>8, <3>1, <4>1
    <3>4. \A i \in DOMAIN fds' : fds'[i].open
      BY <2>2, <3>2 DEF Bumped
    <3>. QED
      BY <2>3, <2>4, <3>3, <3>4
  <2>. QED
    BY <2>3, <2>5, <2>8
<1>. QED
  BY <1>2, <1>3 DEF PopFrom

(* A merge whose heap is empty has read every run to its end: every      *)
(* accepted row has been returned.                                       *)
LEMMA MergeEmpty ==
    ASSUME NEW fs \in Seq(Seq(Row)), NEW F, NEW acc, NEW o,
           MergeAt({}, F, fs, acc, o)
    PROVE  acc \subseteq RowsOf(o)
<1>1. \A k \in DOMAIN F : ~(F[k].pos < Len(fs[k]))
  BY DEF MergeAt
<1>2. \A k \in DOMAIN F : F[k].pos \in Nat /\ Len(fs[k]) \in Nat
  <2>1. \A k \in DOMAIN fs : Len(fs[k]) \in Nat
    BY ElementOfSeq, LenProperties
  <2>. QED
    BY <2>1 DEF MergeAt
<1>3. Unread(F, fs) = {}
  <2>. SUFFICES ASSUME NEW k \in DOMAIN F, NEW j \in (F[k].pos + 1)..Len(fs[k])
                PROVE  FALSE
    BY UnreadMem, Zenon
  <2>. QED
    BY <1>1, <1>2
<1>. QED
  BY <1>3 DEF MergeAt, HeapVals

(* The pop stage reports the end of data only on an empty heap, which it *)
(* leaves empty.                                                         *)
LEMMA PopEod ==
    ASSUME NEW H, NEW F, NEW fs, NEW herr, PopFrom(H, F, fs, herr), ret' = "eod"
    PROVE  heap' = {}
BY DEF PopFrom, PopItem

(* The priming loop over fresh descriptors on non-empty sorted runs, each *)
(* row held once, sets up the merge state: one item per run holding its  *)
(* first row, every descriptor one row in and open.                       *)
LEMMA MergeInit ==
    ASSUME NEW fs \in Seq(Seq(Row)), \A i \in DOMAIN fs : Len(fs[i]) > 0,
           \A i \in DOMAIN fs : InOrder(fs[i]), RunsDistinct(fs),
           NEW acc, acc = RunRows(fs)
    PROVE  /\ MergeAt(Pushed(Opened(Len(fs)), fs, Len(fs)),
                      Advance(Opened(Len(fs)), Len(fs)), fs, acc, <<>>)
           /\ \A i \in DOMAIN Advance(Opened(Len(fs)), Len(fs)) :
                Advance(Opened(Len(fs)), Len(fs))[i].open
<1>. DEFINE n == Len(fs)
            F0 == Advance(Opened(n), n)
            H0 == Pushed(Opened(n), fs, n)
<1>1. n \in Nat /\ DOMAIN fs = 1..n
  BY LenProperties
<1>2. \A i \in 1..n : fs[i] \in Seq(Row) /\ Len(fs[i]) \in Nat
                      /\ DOMAIN fs[i] = 1..Len(fs[i])
  BY <1>1, ElementOfSeq, LenProperties
<1>3. DOMAIN F0 = 1..n
      /\ \A i \in 1..n : F0[i] = [file |-> i, pos |-> 1, open |-> TRUE]
  BY DEF Advance, Opened, Bumped
<1>4. H0 = {[index |-> i, value |-> fs[i][1]] : i \in 1..n}
  BY DEF Pushed, Opened, NextOf
<1>5. HeapVals(H0) = {fs[i][1] : i \in 1..n}
  <2>1. ASSUME NEW z \in HeapVals(H0) PROVE \E i \in 1..n : z = fs[i][1]
    <3>1. PICK m \in H0 : z = m.value
      BY <2>1 DEF HeapVals
    <3>2. PICK i \in 1..n : m = [index |-> i, value |-> fs[i][1]]
      BY <1>4, <3>1
    <3>. QED
      BY <3>1, <3>2
  <2>2. ASSUME NEW i \in 1..n PROVE fs[i][1] \in HeapVals(H0)
    <3>1. [index |-> i, value |-> fs[i][1]] \in H0
      BY <1>4
    <3>. QED
      BY <3>1 DEF HeapVals
  <2>. QED
    BY <2>1, <2>2
<1>6. acc \ RowsOf(<<>>) = HeapVals(H0) \cup Unread(F0, fs)
  <2>1. RowsOf(<<>>) = {}
    BY DEF RowsOf
  <2>2. ASSUME NEW z \in acc PROVE z \in HeapVals(H0) \cup Unread(F0, fs)
    <3>1. PICK i \in 1..n : z \in RowsOf(fs[i])
      BY <1>1, <2>2 DEF RunRows
    <3>2. PICK j \in 1..Len(fs[i]) : z = fs[i][j]
      BY <1>2, <3>1 DEF RowsOf
    <3>3. CASE j = 1
      BY <1>5, <3>2, <3>3
    <3>4. CASE j # 1
      <4>1. j \in (F0[i].pos + 1)..Len(fs[i])
        BY <1>2, <1>3, <3>4
      <4>. QED
        BY <1>3, <3>2, <4>1, UnreadMem
    <3>. QED
      BY <3>3, <3>4
  <2>3. ASSUME NEW z \in HeapVals(H0) \cup Unread(F0, fs) PROVE z \in acc
    <3>1. CASE z \in HeapVals(H0)
      <4>1. PICK i \in 1..n : z = fs[i][1]
        BY <1>5, <3>1
      <4>2. 1 \in DOMAIN fs[i]
        BY <1>2
      <4>3. z \in RowsOf(fs[i])
        BY <4>1, <4>2 DEF RowsOf
      <4>. QED
        BY <1>1, <4>3 DEF RunRows
    <3>2. CASE z \in Unread(F0, fs)
      <4>1. PICK i \in DOMAIN F0 : \E j \in (F0[i].pos + 1)..Len(fs[i]) : z = fs[i][j]
        BY <3>2, UnreadMem
      <4>2. PICK j \in (F0[i].pos + 1)..Len(fs[i]) : z = fs[i][j]
        BY <4>1
      <4>3. i \in DOMAIN fs /\ j \in DOMAIN fs[i]
        BY <1>1, <1>2, <1>3, <4>2
      <4>. QED
        BY <4>2, <4>3 DEF RunRows, RowsOf
    <3>. QED
      BY <2>3, <3>1, <3>2
  <2>. QED
    BY <2>1, <2>2, <2>3
<1>7. \A m \in H0 : m.index \in DOMAIN F0 /\ m.value = fs[m.index][F0[m.index].pos]
  BY <1>3, <1>4
<1>8. UniqueIdx(H0)
  BY <1>4 DEF UniqueIdx
<1>9. \A i \in DOMAIN F0 : F0[i].pos < Len(fs[i]) => \E m \in H0 : m.index = i
  <2>. SUFFICES ASSUME NEW i \in DOMAIN F0 PROVE \E m \in H0 : m.index = i
    OBVIOUS
  <2>1. [index |-> i, value |-> fs[i][1]] \in H0
    BY <1>3, <1>4
  <2>. WITNESS [index |-> i, value |-> fs[i][1]] \in H0
  <2>. QED
    OBVIOUS
<1>10. \A i \in DOMAIN F0 : F0[i].file = i /\ F0[i].pos \in 1..Len(fs[i])
  BY <1>1, <1>2, <1>3
<1>. QED
  BY <1>1, <1>3, <1>6, <1>7, <1>8, <1>9, <1>10 DEF MergeAt

-----------------------------------------------------------------------------
(* The spill and the final flush: flushToFile appends the sorted buffer   *)
(* as a new run, and the runs still hold each row once and each in order. *)
LEMMA FlushRuns ==
    ASSUME NEW fs \in Seq(Seq(Row)), NEW b \in Seq(Row), NEW r \in SortResults(b),
           IsInjective(b), RunsDistinct(fs), RowsOf(b) \cap RunRows(fs) = {},
           \A i \in DOMAIN fs : InOrder(fs[i])
    PROVE  /\ Append(fs, r) \in Seq(Seq(Row))
           /\ RunRows(Append(fs, r)) = RunRows(fs) \cup RowsOf(b)
           /\ RunsDistinct(Append(fs, r))
           /\ \A i \in DOMAIN Append(fs, r) : InOrder(Append(fs, r)[i])
<1>. DEFINE n == Len(fs)
            gs == Append(fs, r)
<1>1. /\ r \in Seq(Row) /\ RowsOf(r) = RowsOf(b) /\ InOrder(r) /\ IsInjective(r)
  BY SortResultsProps
<1>2. /\ n \in Nat /\ DOMAIN fs = 1..n
      /\ gs \in Seq(Seq(Row)) /\ DOMAIN gs = 1..(n + 1)
      /\ \A i \in 1..n : gs[i] = fs[i]
      /\ gs[n + 1] = r
  BY <1>1, LenProperties, AppendProperties
<1>3. RunRows(gs) = RunRows(fs) \cup RowsOf(b)
  <2>1. ASSUME NEW z \in RunRows(gs) PROVE z \in RunRows(fs) \cup RowsOf(b)
    <3>1. PICK i \in DOMAIN gs : z \in RowsOf(gs[i])
      BY <2>1 DEF RunRows
    <3>2. CASE i = n + 1
      BY <1>1, <1>2, <3>1, <3>2
    <3>3. CASE i # n + 1
      BY <1>2, <3>1, <3>3 DEF RunRows
    <3>. QED
      BY <3>2, <3>3
  <2>2. ASSUME NEW z \in RunRows(fs) \cup RowsOf(b) PROVE z \in RunRows(gs)
    <3>1. CASE z \in RowsOf(b)
      <4>0. gs[n + 1] = r /\ RowsOf(r) = RowsOf(b)
        BY <1>1, <1>2
      <4>1. z \in RowsOf(gs[n + 1])
        BY <3>1, <4>0, Zenon
      <4>2. n + 1 \in DOMAIN gs
        BY <1>2
      <4>. QED
        BY <4>1, <4>2, RunRowsMem
    <3>2. CASE z \in RunRows(fs)
      <4>1. PICK i \in DOMAIN fs : z \in RowsOf(fs[i])
        BY <3>2 DEF RunRows
      <4>0. gs[i] = fs[i]
        BY <1>2
      <4>2. z \in RowsOf(gs[i])
        BY <4>0, <4>1, Zenon
      <4>3. i \in DOMAIN gs
        BY <1>2
      <4>. QED
        BY <4>2, <4>3, RunRowsMem
    <3>. QED
      BY <2>2, <3>1, <3>2
  <2>. QED
    BY <2>1, <2>2
<1>4. RunsDistinct(gs)
  <2>. SUFFICES ASSUME NEW i1 \in DOMAIN gs, NEW i2 \in DOMAIN gs,
                       NEW j1 \in DOMAIN gs[i1], NEW j2 \in DOMAIN gs[i2],
                       gs[i1][j1] = gs[i2][j2]
                PROVE  i1 = i2 /\ j1 = j2
    BY DEF RunsDistinct
  <2>2. CASE i1 # n + 1 /\ i2 # n + 1
    BY <1>2, <2>2 DEF RunsDistinct
  <2>3. CASE i1 = n + 1 /\ i2 = n + 1
    BY <1>1, <1>2, <2>3 DEF IsInjective
  <2>4. CASE i1 = n + 1 /\ i2 # n + 1
    <3>1. gs[i1][j1] \in RowsOf(b)
      BY <1>1, <1>2, <2>4 DEF RowsOf
    <3>2. gs[i2][j2] \in RunRows(fs)
      <4>1. gs[i2][j2] \in RowsOf(fs[i2])
        BY <1>2, <2>4 DEF RowsOf
      <4>. QED
        BY <1>2, <2>4, <4>1 DEF RunRows
    <3>. QED
      BY <3>1, <3>2
  <2>5. CASE i1 # n + 1 /\ i2 = n + 1
    <3>1. gs[i2][j2] \in RowsOf(b)
      BY <1>1, <1>2, <2>5 DEF RowsOf
    <3>2. gs[i1][j1] \in RunRows(fs)
      <4>1. gs[i1][j1] \in RowsOf(fs[i1])
        BY <1>2, <2>5 DEF RowsOf
      <4>. QED
        BY <1>2, <2>5, <4>1 DEF RunRows
    <3>. QED
      BY <3>1, <3>2
  <2>. QED
    BY <2>2, <2>3, <2>4, <2>5
<1>5. \A i \in DOMAIN gs : InOrder(gs[i])
  BY <1>1, <1>2
<1>. QED
  BY <1>2, <1>3, <1>4, <1>5

-----------------------------------------------------------------------------
(* The abstract sorter's state under the refinement mapping. *)
Pending == IF closed THEN {} ELSE accepted \ RowsOf(out)

(* The parts of RInv beyond PInv. *)
RX == HandlesBelow /\ AllOpen /\ PreFetch /\ InMemory /\ Merging /\ EodDone

LEMMA InitRefines ==
    Init => Abstract!Init
BY DEF Init, Abstract!Init, RowsOf

(* An Output that returns a least row not yet returned, or the end of     *)
(* data when every accepted row has been returned, is an abstract Output. *)
LEMMA OutputMapped ==
    ASSUME ~closed, closed' = closed, fetched' = TRUE, accepted' = accepted,
           out \in Seq(Row),
           \/ \E r \in accepted \ RowsOf(out) :
                 /\ \A x \in accepted \ RowsOf(out) : ~RowLess(x, r)
                 /\ out' = Append(out, r)
           \/ accepted \ RowsOf(out) = {} /\ out' = out
    PROVE  Abstract!Output
<1>. DEFINE P == accepted \ RowsOf(out)
<1>1. Pending = P /\ Pending' = accepted \ RowsOf(out')
  BY DEF Pending
<1>2. CASE \E r \in P : (\A x \in P : ~RowLess(x, r)) /\ out' = Append(out, r)
  <2>1. PICK r \in P : (\A x \in P : ~RowLess(x, r)) /\ out' = Append(out, r)
    BY <1>2
  <2>2. RowsOf(out') = RowsOf(out) \cup {r}
    BY <2>1, RowsOfAppend
  <2>3. Pending' = P \ {r}
    BY <1>1, <2>2
  <2>. QED
    BY <1>1, <2>1, <2>3 DEF Abstract!Output, Pending
<1>3. CASE P = {} /\ out' = out
  BY <1>1, <1>3 DEF Abstract!Output, Pending
<1>. QED
  BY <1>2, <1>3

LEMMA InjectiveAppend ==
    ASSUME NEW S, NEW s \in Seq(S), NEW x \in S, IsInjective(s), x \notin RowsOf(s)
    PROVE  IsInjective(Append(s, x))
<1>1. Len(s) \in Nat /\ DOMAIN s = 1..Len(s)
  BY LenProperties
<1>2. DOMAIN Append(s, x) = 1..(Len(s) + 1)
      /\ \A i \in 1..Len(s) : Append(s, x)[i] = s[i]
      /\ Append(s, x)[Len(s) + 1] = x
  BY <1>1, AppendProperties
<1>. QED
  BY <1>1, <1>2 DEF IsInjective, RowsOf

(* Close with nothing failing: every descriptor is open, so closeAllFiles *)
(* closes them all and removes the directory; the sorter is closed, which *)
(* is an abstract Close.                                                  *)
LEMMA CloseRefines ==
    ASSUME MaxFail = 0, RInv, Close
    PROVE  RX' /\ Abstract!Close
<1>1. /\ TypeOK /\ fails = 0 /\ ~closed
      /\ \A i \in DOMAIN fds : fds[i].open
  BY DEF RInv, PInv, MInv, TInv, Close, AllOpen
<1>2. FirstClosedFd = Len(fds) + 1
  <2>1. DOMAIN fds = 1..Len(fds)
    BY <1>1, LenProperties DEF TypeOK
  <2>. QED
    BY <1>1, <2>1 DEF FirstClosedFd
<1>3. Len(fds) \in Nat
  BY <1>1, LenProperties DEF TypeOK
<1>4. /\ closed' = TRUE
      /\ UNCHANGED <<accepted, nIn, out, fetched>>
  <2>1. ~(Len(fds) + 1 <= Len(fds)) /\ ~(fails < MaxFail)
    BY <1>1, <1>3
  <2>. QED
    BY <1>2, <2>1 DEF Close
<1>5. HandlesBelow'
  BY <1>4 DEF RInv, RX, HandlesBelow
<1>6. Abstract!Close
  BY <1>1, <1>4 DEF Abstract!Close, Pending
<1>7. ret' # "eod"
  BY DEF Close
<1>. QED
  BY <1>4, <1>5, <1>6, <1>7 DEF RX, AllOpen, PreFetch, InMemory, Merging, EodDone

(* A rejected Input, Output or Close changes nothing the abstract sorter *)
(* sees, and neither does a stutter.                                     *)
LEMMA RejectedRefines ==
    ASSUME RInv, InputRejected \/ OutputRejected \/ CloseRejected \/ UNCHANGED vars
    PROVE  RX' /\ UNCHANGED <<Pending, out, fetched, closed>>
<1>1. TypeOK
  BY DEF RInv, PInv, MInv, TInv
<1>2. /\ UNCHANGED <<buf, files, fds, heap, cursor, fetched, closed, accepted, out>>
      /\ nIn <= nIn'
  BY <1>1 DEF InputRejected, OutputRejected, CloseRejected, vars, InputCall, TypeOK
<1>3. HandlesBelow'
  <2>1. \A r \in accepted : r.handle \in Nat
    BY <1>1 DEF TypeOK, Row
  <2>2. nIn \in Nat /\ nIn' \in Nat
    BY <1>1, <1>2 DEF TypeOK, InputRejected, OutputRejected, CloseRejected, vars,
                      InputCall
  <2>. QED
    BY <1>2, <2>1, <2>2 DEF RInv, RX, HandlesBelow
<1>4. PreFetch'
  <2>1. CASE InputRejected
    BY <1>2, <2>1 DEF InputRejected, PreFetch
  <2>2. CASE ~InputRejected
    <3>1. UNCHANGED <<buf, files, cursor, accepted, out, fetched, closed>>
      BY <1>2
    <3>. QED
      BY <2>2, <3>1 DEF OutputRejected, CloseRejected, vars, RInv, RX, PreFetch
  <2>. QED
    BY <2>1, <2>2
<1>5. EodDone'
  <2>1. CASE UNCHANGED vars
    BY <2>1 DEF vars, RInv, EodDone
  <2>2. CASE ~UNCHANGED vars
    BY <2>2 DEF InputRejected, OutputRejected, CloseRejected, EodDone
  <2>. QED
    BY <2>1, <2>2
<1>. QED
  BY <1>2, <1>3, <1>4, <1>5 DEF RInv, RX, AllOpen, InMemory, Merging, Pending

(* An accepted Input, buffered or after a spill, takes a row with a fresh *)
(* handle: an abstract Input of that row.                                 *)
LEMMA InputRefines ==
    ASSUME RInv, NEW k \in Key, InputBuffered(k) \/ InputSpill(k)
    PROVE  RX' /\ NewRow(k) \in Row /\ Abstract!Input(NewRow(k))
<1>. DEFINE nr == NewRow(k)
<1>1. /\ TypeOK /\ ~closed /\ ~fetched
      /\ nIn < MaxInputs /\ nIn' = nIn + 1
      /\ accepted' = accepted \cup {nr}
      /\ UNCHANGED <<fds, cursor, fetched, closed, out>>
  BY DEF RInv, PInv, MInv, TInv, InputBuffered, InputSpill, InputCall, FlushOK
<1>2. nr \in Row /\ nr.handle = nIn + 1
  <2>1. nIn \in Nat /\ MaxInputs \in Nat
    BY <1>1, FileSortAssumption DEF TypeOK
  <2>. QED
    BY <1>1, <2>1 DEF NewRow, Row
<1>3. /\ out = <<>> /\ cursor = 0
      /\ accepted = RowsOf(buf) \cup RunRows(files)
      /\ IsInjective(buf) /\ RunsDistinct(files)
      /\ RowsOf(buf) \cap RunRows(files) = {}
      /\ \A i \in DOMAIN files : InOrder(files[i])
  BY <1>1 DEF RInv, RX, PreFetch
<1>4. nr \notin accepted
  <2>1. \A r \in accepted : r.handle <= nIn
    BY DEF RInv, RX, HandlesBelow
  <2>2. nIn \in Nat
    BY <1>1 DEF TypeOK
  <2>. QED
    BY <1>2, <2>1, <2>2
<1>5. HandlesBelow'
  <2>1. \A r \in accepted : r.handle <= nIn
    BY DEF RInv, RX, HandlesBelow
  <2>2. nIn \in Nat /\ \A r \in accepted : r.handle \in Nat
    BY <1>1 DEF TypeOK, Row
  <2>. QED
    BY <1>1, <1>2, <2>1, <2>2 DEF HandlesBelow
<1>6. Abstract!Input(nr)
  <2>1. Pending = accepted /\ Pending' = accepted \cup {nr}
    BY <1>1, <1>3 DEF Pending, RowsOf
  <2>. QED
    BY <1>1, <1>4, <2>1 DEF Abstract!Input, Pending
<1>7. PreFetch'
  <2>1. CASE InputBuffered(k)
    <3>1. buf' = Append(buf, nr) /\ files' = files
      BY <2>1 DEF InputBuffered
    <3>2. buf \in Seq(Row)
      BY <1>1 DEF TypeOK
    <3>3. RowsOf(buf') = RowsOf(buf) \cup {nr}
      BY <3>1, <3>2, RowsOfAppend
    <3>4. IsInjective(buf')
      BY <1>2, <1>3, <1>4, <3>1, <3>2, InjectiveAppend
    <3>. QED
      BY <1>1, <1>3, <1>4, <3>1, <3>3, <3>4 DEF PreFetch
  <2>2. CASE InputSpill(k)
    <3>1. PICK r \in SortResults(buf) : files' = Append(files, r)
      BY <2>2 DEF InputSpill, FlushOK
    <3>2. buf' = <<nr>>
      BY <2>2 DEF InputSpill, FlushOK
    <3>3. buf \in Seq(Row) /\ files \in Seq(Seq(Row))
      BY <1>1 DEF TypeOK
    <3>4. /\ RunRows(files') = RunRows(files) \cup RowsOf(buf)
          /\ RunsDistinct(files')
          /\ \A i \in DOMAIN files' : InOrder(files'[i])
      BY <1>3, <3>1, <3>3, FlushRuns
    <3>5. RowsOf(buf') = {nr} /\ IsInjective(buf')
      BY <3>2 DEF RowsOf, IsInjective
    <3>. QED
      BY <1>1, <1>3, <1>4, <3>4, <3>5 DEF PreFetch
  <2>. QED
    BY <2>1, <2>2
<1>8. EodDone'
  BY DEF InputBuffered, InputSpill, EodDone
<1>. QED
  BY <1>1, <1>2, <1>5, <1>6, <1>7, <1>8 DEF RInv, RX, AllOpen, InMemory, Merging

(* Serving the sorted buffer s by the cursor returns its next row, a     *)
(* least row not yet returned, or the end of data once all are returned. *)
LEMMA ServeStep ==
    ASSUME BadVals = {}, NEW s \in Seq(Row), InOrder(s), IsInjective(s),
           accepted = RowsOf(s), cursor \in Nat, cursor <= Len(s),
           out \in Seq(Row), Len(out) = cursor, \A i \in 1..cursor : out[i] = s[i],
           Serve(s)
    PROVE  /\ cursor' \in Nat /\ cursor' <= Len(s)
           /\ out' \in Seq(Row) /\ Len(out') = cursor'
           /\ \A i \in 1..cursor' : out'[i] = s[i]
           /\ \/ \E r \in accepted \ RowsOf(out) :
                    /\ \A x \in accepted \ RowsOf(out) : ~RowLess(x, r)
                    /\ out' = Append(out, r)
              \/ accepted \ RowsOf(out) = {} /\ out' = out
           /\ ret' = "eod" => accepted \subseteq RowsOf(out')
<1>1. Len(s) \in Nat /\ DOMAIN s = 1..Len(s) /\ DOMAIN out = 1..cursor
  BY LenProperties
<1>2. accepted \ RowsOf(out) = {s[i] : i \in (cursor + 1)..Len(s)}
  <2>1. RowsOf(out) = {s[i] : i \in 1..cursor}
    BY <1>1 DEF RowsOf
  <2>. QED
    BY <1>1, <2>1 DEF RowsOf, IsInjective
<1>3. CASE cursor < Len(s)
  <2>. DEFINE r == s[cursor + 1]
  <2>1. out' = Append(out, r) /\ cursor' = cursor + 1 /\ ret' = "row"
    BY <1>3 DEF Serve
  <2>2. r \in accepted \ RowsOf(out)
    BY <1>1, <1>2, <1>3
  <2>3. \A x \in accepted \ RowsOf(out) : ~RowLess(x, r)
    <3>. SUFFICES ASSUME NEW i \in (cursor + 1)..Len(s) PROVE ~RowLess(s[i], r)
      BY <1>2
    <3>1. s[i] \in Row /\ r \in Row
      BY <1>1, <1>3, ElementOfSeq
    <3>2. CASE i = cursor + 1
      BY <3>1, <3>2, LessIrrefl DEF RowLess, Row
    <3>3. CASE i # cursor + 1
      BY <1>1, <1>3, <3>3 DEF InOrder, RowLess
    <3>. QED
      BY <3>2, <3>3
  <2>4. /\ out' \in Seq(Row) /\ Len(out') = cursor + 1
        /\ \A i \in 1..cursor : out'[i] = out[i]
        /\ out'[cursor + 1] = r
    <3>1. r \in Row
      BY <1>1, <1>3, ElementOfSeq
    <3>. QED
      BY <2>1, <3>1, AppendProperties
  <2>. QED
    BY <1>3, <2>1, <2>2, <2>3, <2>4
<1>4. CASE cursor >= Len(s)
  <2>1. out' = out /\ cursor' = cursor
    BY <1>4 DEF Serve
  <2>2. accepted \ RowsOf(out) = {}
    BY <1>1, <1>2, <1>4
  <2>. QED
    BY <2>1, <2>2
<1>. QED
  BY <1>1, <1>3, <1>4

(* Output with no run files: the first call sorts the buffer, every call *)
(* serves its next row; each is an abstract Output.                      *)
LEMMA OutputInMemoryRefines ==
    ASSUME BadVals = {}, RInv, OutputInMemory
    PROVE  RX' /\ Abstract!Output
<1>1. /\ TypeOK /\ ~sortErr /\ ~closed /\ files = <<>>
      /\ UNCHANGED <<files, fds, heap, closed, nIn, accepted>>
  BY DEF RInv, PInv, MInv, TInv, OutputInMemory
<1>2. ~SortMayFail(buf)
  BY NoCompareFail
<1>3. RunRows(files) = {}
  BY <1>1 DEF RunRows
<1>. DEFINE ServeOK(s) ==
        /\ cursor' \in Nat /\ cursor' <= Len(s)
        /\ out' \in Seq(Row) /\ Len(out') = cursor'
        /\ \A i \in 1..cursor' : out'[i] = s[i]
        /\ \/ \E r \in accepted \ RowsOf(out) :
                 /\ \A x \in accepted \ RowsOf(out) : ~RowLess(x, r)
                 /\ out' = Append(out, r)
           \/ accepted \ RowsOf(out) = {} /\ out' = out
        /\ ret' = "eod" => accepted \subseteq RowsOf(out')
<1>4. /\ fetched' = TRUE
      /\ InOrder(buf') /\ IsInjective(buf') /\ accepted = RowsOf(buf')
      /\ ServeOK(buf')
  <2>1. CASE ~fetched
    <3>1. PICK r \in SortResults(buf) : buf' = r /\ Serve(r)
      BY <1>1, <1>2, <2>1 DEF OutputInMemory
    <3>2. fetched' = TRUE
      BY <1>1, <1>2, <2>1 DEF OutputInMemory
    <3>3. /\ out = <<>> /\ cursor = 0
          /\ accepted = RowsOf(buf) /\ IsInjective(buf)
      BY <1>1, <1>3, <2>1 DEF RInv, RX, PreFetch
    <3>4. /\ r \in Seq(Row) /\ RowsOf(r) = RowsOf(buf)
          /\ InOrder(r) /\ IsInjective(r)
      <4>1. buf \in Seq(Row)
        BY <1>1 DEF TypeOK
      <4>. QED
        BY <3>3, <4>1, SortResultsProps
    <3>5. ServeOK(r)
      <4>1. Len(r) \in Nat /\ out \in Seq(Row) /\ Len(out) = 0
        BY <3>3, <3>4, LenProperties, EmptySeq
      <4>. QED
        BY <3>1, <3>3, <3>4, <4>1, ServeStep
    <3>. QED
      BY <3>1, <3>2, <3>3, <3>4, <3>5
  <2>2. CASE fetched
    <3>1. Serve(buf) /\ UNCHANGED <<buf, fetched>>
      BY <2>2 DEF OutputInMemory
    <3>2. /\ InOrder(buf) /\ IsInjective(buf) /\ accepted = RowsOf(buf)
          /\ cursor <= Len(buf) /\ Len(out) = cursor
          /\ \A i \in 1..cursor : out[i] = buf[i]
      BY <1>1, <2>2 DEF RInv, RX, InMemory
    <3>3. ServeOK(buf)
      <4>1. buf \in Seq(Row) /\ out \in Seq(Row) /\ cursor \in Nat
        BY <1>1 DEF TypeOK
      <4>. QED
        BY <3>1, <3>2, <4>1, ServeStep
    <3>. QED
      BY <2>2, <3>1, <3>2, <3>3
  <2>. QED
    BY <1>1, <2>1, <2>2 DEF TypeOK
<1>5. RX'
  <2>1. HandlesBelow' /\ AllOpen'
    BY <1>1 DEF RInv, RX, HandlesBelow, AllOpen
  <2>2. InMemory'
    BY <1>1, <1>4 DEF InMemory
  <2>3. EodDone'
    BY <1>1, <1>4 DEF EodDone
  <2>. QED
    BY <1>1, <1>4, <2>1, <2>2, <2>3 DEF RX, PreFetch, Merging
<1>6. Abstract!Output
  <2>1. out \in Seq(Row)
    BY <1>1 DEF TypeOK
  <2>. QED
    BY <1>1, <1>4, <2>1, OutputMapped
<1>. QED
  BY <1>5, <1>6

(* Output after the first fetch with run files: one merge step returns a *)
(* least row not yet returned, or the end of data; an abstract Output.   *)
LEMMA OutputMergeNextRefines ==
    ASSUME MaxFail = 0, BadVals = {}, RInv, OutputMergeNext
    PROVE  RX' /\ Abstract!Output
<1>1. /\ TypeOK /\ fails = 0 /\ ~heapErr /\ ~closed /\ fetched /\ files # <<>>
      /\ UNCHANGED <<files, fetched, closed, nIn, accepted>>
  BY DEF RInv, PInv, MInv, TInv, OutputMergeNext
<1>2. /\ MergeAt(heap, fds, files, accepted, out)
      /\ \A i \in DOMAIN fds : fds[i].open
  BY <1>1 DEF RInv, RX, Merging, AllOpen
<1>3. /\ files \in Seq(Seq(Row)) /\ fds \in Seq(Fd) /\ out \in Seq(Row)
  BY <1>1 DEF TypeOK
<1>4. PopFrom(heap, fds, files, FALSE)
  <2>1. heapErr = FALSE /\ PopFrom(heap, fds, files, heapErr)
    BY <1>1 DEF OutputMergeNext
  <2>. QED
    BY <2>1, Zenon
<1>5. /\ MergeAt(heap', fds', files, accepted, out')
      /\ \A i \in DOMAIN fds' : fds'[i].open
      /\ \/ \E r \in accepted \ RowsOf(out) :
               /\ \A x \in accepted \ RowsOf(out) : ~RowLess(x, r)
               /\ out' = Append(out, r)
         \/ accepted \ RowsOf(out) = {} /\ out' = out
  BY <1>1, <1>2, <1>3, <1>4, MergePop
<1>6. RX'
  <2>1. HandlesBelow' /\ PreFetch' /\ InMemory'
    BY <1>1 DEF RInv, RX, HandlesBelow, PreFetch, InMemory
  <2>2. AllOpen' /\ Merging'
    BY <1>1, <1>5 DEF AllOpen, Merging
  <2>3. EodDone'
    <3>1. SUFFICES ASSUME ret' = "eod" PROVE accepted' \subseteq RowsOf(out')
      BY <1>1 DEF EodDone
    <3>2. heap' = {}
      BY <1>4, <3>1, PopEod
    <3>3. MergeAt({}, fds', files, accepted, out')
      BY <1>5, <3>2, Zenon
    <3>. QED
      BY <1>1, <1>3, <3>3, MergeEmpty
  <2>. QED
    BY <2>1, <2>2, <2>3 DEF RX
<1>. QED
  BY <1>1, <1>3, <1>5, <1>6, OutputMapped

(* The first externalSort on a fresh sorter with nothing failing opens   *)
(* every run, primes the heap with each run's first row and pops.        *)
LEMMA StartMergePop ==
    ASSUME MaxFail = 0, BadVals = {}, fails = 0, ~heapErr, heap = {}, fds = <<>>,
           NEW fs \in Seq(Seq(Row)), \A i \in DOMAIN fs : Len(fs[i]) > 0,
           StartMerge(fs)
    PROVE  /\ fetched' = TRUE
           /\ PopFrom(Pushed(Opened(Len(fs)), fs, Len(fs)),
                      Advance(Opened(Len(fs)), Len(fs)), fs, FALSE)
<1>. DEFINE F == Opened(Len(fs))
<1>1. ~HeapMayFail(heap) /\ \A H : ~HeapMayFail(H)
  BY NoCompareFail
<1>2. ~(fails < MaxFail) /\ Len(fs) \in Nat
  BY LenProperties
<1>3. Prime(fds \o F, fs)
  BY <1>1, <1>2 DEF StartMerge
<1>4. fds \o F = F /\ Len(F) = Len(fs) /\ FirstUnreadable(F, fs) = Len(F) + 1
  BY FreshReadable
<1>5. ~(FirstUnreadable(F, fs) <= Len(F))
  BY <1>2, <1>4
<1>6. fetched' = TRUE /\ PopFrom(heap \cup Pushed(F, fs, Len(F)), Advance(F, Len(F)), fs, FALSE)
  BY <1>1, <1>2, <1>3, <1>4, <1>5, Zenon DEF Prime
<1>7. heap \cup Pushed(F, fs, Len(F)) = Pushed(F, fs, Len(fs))
  BY <1>4
<1>. QED
  BY <1>4, <1>6, <1>7, Zenon

(* The first Output with run files flushes the buffer into a last run,  *)
(* starts the merge and returns its least row: an abstract Output.      *)
LEMMA OutputMergeStartRefines ==
    ASSUME MaxFail = 0, BadVals = {}, RInv, OutputMergeStart
    PROVE  RX' /\ Abstract!Output
<1>1. /\ TypeOK /\ fails = 0 /\ ~heapErr /\ ~sortErr /\ ~closed /\ ~fetched
      /\ files # <<>> /\ RunsNonEmpty /\ heap = {} /\ fds = <<>>
      /\ UNCHANGED <<closed, nIn, accepted>>
  BY DEF RInv, PInv, MInv, TInv, FreshMerge, OutputMergeStart
<1>2. /\ out = <<>>
      /\ accepted = RowsOf(buf) \cup RunRows(files)
      /\ IsInjective(buf) /\ RunsDistinct(files)
      /\ RowsOf(buf) \cap RunRows(files) = {}
      /\ \A i \in DOMAIN files : InOrder(files[i])
  BY <1>1 DEF RInv, RX, PreFetch
<1>3. /\ buf \in Seq(Row) /\ files \in Seq(Seq(Row)) /\ out \in Seq(Row)
  BY <1>1 DEF TypeOK
<1>. DEFINE Ready(fs) ==
        /\ fs \in Seq(Seq(Row)) /\ fs # <<>>
        /\ \A i \in DOMAIN fs : Len(fs[i]) > 0
        /\ \A i \in DOMAIN fs : InOrder(fs[i])
        /\ RunsDistinct(fs)
        /\ accepted = RunRows(fs)
<1>4. Ready(files') /\ StartMerge(files')
  <2>1. ~SortMayFail(buf) /\ ~(fails < MaxFail)
    BY <1>1, NoCompareFail
  <2>2. ~FlushFail
    BY <1>1, <2>1 DEF FlushFail
  <2>3. CASE /\ Len(buf) > 0
             /\ \E r \in SortResults(buf) : files' = Append(files, r)
             /\ StartMerge(files')
    <3>1. PICK r \in SortResults(buf) : files' = Append(files, r)
      BY <2>3
    <3>2. /\ Append(files, r) \in Seq(Seq(Row))
          /\ RunRows(Append(files, r)) = RunRows(files) \cup RowsOf(buf)
          /\ RunsDistinct(Append(files, r))
          /\ \A i \in DOMAIN Append(files, r) : InOrder(Append(files, r)[i])
      BY <1>2, <1>3, FlushRuns
    <3>3. RunsNonEmpty'
      BY <1>1, <2>3, <3>1, FlushedRunNonEmpty DEF RInv, PInv, MInv
    <3>4. files' # <<>>
      BY <1>3, <3>1, <3>2, AppendProperties
    <3>. QED
      BY <1>2, <2>3, <3>1, <3>2, <3>3, <3>4 DEF RunsNonEmpty
  <2>4. CASE /\ Len(buf) = 0
             /\ StartMerge(files)
             /\ UNCHANGED <<buf, files>>
    <3>1. RowsOf(buf) = {}
      BY <1>3, <2>4, EmptySeq DEF RowsOf
    <3>. QED
      BY <1>1, <1>2, <1>3, <2>4, <3>1 DEF RunsNonEmpty
  <2>. QED
    BY <2>2, <2>3, <2>4 DEF OutputMergeStart
<1>. DEFINE fs == files'
            F0 == Advance(Opened(Len(fs)), Len(fs))
            H0 == Pushed(Opened(Len(fs)), fs, Len(fs))
<1>5. fetched' = TRUE /\ PopFrom(H0, F0, fs, FALSE)
  BY <1>1, <1>4, StartMergePop
<1>6. /\ MergeAt(H0, F0, fs, accepted, <<>>)
      /\ \A i \in DOMAIN F0 : F0[i].open
  BY <1>4, MergeInit
<1>7. F0 \in Seq(Fd)
  <2>1. Len(fs) \in Nat
    BY <1>4, LenProperties
  <2>2. \A i \in 1..Len(fs) : [file |-> i, pos |-> 0 + 1, open |-> TRUE] \in Fd
    BY DEF Fd
  <2>3. F0 = [i \in 1..Len(fs) |-> [file |-> i, pos |-> 0 + 1, open |-> TRUE]]
    BY <2>1 DEF Advance, Opened, Bumped
  <2>. QED
    BY <2>1, <2>2, <2>3, IsASeq
<1>8. /\ MergeAt(heap', fds', fs, accepted, out')
      /\ \A i \in DOMAIN fds' : fds'[i].open
      /\ \/ \E r \in accepted \ RowsOf(out) :
               /\ \A x \in accepted \ RowsOf(out) : ~RowLess(x, r)
               /\ out' = Append(out, r)
         \/ accepted \ RowsOf(out) = {} /\ out' = out
  BY <1>1, <1>2, <1>3, <1>4, <1>5, <1>6, <1>7, MergePop
<1>9. RX'
  <2>1. HandlesBelow' /\ PreFetch'
    BY <1>1, <1>5 DEF RInv, RX, HandlesBelow, PreFetch
  <2>2. AllOpen' /\ InMemory' /\ Merging'
    BY <1>1, <1>4, <1>5, <1>8 DEF AllOpen, InMemory, Merging
  <2>3. EodDone'
    <3>1. SUFFICES ASSUME ret' = "eod" PROVE accepted' \subseteq RowsOf(out')
      BY <1>1 DEF EodDone
    <3>2. heap' = {}
      BY <1>5, <3>1, PopEod
    <3>3. MergeAt({}, fds', fs, accepted, out')
      BY <1>8, <3>2, Zenon
    <3>. QED
      BY <1>1, <1>4, <3>3, MergeEmpty
  <2>. QED
    BY <2>1, <2>2, <2>3 DEF RX
<1>. QED
  BY <1>1, <1>3, <1>5, <1>8, <1>9, OutputMapped

(* Every step of the sorter keeps RInv and is a step of the abstract      *)
(* Sorter or leaves what it sees unchanged.                               *)
LEMMA NextRInv ==
    ASSUME MaxFail = 0, BadVals = {}
    PROVE  RInv /\ [Next]_vars => RInv' /\ [Abstract!Next]_Abstract!vars
<1>. SUFFICES ASSUME RInv, [Next]_vars
              PROVE  RX' /\ [Abstract!Next]_Abstract!vars
  <2>1. ASSUME RInv, [Next]_vars PROVE PInv'
    BY <2>1, NextPInv DEF RInv
  <2>. QED
    BY <2>1 DEF RInv, RX
<1>1. ~SortMayFail(buf) /\ ~(fails < MaxFail)
  BY NoCompareFail DEF RInv, PInv, MInv
<1>2. CASE \E k \in Key : InputBuffered(k) \/ InputSpill(k) \/ InputSpillFailed(k)
  <2>1. PICK k \in Key : InputBuffered(k) \/ InputSpill(k) \/ InputSpillFailed(k)
    BY <1>2
  <2>2. ~InputSpillFailed(k)
    BY <1>1 DEF RInv, PInv, InputSpillFailed, FlushFail
  <2>3. RX' /\ NewRow(k) \in Row /\ Abstract!Input(NewRow(k))
    BY <2>1, <2>2, InputRefines
  <2>. QED
    BY <2>3 DEF Abstract!Next
<1>3. CASE OutputInMemory
  BY <1>3, OutputInMemoryRefines DEF Abstract!Next
<1>4. CASE OutputMergeStart
  BY <1>4, OutputMergeStartRefines DEF Abstract!Next
<1>5. CASE OutputMergeNext
  BY <1>5, OutputMergeNextRefines DEF Abstract!Next
<1>6. CASE Close
  BY <1>6, CloseRefines DEF Abstract!Next
<1>7. CASE InputRejected \/ OutputRejected \/ CloseRejected \/ UNCHANGED vars
  <2>1. RX' /\ UNCHANGED <<Pending, out, fetched, closed>>
    BY <1>7, RejectedRefines
  <2>. QED
    BY <2>1 DEF Pending, Abstract!vars
<1>. QED
  BY <1>2, <1>3, <1>4, <1>5, <1>6, <1>7 DEF Next

(* The initial state satisfies RInv. *)
LEMMA InitRInv ==
    ASSUME MaxFail = 0
    PROVE  Init => RInv
<1>. SUFFICES ASSUME Init PROVE RInv
  OBVIOUS
<1>1. PInv
  <2>1. MInv
    BY InitMInv
  <2>. QED
    BY <2>1 DEF Init, PInv
<1>2. RowsOf(<<>>) = {} /\ RunRows(<<>>) = {}
  BY DEF RowsOf, RunRows
<1>3. IsInjective(<<>>) /\ RunsDistinct(<<>>)
  BY DEF IsInjective, RunsDistinct
<1>4. HandlesBelow /\ AllOpen /\ PreFetch
  BY <1>2, <1>3 DEF Init, HandlesBelow, AllOpen, PreFetch
<1>. QED
  BY <1>1, <1>4 DEF Init, RInv, InMemory, Merging, EodDone

(* With no write or close failure and no uncomparable datum, FileSorter  *)
(* (filesort.go Input, Output, Close) implements the abstract Sorter:    *)
(* every Output returns a least row accepted and not yet returned, or    *)
(* the end of data only when none is left, whether it serves the sorted  *)
(* buffer or merges the run files.                                       *)
THEOREM SorterRefines ==
    ASSUME MaxFail = 0, BadVals = {}
    PROVE  Spec => SorterRefinement
<1>1. Init => RInv
  BY InitRInv
<1>2. Spec => []RInv /\ [][Abstract!Next]_Abstract!vars
  BY <1>1, NextRInv, PTL DEF Spec
<1>. QED
  BY <1>2, InitRefines, PTL DEF Spec, SorterRefinement, Abstract!Spec

-----------------------------------------------------------------------------
(* What the rows returned so far say about the rows still pending: they   *)
(* are in order, each once, none above a pending row or pending itself,   *)
(* none before the first fetch, and each accepted by Input.               *)
OInv ==
    /\ OutputOrdered
    /\ NoDuplicateOutput
    /\ \A i \in 1..Len(out) : \A x \in Pending : ~RowLess(x, out[i])
    /\ \A i \in 1..Len(out) : out[i] \notin Pending
    /\ out # <<>> => fetched
    /\ RowsOf(out) \subseteq accepted

(* Input only adds to the rows accepted; no other call changes them. *)
LEMMA AcceptedGrows ==
    ASSUME [Next]_vars
    PROVE  accepted \subseteq accepted'
<1>1. CASE \E k \in Key : InputBuffered(k) \/ InputSpill(k) \/ InputSpillFailed(k)
  BY <1>1 DEF InputBuffered, InputSpill, InputSpillFailed
<1>2. CASE ~(\E k \in Key : InputBuffered(k) \/ InputSpill(k) \/ InputSpillFailed(k))
  BY <1>2 DEF Next, vars, InputRejected, OutputRejected, OutputInMemory,
              OutputMergeStart, OutputMergeNext, CloseRejected, Close
<1>. QED
  BY <1>1, <1>2

(* A step of the abstract sorter keeps OInv: an Input happens only before *)
(* anything is returned, an Output appends a least pending row, and Close *)
(* empties the pending set.                                               *)
LEMMA OInvStep ==
    ASSUME OInv, out \in Seq(Row), accepted \subseteq Row,
           accepted \subseteq accepted', [Abstract!Next]_Abstract!vars
    PROVE  OInv'
<1>. DEFINE P == Pending
<1>1. Len(out) \in Nat /\ DOMAIN out = 1..Len(out)
  BY LenProperties
<1>2. /\ P \subseteq accepted \ RowsOf(out)
      /\ ~closed => P = accepted \ RowsOf(out)
  BY DEF Pending
<1>3. /\ OutputOrdered /\ NoDuplicateOutput
      /\ \A i \in 1..Len(out) : \A x \in P : ~RowLess(x, out[i])
      /\ \A i \in 1..Len(out) : out[i] \notin P
      /\ out # <<>> => fetched
      /\ RowsOf(out) \subseteq accepted
  BY DEF OInv
<1>4. CASE \E r \in Row : Abstract!Input(r)
  <2>1. ~fetched /\ out' = out /\ fetched' = fetched
    BY <1>4 DEF Abstract!Input
  <2>2. out' = <<>>
    BY <1>3, <2>1
  <2>3. Len(out') = 0 /\ RowsOf(out') = {}
    BY <2>2 DEF RowsOf
  <2>. QED
    BY <2>1, <2>2, <2>3 DEF OInv, OutputOrdered, NoDuplicateOutput, InOrder
<1>5. CASE Abstract!Output
  <2>1. ~closed /\ fetched' = TRUE /\ closed' = closed
    BY <1>5 DEF Abstract!Output
  <2>2. CASE \E r \in P : /\ \A x \in P : ~RowLess(x, r)
                          /\ out' = Append(out, r)
                          /\ P' = P \ {r}
    <3>1. PICK r \in P : /\ \A x \in P : ~RowLess(x, r)
                         /\ out' = Append(out, r)
                         /\ P' = P \ {r}
      BY <2>2
    <3>2. r \in accepted \ RowsOf(out) /\ r \in Row
      BY <1>2, <2>1
    <3>3. /\ out' \in Seq(Row) /\ Len(out') = Len(out) + 1
          /\ \A i \in 1..Len(out) : out'[i] = out[i]
          /\ out'[Len(out) + 1] = r
      BY <3>1, <3>2, AppendProperties
    <3>4. \A i \in 1..Len(out) : ~RowLess(r, out[i]) /\ out[i] # r
      BY <1>3
    <3>5. OutputOrdered'
      <4>. SUFFICES ASSUME NEW i \in 1..Len(out'), NEW j \in 1..Len(out'), i < j
                    PROVE  ~lessThan(out'[j].key, out'[i].key)
        BY DEF OutputOrdered, InOrder
      <4>1. CASE j <= Len(out)
        BY <1>1, <1>3, <3>3, <4>1 DEF OutputOrdered, InOrder
      <4>2. CASE j = Len(out) + 1
        BY <1>1, <3>3, <3>4, <4>2 DEF RowLess
      <4>. QED
        BY <1>1, <3>3, <4>1, <4>2
    <3>6. NoDuplicateOutput'
      <4>. SUFFICES ASSUME NEW i \in 1..Len(out'), NEW j \in 1..Len(out'), i # j
                    PROVE  out'[i] # out'[j]
        BY DEF NoDuplicateOutput
      <4>1. CASE i <= Len(out) /\ j <= Len(out)
        BY <1>3, <3>3, <4>1 DEF NoDuplicateOutput
      <4>2. CASE i = Len(out) + 1 \/ j = Len(out) + 1
        BY <1>1, <3>3, <3>4, <4>2
      <4>. QED
        BY <1>1, <3>3, <4>1, <4>2
    <3>7. \A i \in 1..Len(out') : \A x \in P' : ~RowLess(x, out'[i])
      <4>. SUFFICES ASSUME NEW i \in 1..Len(out'), NEW x \in P'
                    PROVE  ~RowLess(x, out'[i])
        OBVIOUS
      <4>1. x \in P
        BY <3>1
      <4>2. CASE i <= Len(out)
        BY <1>1, <1>3, <3>3, <4>1, <4>2
      <4>3. CASE i = Len(out) + 1
        BY <3>1, <3>3, <4>1, <4>3
      <4>. QED
        BY <1>1, <3>3, <4>2, <4>3
    <3>8. \A i \in 1..Len(out') : out'[i] \notin P'
      BY <1>1, <1>3, <3>1, <3>3
    <3>9. RowsOf(out') \subseteq accepted'
      <4>1. RowsOf(out') = RowsOf(out) \cup {r}
        BY <3>1, RowsOfAppend
      <4>. QED
        BY <1>3, <3>2, <4>1
    <3>. QED
      BY <2>1, <3>5, <3>6, <3>7, <3>8, <3>9 DEF OInv
  <2>3. CASE P = {} /\ P' = P /\ out' = out
    BY <1>3, <2>1, <2>3 DEF OInv, OutputOrdered, NoDuplicateOutput
  <2>. QED
    BY <1>5, <2>2, <2>3 DEF Abstract!Output, Pending
<1>6. CASE Abstract!Close
  <2>1. P' = {} /\ out' = out /\ fetched' = fetched
    BY <1>6 DEF Abstract!Close, Pending
  <2>. QED
    BY <1>3, <2>1 DEF OInv, OutputOrdered, NoDuplicateOutput
<1>7. CASE UNCHANGED Abstract!vars
  <2>1. P' = P /\ out' = out /\ fetched' = fetched
    BY <1>7 DEF Abstract!vars, Pending
  <2>. QED
    BY <1>3, <2>1 DEF OInv, OutputOrdered, NoDuplicateOutput
<1>. QED
  BY <1>4, <1>5, <1>6, <1>7 DEF Abstract!Next

(* A sequence without repeated elements has as many distinct elements as *)
(* its length.                                                            *)
LEMMA DistinctCard ==
    ASSUME NEW S, NEW s \in Seq(S),
           \A i, j \in 1..Len(s) : i # j => s[i] # s[j]
    PROVE  IsFiniteSet(RowsOf(s)) /\ Cardinality(RowsOf(s)) = Len(s)
<1>1. Len(s) \in Nat /\ DOMAIN s = 1..Len(s)
  BY LenProperties
<1>2. s \in Bijection(1..Len(s), RowsOf(s))
  BY <1>1 DEF Bijection, Injection, Surjection, IsInjective, RowsOf
<1>3. IsFiniteSet(1..Len(s)) /\ Cardinality(1..Len(s)) = Len(s)
  BY <1>1, FS_Interval
<1>. QED
  BY <1>2, <1>3, FS_Bijection DEF ExistsBijection

(* With nothing failing, RInv and OInv hold in every reachable state. *)
LEMMA OutputInvariant ==
    ASSUME MaxFail = 0, BadVals = {}
    PROVE  Spec => [](RInv /\ OInv)
<1>1. Init => OInv
  BY DEF Init, OInv, OutputOrdered, NoDuplicateOutput, InOrder, RowsOf
<1>2. RInv /\ OInv /\ [Next]_vars => RInv' /\ OInv'
  <2>. SUFFICES ASSUME RInv, OInv, [Next]_vars PROVE RInv' /\ OInv'
    OBVIOUS
  <2>1. RInv' /\ [Abstract!Next]_Abstract!vars
    BY NextRInv
  <2>2. out \in Seq(Row) /\ accepted \subseteq Row
    BY DEF RInv, PInv, MInv, TInv, TypeOK
  <2>3. accepted \subseteq accepted'
    BY AcceptedGrows
  <2>. QED
    BY <2>1, <2>2, <2>3, OInvStep
<1>. QED
  BY <1>1, <1>2, InitRInv, PTL DEF Spec

(* Order (spec 8): with no I/O failure and no uncomparable datum, the     *)
(* rows Output returns are in comparator order, on the in-memory path and *)
(* across the k-way merge, for every buffer size and number of calls.     *)
THEOREM SorterOutputOrdered ==
    ASSUME MaxFail = 0, BadVals = {}
    PROVE  Spec => []OutputOrdered
<1>1. RInv /\ OInv => OutputOrdered
  BY DEF OInv
<1>. QED
  BY <1>1, OutputInvariant, PTL

(* Conservation: with no I/O failure and no uncomparable datum, Output    *)
(* never returns a row twice, also across spills and the merge.           *)
THEOREM SorterNoDuplicateOutput ==
    ASSUME MaxFail = 0, BadVals = {}
    PROVE  Spec => []NoDuplicateOutput
<1>1. RInv /\ OInv => NoDuplicateOutput
  BY DEF OInv
<1>. QED
  BY <1>1, OutputInvariant, PTL

(* Conservation (spec 8): with no I/O failure and no uncomparable datum,  *)
(* an end of data from Output comes after exactly the rows Input accepted *)
(* were returned, each once.                                              *)
THEOREM SorterCleanEnd ==
    ASSUME MaxFail = 0, BadVals = {}
    PROVE  Spec => []CleanEndReturnsAll
<1>1. RInv /\ OInv => CleanEndReturnsAll
  <2>. SUFFICES ASSUME RInv, OInv, ret = "eod"
                PROVE  RowsOf(out) = accepted /\ Len(out) = Cardinality(accepted)
    BY DEF CleanEndReturnsAll
  <2>1. RowsOf(out) = accepted
    BY DEF RInv, EodDone, OInv
  <2>2. out \in Seq(Row)
    BY DEF RInv, PInv, MInv, TInv, TypeOK
  <2>3. Cardinality(RowsOf(out)) = Len(out)
    BY <2>2, DistinctCard DEF OInv, NoDuplicateOutput
  <2>. QED
    BY <2>1, <2>3
<1>. QED
  BY <1>1, OutputInvariant, PTL

=============================================================================
