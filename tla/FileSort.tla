------------------------------ MODULE FileSort ------------------------------
(***************************************************************************)
(* The external sort/merge engine of sql/util/filesort/filesort.go: one     *)
(* FileSorter driven by one caller through Input, Output and Close.         *)
(*                                                                         *)
(* A row is its key tuple and its handle; the value columns travel with    *)
(* the row and are left out.  Handles are drawn fresh per Input call, so   *)
(* rows are distinct and the multiset of rows is a set.  A run file is the *)
(* sequence of rows it holds; a file descriptor is the index of the run it *)
(* reads, the number of rows read so far and whether it is still open.    *)
(* The min-heap is the set of its items.  I/O failures (open, write, read, *)
(* close, remove) are injected at most MaxFail times; comparison failures  *)
(* come from the datum values in BadVals, which CompareDatum cannot        *)
(* coerce.                                                                 *)
(***************************************************************************)
EXTENDS Naturals, Sequences, FiniteSets, Functions

CONSTANTS
    Vals,       \* datum values a key column can hold (naturals, ordered by <)
    BadVals,    \* the values whose comparison fails (CompareDatum error)
    KeySize,    \* number of key columns
    ByDesc,     \* per key column: sorted in descending order?
    BufSize,    \* rows held in memory before a spill
    MaxInputs,  \* bound on the number of Input calls
    MaxOutputs, \* bound on the number of Output calls
    MaxFail     \* bound on the number of injected I/O failures

ASSUME FileSortAssumption ==
    /\ Vals \subseteq Nat
    /\ BadVals \subseteq Vals
    /\ KeySize \in Nat \ {0}
    /\ ByDesc \in [1..KeySize -> BOOLEAN]
    /\ BufSize \in Nat \ {0}
    /\ MaxInputs \in Nat
    /\ MaxOutputs \in Nat
    /\ MaxFail \in Nat

Key  == [1..KeySize -> Vals]
Row  == [key : Key, handle : 1..MaxInputs]
Fd   == [file : Nat \ {0}, pos : Nat, open : BOOLEAN]
Item == [index : Nat \ {0}, value : Row]
Results == {"none", "ok", "err", "row", "eod"}

VARIABLES
    buf,       \* fs.buf: the in-memory rows
    files,     \* fs.files: the run files written, each a sequence of rows
    fds,       \* fs.fds: the descriptors opened on the run files
    heap,      \* fs.rowHeap.ims: the items of the merge heap
    cursor,    \* fs.cursor: rows served by the in-memory path
    fetched,   \* fs.fetched
    closed,    \* fs.closed
    sortErr,   \* fs.err /= nil: a comparison failed during sort.Sort
    heapErr,   \* fs.rowHeap.err /= nil: a comparison failed in a heap step
    removed,   \* os.RemoveAll(fs.tmpDir) has been done
    nIn,       \* number of Input calls so far (the next handle is nIn + 1)
    accepted,  \* the rows Input accepted (returned nil for)
    out,       \* the rows Output returned, in order
    nOut,      \* number of Output calls so far
    ret,       \* what the last call returned
    fails      \* I/O failures injected so far

vars == <<buf, files, fds, heap, cursor, fetched, closed, sortErr, heapErr,
          removed, nIn, accepted, out, nOut, ret, fails>>

-----------------------------------------------------------------------------
(* lessThan: lexicographic over the key columns, each column negated when  *)
(* it sorts descending; the first column that differs decides.  A column   *)
(* whose comparison fails makes lessThan return (false, err).              *)

ColFails(a, b, k) == a[k] \in BadVals \/ b[k] \in BadVals

TiedBefore(a, b, k) == \A j \in 1..(k - 1) : ~ColFails(a, b, j) /\ a[j] = b[j]

lessThan(a, b) ==
    \E k \in 1..KeySize :
        /\ TiedBefore(a, b, k)
        /\ ~ColFails(a, b, k)
        /\ IF ByDesc[k] THEN b[k] < a[k] ELSE a[k] < b[k]

CompareFails(a, b) ==
    \E k \in 1..KeySize : TiedBefore(a, b, k) /\ ColFails(a, b, k)

RowsOf(s) == {s[i] : i \in DOMAIN s}

(* s is in comparator order: no row is less than one before it. *)
InOrder(s) == \A i, j \in 1..Len(s) : i < j => ~lessThan(s[j].key, s[i].key)

(* sort.Sort(fs) on buffer s: Swap only exchanges two rows, so the result *)
(* is s permuted, in comparator order (sort.Sort is not stable, so any    *)
(* such permutation); it may capture a comparison error when two of the   *)
(* rows fail to compare.                                                  *)
Permuted(s) == {[i \in 1..Len(s) |-> s[p[i]]] : p \in Bijection(1..Len(s), 1..Len(s))}

SortResults(s) == {t \in Permuted(s) : InOrder(t)}

SortMayFail(s) ==
    \E i, j \in 1..Len(s) : i # j /\ CompareFails(s[i].key, s[j].key)

(* A heap step on items H may capture a comparison error. *)
HeapMayFail(H) ==
    \E x, y \in H : x # y /\ CompareFails(x.value.key, y.value.key)

(* Variant: rowHeap.Less with its arguments swapped (a max-heap). *)
IsHeapMax(m, H) == \A x \in H : ~lessThan(m.value.key, x.value.key)

(* heap.Pop returns an item no other item is less than. *)
IsHeapMin(m, H) == \A x \in H : ~lessThan(x.value.key, m.value.key)

-----------------------------------------------------------------------------
(* fetchNextRow on descriptor f over runs fs. *)
HasNext(f, fs) == f.pos < Len(fs[f.file])
NextOf(f, fs)  == fs[f.file][f.pos + 1]
Readable(F, fs, i) == F[i].open /\ HasNext(F[i], fs)

(* Variant: the open loop stops one run short. *)
OpenedAllButLast(n) == [i \in 1..(n - 1) |-> [file |-> i, pos |-> 0, open |-> TRUE]]

(* openAllFiles opening the first n runs, appended to fs.fds. *)
Opened(n) == [i \in 1..n |-> [file |-> i, pos |-> 0, open |-> TRUE]]

(* Variant: the priming read does not move the descriptor on. *)
AdvanceNot(F, n) == F

(* A read of one row (header and body) moves descriptor f on one row. *)
Bumped(f) == [file |-> f.file, pos |-> f.pos + 1, open |-> f.open]

(* fd.Close: the descriptor is released. *)
Shut(f) == [file |-> f.file, pos |-> f.pos, open |-> FALSE]

(* The priming loop reads one row from each of the descriptors 1..n. *)
Advance(F, n) == [i \in DOMAIN F |-> IF i <= n THEN Bumped(F[i]) ELSE F[i]]
Pushed(F, fs, n) == {[index |-> i, value |-> NextOf(F[i], fs)] : i \in 1..n}

(* The first descriptor the loop cannot read a row from, or Len(F) + 1. *)
FirstUnreadable(F, fs) ==
    IF \A i \in 1..Len(F) : Readable(F, fs, i)
    THEN Len(F) + 1
    ELSE CHOOSE i \in 1..Len(F) :
            ~Readable(F, fs, i) /\ \A j \in 1..(i - 1) : Readable(F, fs, j)

-----------------------------------------------------------------------------
(* Builder.Build: the constants are the Builder's fields, and             *)
(* FileSortAssumption holds exactly the configurations its sanity checks *)
(* accept (key size = len(byDesc) > 0, bufSize > 0, tmpDir exists).  The  *)
(* sorter starts with an empty buffer, no runs, no descriptors and an     *)
(* empty heap.                                                            *)
Init ==
    /\ buf = <<>>
    /\ files = <<>>
    /\ fds = <<>>
    /\ heap = {}
    /\ cursor = 0
    /\ fetched = FALSE
    /\ closed = FALSE
    /\ sortErr = FALSE
    /\ heapErr = FALSE
    /\ removed = FALSE
    /\ nIn = 0
    /\ accepted = {}
    /\ out = <<>>
    /\ nOut = 0
    /\ ret = "none"
    /\ fails = 0

(* flushToFile succeeding: buf sorted, written as a new run, then buf is   *)
(* `after`.                                                               *)
FlushOK(after) ==
    /\ ~sortErr
    /\ \E r \in SortResults(buf) : files' = Append(files, r)
    /\ buf' = after
    /\ UNCHANGED <<sortErr, fails>>

(* flushToFile failing: a comparison error (new or captured earlier), or  *)
(* OpenFile/Write failing after the sort.  buf keeps its rows.            *)
FlushFail ==
    \/ /\ sortErr \/ SortMayFail(buf)
       /\ sortErr' = TRUE
       /\ UNCHANGED <<buf, files, fails>>
    \/ /\ ~sortErr
       /\ fails < MaxFail
       /\ \E r \in SortResults(buf) : buf' = r
       /\ fails' = fails + 1
       /\ UNCHANGED <<files, sortErr>>

NewRow(k) == [key |-> k, handle |-> nIn + 1]

InputCall == nIn < MaxInputs /\ nIn' = nIn + 1

OutputCall == nOut < MaxOutputs /\ nOut' = nOut + 1

(* Input on a closed or already fetched sorter. *)
InputRejected ==
    /\ InputCall
    /\ closed \/ fetched
    /\ ret' = "err"
    /\ UNCHANGED <<buf, files, fds, heap, cursor, fetched, closed, sortErr,
                   heapErr, removed, accepted, out, nOut, fails>>

(* Variant: the spill test is len(buf) > bufSize, one row late. *)
InputBufferedOverfill(k) ==
    /\ InputCall
    /\ ~closed /\ ~fetched
    /\ Len(buf) <= BufSize
    /\ buf' = Append(buf, NewRow(k))
    /\ accepted' = accepted \cup {NewRow(k)}
    /\ ret' = "ok"
    /\ UNCHANGED <<files, fds, heap, cursor, fetched, closed, sortErr, heapErr,
                   removed, out, nOut, fails>>

(* Variant: Input checks only closed, not fetched. *)
InputBufferedAfterFetch(k) ==
    /\ InputCall
    /\ ~closed
    /\ Len(buf) < BufSize
    /\ buf' = Append(buf, NewRow(k))
    /\ accepted' = accepted \cup {NewRow(k)}
    /\ ret' = "ok"
    /\ UNCHANGED <<files, fds, heap, cursor, fetched, closed, sortErr, heapErr,
                   removed, out, nOut, fails>>

(* Input with room in the buffer. *)
InputBuffered(k) ==
    /\ InputCall
    /\ ~closed /\ ~fetched
    /\ Len(buf) < BufSize
    /\ buf' = Append(buf, NewRow(k))
    /\ accepted' = accepted \cup {NewRow(k)}
    /\ ret' = "ok"
    /\ UNCHANGED <<files, fds, heap, cursor, fetched, closed, sortErr, heapErr,
                   removed, out, nOut, fails>>

(* Input on a full buffer: spill it to a new run, then buffer the row. *)
InputSpill(k) ==
    /\ InputCall
    /\ ~closed /\ ~fetched
    /\ Len(buf) >= BufSize
    /\ FlushOK(<<NewRow(k)>>)
    /\ accepted' = accepted \cup {NewRow(k)}
    /\ ret' = "ok"
    /\ UNCHANGED <<fds, heap, cursor, fetched, closed, heapErr, removed, out,
                   nOut>>

(* Input on a full buffer whose spill fails: the row is not taken. *)
InputSpillFailed(k) ==
    /\ InputCall
    /\ ~closed /\ ~fetched
    /\ Len(buf) >= BufSize
    /\ FlushFail
    /\ ret' = "err"
    /\ UNCHANGED <<fds, heap, cursor, fetched, closed, heapErr, removed,
                   accepted, out, nOut>>

(* One pop of heap H over descriptors F, runs fs, with the heap's        *)
(* captured error herr, when heap.Pop returns item m: a failed heap step   *)
(* drops m; otherwise the next row of m's run refills the heap and m's     *)
(* row is returned.                                                       *)
PopItem(m, H, F, fs, herr) ==
    \/ /\ herr \/ HeapMayFail(H)
       /\ heap' = H \ {m} /\ fds' = F
       /\ heapErr' = TRUE
       /\ ret' = "err"
       /\ UNCHANGED <<out, fails>>
    \/ /\ ~herr
       /\ IsHeapMin(m, H)
       /\ LET f == F[m.index]
              x == [index |-> m.index, value |-> NextOf(f, fs)]
          IN \/ /\ ~f.open
                /\ heap' = H \ {m} /\ fds' = F
                /\ ret' = "err"
                /\ UNCHANGED <<out, heapErr, fails>>
             \/ /\ f.open /\ fails < MaxFail
                /\ heap' = H \ {m} /\ fds' = F
                /\ fails' = fails + 1
                /\ ret' = "err"
                /\ UNCHANGED <<out, heapErr>>
             \/ /\ f.open /\ ~HasNext(f, fs)
                /\ heap' = H \ {m} /\ fds' = F
                /\ out' = Append(out, m.value)
                /\ ret' = "row"
                /\ UNCHANGED <<heapErr, fails>>
             \/ /\ f.open /\ HasNext(f, fs)
                /\ heap' = (H \ {m}) \cup {x}
                /\ fds' = [F EXCEPT ![m.index] = Bumped(F[m.index])]
                /\ \/ /\ HeapMayFail((H \ {m}) \cup {x})
                      /\ heapErr' = TRUE
                      /\ ret' = "err"
                      /\ UNCHANGED out
                   \/ /\ out' = Append(out, m.value)
                      /\ ret' = "row"
                      /\ UNCHANGED heapErr
                /\ UNCHANGED fails

(* The pop stage of externalSort on heap H, descriptors F, runs fs, with  *)
(* the heap's captured error herr: end of data on an empty heap, else pop *)
(* the least item, refill the heap from the same descriptor, return the   *)
(* popped row.                                                            *)
PopFrom(H, F, fs, herr) ==
    \/ /\ H = {}
       /\ heap' = H /\ fds' = F
       /\ ret' = "eod"
       /\ UNCHANGED <<out, heapErr, fails>>
    \/ \E m \in H : PopItem(m, H, F, fs, herr)

(* The priming loop of externalSort over descriptors F and runs fs: read  *)
(* one row from every descriptor and push it; on success the sorter is    *)
(* fetched and the same call pops.                                        *)
Prime(F, fs) ==
    LET stop == FirstUnreadable(F, fs) IN
    \/ /\ stop <= Len(F)
       /\ fds' = Advance(F, stop - 1)
       /\ heap' = heap \cup Pushed(F, fs, stop - 1)
       /\ ret' = "err"
       /\ UNCHANGED <<fetched, out, heapErr, fails>>
    \/ \E j \in 1..(stop - 1) :
         /\ fails < MaxFail
         /\ fds' = Advance(F, j - 1)
         /\ heap' = heap \cup Pushed(F, fs, j - 1)
         /\ fails' = fails + 1
         /\ ret' = "err"
         /\ UNCHANGED <<fetched, out, heapErr>>
    \/ \E j \in 1..(stop - 1) :
         /\ HeapMayFail(heap \cup Pushed(F, fs, j))
         /\ fds' = Advance(F, j)
         /\ heap' = heap \cup Pushed(F, fs, j)
         /\ heapErr' = TRUE
         /\ ret' = "err"
         /\ UNCHANGED <<fetched, out, fails>>
    \/ /\ stop = Len(F) + 1
       /\ fetched' = TRUE
       /\ PopFrom(heap \cup Pushed(F, fs, Len(F)), Advance(F, Len(F)), fs, FALSE)

(* externalSort before the first fetch, once the buffer is flushed into   *)
(* the runs fs: heap.Init, openAllFiles, then the priming loop.           *)
StartMerge(fs) ==
    \/ /\ heapErr \/ HeapMayFail(heap)
       /\ heapErr' = TRUE
       /\ ret' = "err"
       /\ UNCHANGED <<fds, heap, fetched, out, fails>>
    \/ /\ ~heapErr
       /\ \/ \E j \in 1..Len(fs) :
               /\ fails < MaxFail
               /\ fds' = fds \o Opened(j - 1)
               /\ fails' = fails + 1
               /\ ret' = "err"
               /\ UNCHANGED <<heap, fetched, out, heapErr>>
          \/ Prime(fds \o Opened(Len(fs)), fs)

(* Output on a closed sorter. *)
OutputRejected ==
    /\ closed
    /\ OutputCall
    /\ ret' = "err"
    /\ UNCHANGED <<buf, files, fds, heap, cursor, fetched, closed, sortErr,
                   heapErr, removed, nIn, accepted, out, fails>>

(* Output with no run files: internalSort sorts the buffer once and then  *)
(* serves it by a cursor.                                                 *)
(* Variant: the cursor is not advanced, so the same row is served again. *)
ServeRepeat(s) ==
    \/ /\ cursor < Len(s)
       /\ out' = Append(out, s[cursor + 1])
       /\ ret' = "row"
       /\ UNCHANGED cursor
    \/ /\ cursor >= Len(s)
       /\ ret' = "eod"
       /\ UNCHANGED <<out, cursor>>

Serve(s) ==
    \/ /\ cursor < Len(s)
       /\ out' = Append(out, s[cursor + 1])
       /\ cursor' = cursor + 1
       /\ ret' = "row"
    \/ /\ cursor >= Len(s)
       /\ ret' = "eod"
       /\ UNCHANGED <<out, cursor>>

OutputInMemory ==
    /\ ~closed
    /\ files = <<>>
    /\ OutputCall
    /\ \/ /\ ~fetched
          /\ sortErr \/ SortMayFail(buf)
          /\ sortErr' = TRUE
          /\ ret' = "err"
          /\ UNCHANGED <<buf, fetched, cursor, out>>
       \/ /\ ~fetched /\ ~sortErr
          /\ \E r \in SortResults(buf) : buf' = r /\ Serve(r)
          /\ fetched' = TRUE
          /\ UNCHANGED sortErr
       \/ /\ fetched
          /\ Serve(buf)
          /\ UNCHANGED <<buf, fetched, sortErr>>
    /\ UNCHANGED <<files, fds, heap, closed, heapErr, removed, nIn, accepted,
                   fails>>

(* Output with run files, first fetch: flush the remaining buffer as a    *)
(* last run, then start the k-way merge.                                  *)
OutputMergeStart ==
    /\ ~closed
    /\ files # <<>>
    /\ ~fetched
    /\ OutputCall
    /\ \/ /\ Len(buf) > 0
          /\ FlushFail
          /\ ret' = "err"
          /\ UNCHANGED <<fds, heap, fetched, out, heapErr>>
       \/ /\ Len(buf) > 0
          /\ ~sortErr
          /\ \E r \in SortResults(buf) : files' = Append(files, r)
          /\ buf' = <<>>
          /\ StartMerge(files')
          /\ UNCHANGED sortErr
       \/ /\ Len(buf) = 0
          /\ StartMerge(files)
          /\ UNCHANGED <<buf, files, sortErr>>
    /\ UNCHANGED <<cursor, closed, removed, nIn, accepted>>

(* Output with run files after the first fetch: one merge step. *)
OutputMergeNext ==
    /\ ~closed
    /\ files # <<>>
    /\ fetched
    /\ OutputCall
    /\ PopFrom(heap, fds, files, heapErr)
    /\ UNCHANGED <<buf, files, cursor, fetched, closed, sortErr, removed, nIn,
                   accepted>>

(* fd.Close on descriptors 1..n; a failing Close still releases its fd. *)
CloseFds(n) ==
    [i \in DOMAIN fds |-> IF i <= n THEN Shut(fds[i]) ELSE fds[i]]

FirstClosedFd ==
    IF \A i \in 1..Len(fds) : fds[i].open
    THEN Len(fds) + 1
    ELSE CHOOSE i \in 1..Len(fds) :
            ~fds[i].open /\ \A j \in 1..(i - 1) : fds[j].open

CloseRejected ==
    /\ closed
    /\ ret' = "err"
    /\ UNCHANGED <<buf, files, fds, heap, cursor, fetched, closed, sortErr,
                   heapErr, removed, nIn, accepted, out, nOut, fails>>

(* Close with os.RemoveAll moved before the descriptor loop. *)
CloseRemoveFirst ==
    /\ ~closed
    /\ buf' = <<>>
    /\ removed' = TRUE
    /\ LET stop == FirstClosedFd IN
       \/ /\ stop <= Len(fds)
          /\ fds' = CloseFds(stop)
          /\ ret' = "err"
          /\ UNCHANGED <<closed, fails>>
       \/ \E j \in 1..(stop - 1) :
            /\ fails < MaxFail
            /\ fds' = CloseFds(j)
            /\ fails' = fails + 1
            /\ ret' = "err"
            /\ UNCHANGED closed
       \/ /\ stop = Len(fds) + 1
          /\ fds' = CloseFds(Len(fds))
          /\ closed' = TRUE
          /\ ret' = "ok"
          /\ UNCHANGED fails
    /\ UNCHANGED <<files, heap, cursor, fetched, sortErr, heapErr, nIn,
                   accepted, out, nOut>>

(* Close: discard the buffer, close every descriptor, remove the working  *)
(* directory; only when all of that succeeds is the sorter closed.        *)
Close ==
    /\ ~closed
    /\ buf' = <<>>
    /\ LET stop == FirstClosedFd IN
       \/ /\ stop <= Len(fds)
          /\ fds' = CloseFds(stop)
          /\ ret' = "err"
          /\ UNCHANGED <<closed, removed, fails>>
       \/ \E j \in 1..(stop - 1) :
            /\ fails < MaxFail
            /\ fds' = CloseFds(j)
            /\ fails' = fails + 1
            /\ ret' = "err"
            /\ UNCHANGED <<closed, removed>>
       \/ /\ stop = Len(fds) + 1
          /\ fds' = CloseFds(Len(fds))
          /\ \/ /\ fails < MaxFail
                /\ fails' = fails + 1
                /\ ret' = "err"
                /\ UNCHANGED <<closed, removed>>
             \/ /\ removed' = TRUE
                /\ closed' = TRUE
                /\ ret' = "ok"
                /\ UNCHANGED fails
    /\ UNCHANGED <<files, heap, cursor, fetched, sortErr, heapErr, nIn,
                   accepted, out, nOut>>

Next ==
    \/ InputRejected
    \/ \E k \in Key : InputBuffered(k) \/ InputSpill(k) \/ InputSpillFailed(k)
    \/ OutputRejected
    \/ OutputInMemory
    \/ OutputMergeStart
    \/ OutputMergeNext
    \/ CloseRejected
    \/ Close

Spec == Init /\ [][Next]_vars

-----------------------------------------------------------------------------
(* Every variable keeps the shape the code gives it. *)
TypeOK ==
    /\ buf \in Seq(Row)
    /\ files \in Seq(Seq(Row))
    /\ fds \in Seq(Fd)
    /\ heap \subseteq Item
    /\ cursor \in Nat
    /\ fetched \in BOOLEAN /\ closed \in BOOLEAN
    /\ sortErr \in BOOLEAN /\ heapErr \in BOOLEAN /\ removed \in BOOLEAN
    /\ nIn \in 0..MaxInputs
    /\ accepted \subseteq Row
    /\ out \in Seq(Row)
    /\ nOut \in 0..MaxOutputs
    /\ ret \in Results
    /\ fails \in 0..MaxFail

(* Order invariant (spec 8): the rows Output has returned are in          *)
(* comparator order, on the in-memory path and across the k-way merge of  *)
(* spilled runs, whatever failed before.                                  *)
OutputOrdered == InOrder(out)

(* No row is returned twice by Output (conservation, no duplication). *)
NoDuplicateOutput ==
    \A i, j \in 1..Len(out) : i # j => out[i] # out[j]

(* Conservation (spec 8): when Output reports a clean end of data and no  *)
(* error was ever captured or injected, it has returned exactly the rows   *)
(* Input accepted.                                                        *)
CleanEndReturnsAll ==
    (ret = "eod" /\ fails = 0 /\ ~sortErr /\ ~heapErr)
        => RowsOf(out) = accepted /\ Len(out) = Cardinality(accepted)

(* Bounded memory: the buffer never holds more than bufSize rows, and the *)
(* merge heap holds at most one item per open run descriptor.             *)
MergeMemoryBound ==
    /\ Len(buf) <= BufSize
    /\ \A x, y \in heap : x.index = y.index => x = y

(* Removal order (closeAllFiles, filesort.go:373-384): the working        *)
(* directory is removed only by a Close that first closed every run       *)
(* descriptor, and a sorter whose directory is gone is closed, so no later *)
(* Input or Output can read or write a run file in the removed directory. *)
DirRemovedOnlyWhenDone ==
    removed => closed /\ \A i \in DOMAIN fds : ~fds[i].open

-----------------------------------------------------------------------------
(* Refinement: the sorter, run without failures, implements the abstract  *)
(* Sorter.  A row is pending when Input accepted it and Output has not    *)
(* returned it, until Close discards the buffer and the runs.             *)
RowLess(a, b) == lessThan(a.key, b.key)

Abstract == INSTANCE Sorter WITH
    Rows <- Row,
    Less <- RowLess,
    pending <- IF closed THEN {} ELSE accepted \ RowsOf(out)

(* Every behaviour of Input, Output and Close (spill, in-memory serving,  *)
(* k-way merge) is a behaviour of the abstract sorter: each returned row  *)
(* is a least row still pending, none is returned twice or invented, end  *)
(* of data comes only when nothing is pending, and Input stops at the     *)
(* first Output.                                                          *)
SorterRefinement == Abstract!Spec

(* Phase order (spec 3): once Output has been called, no Input is         *)
(* accepted.                                                              *)
InputRejectedAfterOutput == [][nOut > 0 => accepted' = accepted]_vars


=============================================================================
