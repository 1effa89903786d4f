--------------------------- MODULE FileSortProofs ---------------------------
(***************************************************************************)
(* Proofs, for every configuration the Builder accepts, that the          *)
(* FileSorter keeps its types, that the working directory is removed only  *)
(* once every run descriptor is closed, and that without I/O failures the  *)
(* buffer never exceeds bufSize and the merge heap holds one item per      *)
(* descriptor.                                                            *)
(***************************************************************************)
EXTENDS FileSort, SequenceTheorems, WellFoundedInduction, TLAPS

-----------------------------------------------------------------------------
(* sort.Sort permutes the buffer: a result is a sequence of the same rows, *)
(* of the same length, with no row twice if the buffer had none twice.    *)
LEMMA SortResultsProps ==
    ASSUME NEW s \in Seq(Row), NEW t \in SortResults(s)
    PROVE  /\ t \in Seq(Row) /\ Len(t) = Len(s)
           /\ RowsOf(t) = RowsOf(s)
           /\ InOrder(t)
           /\ IsInjective(s) => IsInjective(t)
<1>1. Len(s) \in Nat /\ DOMAIN s = 1..Len(s)
  BY LenProperties
<1>2. PICK p \in Bijection(1..Len(s), 1..Len(s)) : t = [i \in 1..Len(s) |-> s[p[i]]]
  BY DEF SortResults, Permuted
<1>3. /\ \A i \in 1..Len(s) : p[i] \in 1..Len(s)
      /\ \A j \in 1..Len(s) : \E i \in 1..Len(s) : p[i] = j
      /\ \A a, b \in 1..Len(s) : p[a] = p[b] => a = b
  BY DEF Bijection, Injection, Surjection, IsInjective
<1>4. \A i \in 1..Len(s) : s[p[i]] \in Row
  BY <1>3, ElementOfSeq
<1>5. t \in Seq(Row)
  BY <1>1, <1>2, <1>4, IsASeq
<1>6. Len(t) = Len(s)
  BY <1>1, <1>2, <1>5, LenProperties
<1>7. RowsOf(t) = RowsOf(s)
  <2>1. DOMAIN t = 1..Len(s)
    BY <1>2
  <2>2. RowsOf(t) \subseteq RowsOf(s)
    BY <1>1, <1>2, <1>3, <2>1 DEF RowsOf
  <2>3. ASSUME NEW j \in 1..Len(s) PROVE s[j] \in RowsOf(t)
    <3>1. PICK i \in 1..Len(s) : p[i] = j
      BY <1>3
    <3>2. t[i] = s[j]
      BY <1>2, <3>1
    <3>. QED
      BY <2>1, <3>2 DEF RowsOf
  <2>. QED
    BY <1>1, <2>2, <2>3 DEF RowsOf
<1>8. IsInjective(s) => IsInjective(t)
  <2>. SUFFICES ASSUME IsInjective(s), NEW a \in DOMAIN t, NEW b \in DOMAIN t,
                       t[a] = t[b]
                PROVE  a = b
    BY DEF IsInjective
  <2>1. a \in 1..Len(s) /\ b \in 1..Len(s) /\ s[p[a]] = s[p[b]]
    BY <1>2
  <2>2. p[a] \in DOMAIN s /\ p[b] \in DOMAIN s
    BY <1>1, <1>3, <2>1
  <2>3. p[a] = p[b]
    BY <2>1, <2>2 DEF IsInjective
  <2>. QED
    BY <1>3, <2>1, <2>3
<1>9. InOrder(t)
  BY DEF SortResults
<1>. QED
  BY <1>5, <1>6, <1>7, <1>8, <1>9

LEMMA SortResultsType ==
    ASSUME NEW s \in Seq(Row), NEW t \in SortResults(s)
    PROVE  t \in Seq(Row) /\ Len(t) = Len(s)
BY SortResultsProps

(* The priming loop stops at the first descriptor it cannot read, and     *)
(* every descriptor before that one is readable.                          *)
LEMMA FirstUnreadableProps ==
    ASSUME NEW S, NEW F \in Seq(S), NEW fs
    PROVE  /\ FirstUnreadable(F, fs) \in 1..(Len(F) + 1)
           /\ \A i \in 1..(FirstUnreadable(F, fs) - 1) : Readable(F, fs, i)
<1>1. Len(F) \in Nat
  BY LenProperties
<1>2. CASE \A i \in 1..Len(F) : Readable(F, fs, i)
  BY <1>1, <1>2 DEF FirstUnreadable
<1>3. CASE ~\A i \in 1..Len(F) : Readable(F, fs, i)
  <2>. DEFINE T == {i \in 1..Len(F) : ~Readable(F, fs, i)}
  <2>1. T \subseteq Nat /\ T # {}
    BY <1>1, <1>3
  <2>2. PICK x \in T : \A y \in T : ~(<<y, x>> \in OpToRel(<, Nat))
    BY <2>1, WFMin, NatLessThanWellFounded
  <2>3. \A y \in T : ~(y < x)
    BY <2>2, <2>1 DEF OpToRel
  <2>4. \E i \in 1..Len(F) :
            ~Readable(F, fs, i) /\ \A j \in 1..(i - 1) : Readable(F, fs, j)
    BY <2>3, <1>1
  <2>. DEFINE c == CHOOSE i \in 1..Len(F) :
            ~Readable(F, fs, i) /\ \A j \in 1..(i - 1) : Readable(F, fs, j)
  <2>5. c \in 1..Len(F) /\ \A j \in 1..(c - 1) : Readable(F, fs, j)
    BY <2>4
  <2>6. FirstUnreadable(F, fs) = c
    BY <1>3 DEF FirstUnreadable
  <2>. QED
    BY <2>5, <2>6, <1>1
<1>. QED
  BY <1>2, <1>3

(* Close stops at the first descriptor that is already closed. *)
LEMMA FirstClosedFdProps ==
    ASSUME NEW S, fds \in Seq(S)
    PROVE  FirstClosedFd \in 1..(Len(fds) + 1)
<1>1. Len(fds) \in Nat
  BY LenProperties
<1>2. CASE \A i \in 1..Len(fds) : fds[i].open
  BY <1>1, <1>2 DEF FirstClosedFd
<1>3. CASE ~\A i \in 1..Len(fds) : fds[i].open
  <2>. DEFINE T == {i \in 1..Len(fds) : ~fds[i].open}
  <2>1. T \subseteq Nat /\ T # {}
    BY <1>1, <1>3
  <2>2. PICK x \in T : \A y \in T : ~(<<y, x>> \in OpToRel(<, Nat))
    BY <2>1, WFMin, NatLessThanWellFounded
  <2>3. \A y \in T : ~(y < x)
    BY <2>2, <2>1 DEF OpToRel
  <2>4. \E i \in 1..Len(fds) : ~fds[i].open /\ \A j \in 1..(i - 1) : fds[j].open
    BY <2>3, <1>1
  <2>. QED
    BY <2>4, <1>1, <1>3 DEF FirstClosedFd
<1>. QED
  BY <1>2, <1>3

-----------------------------------------------------------------------------
(* Descriptors F read runs of fs, and heap items H come from descriptors  *)
(* of F: what the merge needs for fetchNextRow to read a row of a run.    *)
FdsOn(F, fs) == F \in Seq(Fd) /\ \A i \in DOMAIN F : F[i].file \in 1..Len(fs)
HeapOn(H, F) == H \subseteq Item /\ \A m \in H : m.index \in DOMAIN F

(* A readable descriptor yields a row. *)
LEMMA NextOfRow ==
    ASSUME NEW fs \in Seq(Seq(Row)), NEW f \in Fd, f.file \in 1..Len(fs),
           HasNext(f, fs)
    PROVE  NextOf(f, fs) \in Row
<1>1. fs[f.file] \in Seq(Row)
  BY ElementOfSeq
<1>2. f.pos + 1 \in 1..Len(fs[f.file])
  BY <1>1, LenProperties DEF HasNext, Fd
<1>. QED
  BY <1>1, <1>2, ElementOfSeq DEF NextOf

(* The priming reads keep the descriptors on their runs. *)
LEMMA AdvanceType ==
    ASSUME NEW fs, NEW F, FdsOn(F, fs), NEW n \in Int
    PROVE  FdsOn(Advance(F, n), fs) /\ Len(Advance(F, n)) = Len(F)
<1>1. Len(F) \in Nat /\ DOMAIN F = 1..Len(F) /\ \A i \in 1..Len(F) : F[i] \in Fd
  BY LenProperties DEF FdsOn
<1>2. \A i \in 1..Len(F) : Bumped(F[i]) \in Fd /\ Bumped(F[i]).file = F[i].file
  BY <1>1 DEF Bumped, Fd
<1>3. Advance(F, n) = [i \in 1..Len(F) |-> IF i <= n THEN Bumped(F[i]) ELSE F[i]]
  BY <1>1 DEF Advance
<1>4. Advance(F, n) \in Seq(Fd)
  BY <1>1, <1>2, <1>3, IsASeq
<1>. QED
  BY <1>1, <1>2, <1>3, <1>4, LenProperties DEF FdsOn

(* The items the priming loop pushes from descriptors 1..n. *)
LEMMA PushedType ==
    ASSUME NEW fs \in Seq(Seq(Row)), NEW F, FdsOn(F, fs),
           NEW n \in 0..Len(F), \A i \in 1..n : Readable(F, fs, i)
    PROVE  /\ Pushed(F, fs, n) \subseteq Item
           /\ \A m \in Pushed(F, fs, n) : m.index \in 1..n
<1>1. Len(F) \in Nat /\ DOMAIN F = 1..Len(F) /\ \A i \in 1..Len(F) : F[i] \in Fd
  BY LenProperties DEF FdsOn
<1>2. \A i \in 1..n : NextOf(F[i], fs) \in Row
  BY <1>1, NextOfRow DEF FdsOn, Readable
<1>. QED
  BY <1>1, <1>2 DEF Pushed, Item

(* One merge step keeps descriptors on their runs and items on their     *)
(* descriptors, and returns a row of the heap or nothing.                 *)
LEMMA PopFromType ==
    ASSUME NEW H, NEW F, NEW fs \in Seq(Seq(Row)), NEW herr,
           FdsOn(F, fs), HeapOn(H, F),
           out \in Seq(Row), heapErr \in BOOLEAN, fails \in 0..MaxFail,
           PopFrom(H, F, fs, herr)
    PROVE  /\ FdsOn(fds', fs) /\ DOMAIN fds' = DOMAIN F
           /\ HeapOn(heap', fds')
           /\ out' \in Seq(Row) /\ ret' \in Results
           /\ heapErr' \in BOOLEAN /\ fails' \in 0..MaxFail
<1>1. Len(F) \in Nat /\ DOMAIN F = 1..Len(F) /\ \A i \in 1..Len(F) : F[i] \in Fd
  BY LenProperties DEF FdsOn
<1>2. \A m \in H : m \in Item /\ m.index \in 1..Len(F)
  BY <1>1 DEF HeapOn
<1>3. \A m \in H : HasNext(F[m.index], fs) => NextOf(F[m.index], fs) \in Row
  BY <1>1, <1>2, NextOfRow DEF FdsOn
<1>4. \A m \in H :
        LET G == [F EXCEPT ![m.index] = Bumped(F[m.index])]
        IN  FdsOn(G, fs) /\ DOMAIN G = DOMAIN F
  <2>. SUFFICES ASSUME NEW m \in H
                PROVE  LET G == [F EXCEPT ![m.index] = Bumped(F[m.index])]
                       IN  FdsOn(G, fs) /\ DOMAIN G = DOMAIN F
    OBVIOUS
  <2>1. Bumped(F[m.index]) \in Fd /\ Bumped(F[m.index]).file = F[m.index].file
    BY <1>1, <1>2 DEF Bumped, Fd
  <2>. QED
    BY <1>1, <1>2, <2>1, ExceptSeq DEF FdsOn
<1>5. \A m \in H : Append(out, m.value) \in Seq(Row)
  BY <1>2, AppendProperties DEF Item
<1>. DEFINE Goal == /\ FdsOn(fds', fs) /\ DOMAIN fds' = DOMAIN F
                   /\ HeapOn(heap', fds')
                   /\ out' \in Seq(Row) /\ ret' \in Results
                   /\ heapErr' \in BOOLEAN /\ fails' \in 0..MaxFail
<1>6. ASSUME NEW m \in H, heap' = H \ {m}, fds' = F,
             out' \in {out, Append(out, m.value)},
             ret' \in Results, heapErr' \in BOOLEAN, fails' \in 0..MaxFail
      PROVE  Goal
  BY <1>2, <1>5, <1>6 DEF HeapOn
<1>7. ASSUME NEW m \in H, HasNext(F[m.index], fs),
             heap' = (H \ {m}) \cup {[index |-> m.index, value |-> NextOf(F[m.index], fs)]},
             fds' = [F EXCEPT ![m.index] = Bumped(F[m.index])],
             out' \in {out, Append(out, m.value)},
             ret' \in Results, heapErr' \in BOOLEAN, fails' = fails
      PROVE  Goal
  <2>1. FdsOn(fds', fs) /\ DOMAIN fds' = DOMAIN F
    BY <1>4, <1>7
  <2>2. heap' \subseteq Item
    BY <1>2, <1>3, <1>7 DEF Item
  <2>3. \A x \in heap' : x.index \in DOMAIN fds'
    BY <1>2, <1>7, <2>1 DEF HeapOn
  <2>. QED
    BY <1>5, <1>7, <2>1, <2>2, <2>3 DEF HeapOn
<1>8. CASE H = {} /\ heap' = H /\ fds' = F /\ ret' = "eod"
              /\ UNCHANGED <<out, heapErr, fails>>
  BY <1>8, <1>1 DEF HeapOn, Results
<1>9. CASE \E m \in H : PopItem(m, H, F, fs, herr)
  <2>. PICK m \in H : PopItem(m, H, F, fs, herr)
    BY <1>9
  <2>1. fails \in Int /\ MaxFail \in Nat
    BY FileSortAssumption
  <2>2. fails < MaxFail => fails + 1 \in 0..MaxFail
    BY <2>1
  <2>3. ASSUME heap' = H \ {m}, fds' = F, heapErr' = TRUE, ret' = "err",
               UNCHANGED <<out, fails>>
        PROVE  Goal
    BY <2>3, <1>6 DEF Results
  <2>4. ASSUME heap' = H \ {m}, fds' = F, ret' = "err",
               UNCHANGED <<out, heapErr, fails>>
        PROVE  Goal
    BY <2>4, <1>6 DEF Results
  <2>5. ASSUME fails < MaxFail, heap' = H \ {m}, fds' = F, fails' = fails + 1,
               ret' = "err", UNCHANGED <<out, heapErr>>
        PROVE  Goal
    BY <2>5, <2>2, <1>6 DEF Results
  <2>6. ASSUME heap' = H \ {m}, fds' = F, out' = Append(out, m.value),
               ret' = "row", UNCHANGED <<heapErr, fails>>
        PROVE  Goal
    BY <2>6, <1>6 DEF Results
  <2>7. ASSUME HasNext(F[m.index], fs),
               heap' = (H \ {m}) \cup {[index |-> m.index, value |-> NextOf(F[m.index], fs)]},
               fds' = [F EXCEPT ![m.index] = Bumped(F[m.index])],
               \/ heapErr' = TRUE /\ ret' = "err" /\ out' = out
               \/ out' = Append(out, m.value) /\ ret' = "row" /\ heapErr' = heapErr,
               fails' = fails
        PROVE  Goal
    BY <2>7, <1>7 DEF Results
  <2>. QED
    BY <2>3, <2>4, <2>5, <2>6, <2>7 DEF PopItem
<1>. QED
  BY <1>8, <1>9 DEF PopFrom

(* Runs are only appended: descriptors on the runs of fs stay on the runs *)
(* of a longer fs2.                                                       *)
LEMMA FdsOnGrow ==
    ASSUME NEW F, NEW fs \in Seq(Seq(Row)), NEW fs2 \in Seq(Seq(Row)),
           FdsOn(F, fs), Len(fs) <= Len(fs2)
    PROVE  FdsOn(F, fs2)
BY LenProperties DEF FdsOn

(* openAllFiles appends descriptors on the first n runs. *)
LEMMA OpenedOn ==
    ASSUME NEW G, NEW fs \in Seq(Seq(Row)), FdsOn(G, fs), NEW n \in 0..Len(fs)
    PROVE  /\ FdsOn(G \o Opened(n), fs)
           /\ DOMAIN G \subseteq DOMAIN (G \o Opened(n))
           /\ Len(G \o Opened(n)) = Len(G) + n
<1>1. Len(G) \in Nat /\ DOMAIN G = 1..Len(G) /\ G \in Seq(Fd)
  BY LenProperties DEF FdsOn
<1>2. Opened(n) \in Seq(Fd) /\ Len(Opened(n)) = n
  <2>1. \A i \in 1..n : [file |-> i, pos |-> 0, open |-> TRUE] \in Fd
    BY DEF Fd
  <2>. QED
    BY <2>1, IsASeq, LenProperties DEF Opened
<1>3. /\ G \o Opened(n) \in Seq(Fd)
      /\ Len(G \o Opened(n)) = Len(G) + n
      /\ \A i \in 1..(Len(G) + n) :
            (G \o Opened(n))[i] = IF i <= Len(G) THEN G[i] ELSE Opened(n)[i - Len(G)]
  BY <1>1, <1>2, ConcatProperties
<1>4. DOMAIN (G \o Opened(n)) = 1..(Len(G) + n)
  BY <1>3, LenProperties
<1>5. \A i \in 1..(Len(G) + n) : (G \o Opened(n))[i].file \in 1..Len(fs)
  BY <1>1, <1>3 DEF FdsOn, Opened
<1>. QED
  BY <1>1, <1>3, <1>4, <1>5 DEF FdsOn

(* Each prefix of the priming loop leaves descriptors and heap typed. *)
LEMMA PrimeStage ==
    ASSUME NEW fs \in Seq(Seq(Row)), NEW F, FdsOn(F, fs), HeapOn(heap, F),
           NEW n \in 0..(FirstUnreadable(F, fs) - 1)
    PROVE  /\ FdsOn(Advance(F, n), fs)
           /\ DOMAIN Advance(F, n) = DOMAIN F
           /\ HeapOn(heap \cup Pushed(F, fs, n), Advance(F, n))
<1>1. Len(F) \in Nat /\ DOMAIN F = 1..Len(F)
  BY LenProperties DEF FdsOn
<1>2. FirstUnreadable(F, fs) \in 1..(Len(F) + 1)
      /\ \A i \in 1..(FirstUnreadable(F, fs) - 1) : Readable(F, fs, i)
  BY FirstUnreadableProps DEF FdsOn
<1>3. n \in 0..Len(F) /\ \A i \in 1..n : Readable(F, fs, i)
  BY <1>1, <1>2
<1>4. Pushed(F, fs, n) \subseteq Item /\ \A m \in Pushed(F, fs, n) : m.index \in 1..n
  BY <1>3, PushedType
<1>5. FdsOn(Advance(F, n), fs) /\ Len(Advance(F, n)) = Len(F)
  BY <1>3, AdvanceType
<1>6. DOMAIN Advance(F, n) = DOMAIN F
  BY <1>1, <1>5, LenProperties DEF FdsOn
<1>. QED
  BY <1>1, <1>3, <1>4, <1>5, <1>6 DEF HeapOn

(* What the pop and priming stages leave typed. *)
MergeTyped(fs) ==
    /\ FdsOn(fds', fs) /\ HeapOn(heap', fds')
    /\ out' \in Seq(Row) /\ ret' \in Results
    /\ heapErr' \in BOOLEAN /\ fails' \in 0..MaxFail /\ fetched' \in BOOLEAN

(* The priming loop, and the pop it ends in, keep everything typed. *)
LEMMA PrimeType ==
    ASSUME NEW fs \in Seq(Seq(Row)), NEW F, FdsOn(F, fs), HeapOn(heap, F),
           out \in Seq(Row), heapErr \in BOOLEAN, fails \in 0..MaxFail,
           fetched \in BOOLEAN,
           Prime(F, fs)
    PROVE  MergeTyped(fs)
<1>. DEFINE stop == FirstUnreadable(F, fs)
<1>1. Len(F) \in Nat /\ stop \in 1..(Len(F) + 1)
  BY FirstUnreadableProps, LenProperties DEF FdsOn
<1>2. fails \in Int /\ MaxFail \in Nat
  BY FileSortAssumption
<1>3. CASE stop <= Len(F) /\ fds' = Advance(F, stop - 1)
           /\ heap' = heap \cup Pushed(F, fs, stop - 1) /\ ret' = "err"
           /\ UNCHANGED <<fetched, out, heapErr, fails>>
  <2>1. stop - 1 \in 0..(stop - 1)
    BY <1>1
  <2>2. FdsOn(Advance(F, stop - 1), fs)
        /\ HeapOn(heap \cup Pushed(F, fs, stop - 1), Advance(F, stop - 1))
    BY <2>1, PrimeStage
  <2>. QED
    BY <1>3, <2>2 DEF MergeTyped, Results
<1>4. CASE \E j \in 1..(stop - 1) :
             /\ fails < MaxFail
             /\ fds' = Advance(F, j - 1)
             /\ heap' = heap \cup Pushed(F, fs, j - 1)
             /\ fails' = fails + 1
             /\ ret' = "err"
             /\ UNCHANGED <<fetched, out, heapErr>>
  <2>. PICK j \in 1..(stop - 1) :
             /\ fails < MaxFail
             /\ fds' = Advance(F, j - 1)
             /\ heap' = heap \cup Pushed(F, fs, j - 1)
             /\ fails' = fails + 1
             /\ ret' = "err"
             /\ UNCHANGED <<fetched, out, heapErr>>
    BY <1>4
  <2>1. j - 1 \in 0..(stop - 1) /\ fails + 1 \in 0..MaxFail
    BY <1>1, <1>2
  <2>. QED
    BY <2>1, PrimeStage DEF MergeTyped, Results
<1>5. CASE \E j \in 1..(stop - 1) :
             /\ HeapMayFail(heap \cup Pushed(F, fs, j))
             /\ fds' = Advance(F, j)
             /\ heap' = heap \cup Pushed(F, fs, j)
             /\ heapErr' = TRUE
             /\ ret' = "err"
             /\ UNCHANGED <<fetched, out, fails>>
  <2>. PICK j \in 1..(stop - 1) :
             /\ fds' = Advance(F, j)
             /\ heap' = heap \cup Pushed(F, fs, j)
             /\ heapErr' = TRUE
             /\ ret' = "err"
             /\ UNCHANGED <<fetched, out, fails>>
    BY <1>5
  <2>1. j \in 0..(stop - 1)
    BY <1>1
  <2>. QED
    BY <2>1, PrimeStage DEF MergeTyped, Results
<1>6. CASE stop = Len(F) + 1 /\ fetched' = TRUE
           /\ PopFrom(heap \cup Pushed(F, fs, Len(F)), Advance(F, Len(F)), fs, FALSE)
  <2>1. Len(F) \in 0..(stop - 1)
    BY <1>1, <1>6
  <2>2. FdsOn(Advance(F, Len(F)), fs)
        /\ HeapOn(heap \cup Pushed(F, fs, Len(F)), Advance(F, Len(F)))
    BY <2>1, PrimeStage
  <2>. QED
    BY <1>6, <2>2, PopFromType DEF MergeTyped
<1>. QED
  BY <1>3, <1>4, <1>5, <1>6 DEF Prime

(* heap.Init, openAllFiles and the priming loop keep everything typed. *)
LEMMA StartMergeType ==
    ASSUME NEW fs \in Seq(Seq(Row)), FdsOn(fds, fs), HeapOn(heap, fds),
           out \in Seq(Row), heapErr \in BOOLEAN, fails \in 0..MaxFail,
           fetched \in BOOLEAN,
           StartMerge(fs)
    PROVE  MergeTyped(fs)
<1>1. Len(fs) \in Nat /\ fails \in Int /\ MaxFail \in Nat
  BY LenProperties, FileSortAssumption
<1>2. CASE /\ heapErr \/ HeapMayFail(heap)
           /\ heapErr' = TRUE
           /\ ret' = "err"
           /\ UNCHANGED <<fds, heap, fetched, out, fails>>
  BY <1>2 DEF MergeTyped, Results
<1>3. CASE \E j \in 1..Len(fs) :
             /\ fails < MaxFail
             /\ fds' = fds \o Opened(j - 1)
             /\ fails' = fails + 1
             /\ ret' = "err"
             /\ UNCHANGED <<heap, fetched, out, heapErr>>
  <2>. PICK j \in 1..Len(fs) :
             /\ fails < MaxFail
             /\ fds' = fds \o Opened(j - 1)
             /\ fails' = fails + 1
             /\ ret' = "err"
             /\ UNCHANGED <<heap, fetched, out, heapErr>>
    BY <1>3
  <2>1. j - 1 \in 0..Len(fs) /\ fails + 1 \in 0..MaxFail
    BY <1>1
  <2>2. FdsOn(fds', fs) /\ DOMAIN fds \subseteq DOMAIN fds'
    BY <2>1, OpenedOn
  <2>. QED
    BY <2>1, <2>2 DEF MergeTyped, HeapOn, Results
<1>4. CASE Prime(fds \o Opened(Len(fs)), fs)
  <2>1. FdsOn(fds \o Opened(Len(fs)), fs)
        /\ DOMAIN fds \subseteq DOMAIN (fds \o Opened(Len(fs)))
    BY <1>1, OpenedOn
  <2>2. HeapOn(heap, fds \o Opened(Len(fs)))
    BY <2>1 DEF HeapOn
  <2>. QED
    BY <1>4, <2>1, <2>2, PrimeType
<1>. QED
  BY <1>2, <1>3, <1>4 DEF StartMerge

-----------------------------------------------------------------------------
(* The inductive invariant behind TypeOK: every descriptor reads a run    *)
(* that exists, and every heap item names a descriptor, so that a         *)
(* fetchNextRow on a readable descriptor yields a row.                    *)
TInv ==
    /\ TypeOK
    /\ FdsOn(fds, files)
    /\ HeapOn(heap, fds)

LEMMA InitTInv == Init => TInv
<1>. SUFFICES ASSUME Init PROVE TInv
  OBVIOUS
<1>1. <<>> \in Seq(Row) /\ <<>> \in Seq(Seq(Row)) /\ <<>> \in Seq(Fd)
  BY EmptySeq
<1>2. MaxInputs \in Nat /\ MaxOutputs \in Nat /\ MaxFail \in Nat
  BY FileSortAssumption
<1>3. FdsOn(fds, files) /\ HeapOn(heap, fds)
  BY <1>1 DEF Init, FdsOn, HeapOn
<1>4. buf \in Seq(Row) /\ files \in Seq(Seq(Row)) /\ fds \in Seq(Fd)
      /\ out \in Seq(Row)
  BY <1>1 DEF Init
<1>5. /\ heap \subseteq Item /\ accepted \subseteq Row /\ ret \in Results
      /\ cursor \in Nat /\ nIn \in 0..MaxInputs /\ nOut \in 0..MaxOutputs
      /\ fails \in 0..MaxFail
  BY <1>2 DEF Init, Results
<1>6. /\ fetched \in BOOLEAN /\ closed \in BOOLEAN /\ sortErr \in BOOLEAN
      /\ heapErr \in BOOLEAN /\ removed \in BOOLEAN
  BY DEF Init
<1>7. TypeOK
  BY <1>4, <1>5, <1>6 DEF TypeOK
<1>. QED
  BY <1>3, <1>7 DEF TInv

(* TInv in the next state, from one fact per variable. *)
LEMMA TInvPrime ==
    ASSUME buf' \in Seq(Row), files' \in Seq(Seq(Row)),
           FdsOn(fds', files'), HeapOn(heap', fds'),
           cursor' \in Nat, fetched' \in BOOLEAN, closed' \in BOOLEAN,
           sortErr' \in BOOLEAN, heapErr' \in BOOLEAN, removed' \in BOOLEAN,
           nIn' \in 0..MaxInputs, accepted' \subseteq Row, out' \in Seq(Row),
           nOut' \in 0..MaxOutputs, ret' \in Results, fails' \in 0..MaxFail
    PROVE  TInv'
BY DEF TInv, TypeOK, FdsOn, HeapOn

(* Serving the sorted buffer by the cursor returns one of its rows. *)
LEMMA ServeType ==
    ASSUME NEW s \in Seq(Row), cursor \in Nat, out \in Seq(Row), Serve(s)
    PROVE  out' \in Seq(Row) /\ cursor' \in Nat /\ ret' \in Results
<1>1. Len(s) \in Nat
  BY LenProperties
<1>2. cursor < Len(s) => s[cursor + 1] \in Row
  BY <1>1, ElementOfSeq
<1>3. cursor < Len(s) => Append(out, s[cursor + 1]) \in Seq(Row)
  BY <1>2, AppendProperties
<1>4. CASE cursor < Len(s) /\ out' = Append(out, s[cursor + 1])
           /\ cursor' = cursor + 1 /\ ret' = "row"
  BY <1>3, <1>4 DEF Results
<1>5. CASE cursor >= Len(s) /\ ret' = "eod" /\ UNCHANGED <<out, cursor>>
  BY <1>5 DEF Results
<1>. QED
  BY <1>4, <1>5 DEF Serve

(* Input returning an error changes only the call count and the result. *)
LEMMA RejectedStep ==
    ASSUME TInv, InputRejected \/ OutputRejected \/ CloseRejected
    PROVE  TInv'
<1>1. MaxInputs \in Nat /\ MaxOutputs \in Nat
  BY FileSortAssumption
<1>. QED
  BY <1>1 DEF TInv, TypeOK, InputRejected, OutputRejected, CloseRejected,
             InputCall, OutputCall, Results, FdsOn, HeapOn

(* The new row of Input k is a row. *)
LEMMA NewRowType ==
    ASSUME TInv, InputCall, NEW k \in Key
    PROVE  NewRow(k) \in Row /\ nIn' \in 0..MaxInputs
<1>1. MaxInputs \in Nat
  BY FileSortAssumption
<1>. QED
  BY <1>1 DEF TInv, TypeOK, InputCall, NewRow, Row

LEMMA InputBufferedStep ==
    ASSUME TInv, NEW k \in Key, InputBuffered(k)
    PROVE  TInv'
<1>1. NewRow(k) \in Row /\ nIn' \in 0..MaxInputs
  BY NewRowType DEF InputBuffered
<1>2. Append(buf, NewRow(k)) \in Seq(Row)
  BY <1>1, AppendProperties DEF TInv, TypeOK
<1>. QED
  BY <1>1, <1>2 DEF InputBuffered, TInv, TypeOK, FdsOn, HeapOn, Results

LEMMA InputSpillStep ==
    ASSUME TInv, NEW k \in Key, InputSpill(k)
    PROVE  TInv'
<1>1. NewRow(k) \in Row /\ nIn' \in 0..MaxInputs
  BY NewRowType DEF InputSpill
<1>2. PICK r \in SortResults(buf) : files' = Append(files, r)
  BY DEF InputSpill, FlushOK
<1>3. r \in Seq(Row)
  BY SortResultsType DEF TInv, TypeOK
<1>4. files' \in Seq(Seq(Row)) /\ Len(files') = Len(files) + 1
  BY <1>2, <1>3, AppendProperties DEF TInv, TypeOK
<1>5. FdsOn(fds, files')
  BY <1>4, FdsOnGrow DEF TInv, TypeOK
<1>6. <<NewRow(k)>> \in Seq(Row)
  BY <1>1, EmptySeq, AppendProperties
<1>. QED
  BY <1>1, <1>4, <1>5, <1>6 DEF InputSpill, FlushOK, TInv, TypeOK, Results

(* A failed flush leaves the runs alone and the buffer a sequence of rows. *)
LEMMA FlushFailType ==
    ASSUME TInv, FlushFail
    PROVE  buf' \in Seq(Row) /\ fails' \in 0..MaxFail /\ sortErr' \in BOOLEAN
           /\ UNCHANGED files
<1>1. MaxFail \in Nat /\ \A r \in SortResults(buf) : r \in Seq(Row)
  BY SortResultsType, FileSortAssumption DEF TInv, TypeOK
<1>2. CASE /\ sortErr \/ SortMayFail(buf)
           /\ sortErr' = TRUE
           /\ UNCHANGED <<buf, files, fails>>
  BY <1>2 DEF TInv, TypeOK
<1>3. CASE /\ ~sortErr
           /\ fails < MaxFail
           /\ \E r \in SortResults(buf) : buf' = r
           /\ fails' = fails + 1
           /\ UNCHANGED <<files, sortErr>>
  <2>1. fails + 1 \in 0..MaxFail
    BY <1>3, <1>1 DEF TInv, TypeOK
  <2>. QED
    BY <1>3, <2>1, <1>1 DEF TInv, TypeOK
<1>. QED
  BY <1>2, <1>3 DEF FlushFail

LEMMA InputSpillFailedStep ==
    ASSUME TInv, NEW k \in Key, InputSpillFailed(k)
    PROVE  TInv'
<1>1. nIn' \in 0..MaxInputs
  BY NewRowType DEF InputSpillFailed
<1>2. buf' \in Seq(Row) /\ fails' \in 0..MaxFail /\ sortErr' \in BOOLEAN
      /\ UNCHANGED files
  BY FlushFailType DEF InputSpillFailed
<1>. QED
  BY <1>1, <1>2 DEF InputSpillFailed, TInv, TypeOK, Results

LEMMA OutputInMemoryStep ==
    ASSUME TInv, OutputInMemory
    PROVE  TInv'
<1>1. MaxOutputs \in Nat /\ \A r \in SortResults(buf) : r \in Seq(Row)
  BY SortResultsType, FileSortAssumption DEF TInv, TypeOK
<1>2. buf' \in Seq(Row) /\ out' \in Seq(Row) /\ cursor' \in Nat
      /\ ret' \in Results /\ fetched' \in BOOLEAN /\ sortErr' \in BOOLEAN
  <2>1. CASE /\ ~fetched
             /\ sortErr \/ SortMayFail(buf)
             /\ sortErr' = TRUE
             /\ ret' = "err"
             /\ UNCHANGED <<buf, fetched, cursor, out>>
    BY <2>1 DEF TInv, TypeOK, Results
  <2>2. CASE /\ ~fetched /\ ~sortErr
             /\ \E r \in SortResults(buf) : buf' = r /\ Serve(r)
             /\ fetched' = TRUE
             /\ UNCHANGED sortErr
    BY <2>2, <1>1, ServeType DEF TInv, TypeOK
  <2>3. CASE /\ fetched
             /\ Serve(buf)
             /\ UNCHANGED <<buf, fetched, sortErr>>
    BY <2>3, ServeType DEF TInv, TypeOK
  <2>. QED
    BY <2>1, <2>2, <2>3 DEF OutputInMemory
<1>3. nOut' \in 0..MaxOutputs
  BY <1>1 DEF OutputInMemory, OutputCall, TInv, TypeOK
<1>. QED
  BY <1>2, <1>3 DEF OutputInMemory, TInv, TypeOK

LEMMA OutputMergeNextStep ==
    ASSUME TInv, OutputMergeNext
    PROVE  TInv'
<1>1. MaxOutputs \in Nat
  BY FileSortAssumption
<1>2. /\ FdsOn(fds', files) /\ HeapOn(heap', fds')
      /\ out' \in Seq(Row) /\ ret' \in Results
      /\ heapErr' \in BOOLEAN /\ fails' \in 0..MaxFail
  BY PopFromType DEF OutputMergeNext, TInv, TypeOK
<1>3. nOut' \in 0..MaxOutputs
  BY <1>1 DEF OutputMergeNext, OutputCall, TInv, TypeOK
<1>4. /\ buf' \in Seq(Row) /\ files' \in Seq(Seq(Row)) /\ cursor' \in Nat
      /\ fetched' \in BOOLEAN /\ closed' \in BOOLEAN /\ sortErr' \in BOOLEAN
      /\ removed' \in BOOLEAN /\ nIn' \in 0..MaxInputs /\ accepted' \subseteq Row
  BY DEF OutputMergeNext, TInv, TypeOK
<1>5. FdsOn(fds', files') /\ HeapOn(heap', fds')
  BY <1>2 DEF OutputMergeNext
<1>. QED
  BY <1>2, <1>3, <1>4, <1>5, TInvPrime

LEMMA OutputMergeStartStep ==
    ASSUME TInv, OutputMergeStart
    PROVE  TInv'
<1>1. MaxOutputs \in Nat
  BY FileSortAssumption
<1>2. nOut' \in 0..MaxOutputs
  BY <1>1 DEF OutputMergeStart, OutputCall, TInv, TypeOK
<1>3. CASE /\ Len(buf) > 0
           /\ FlushFail
           /\ ret' = "err"
           /\ UNCHANGED <<fds, heap, fetched, out, heapErr>>
  <2>1. buf' \in Seq(Row) /\ fails' \in 0..MaxFail /\ sortErr' \in BOOLEAN
        /\ UNCHANGED files
    BY <1>3, FlushFailType
  <2>. QED
    BY <1>2, <1>3, <2>1 DEF OutputMergeStart, TInv, TypeOK, Results
<1>4. CASE /\ Len(buf) > 0
           /\ ~sortErr
           /\ \E r \in SortResults(buf) : files' = Append(files, r)
           /\ buf' = <<>>
           /\ StartMerge(files')
           /\ UNCHANGED sortErr
  <2>1. PICK r \in SortResults(buf) : files' = Append(files, r)
    BY <1>4
  <2>2. r \in Seq(Row)
    BY SortResultsType DEF TInv, TypeOK
  <2>3. files' \in Seq(Seq(Row)) /\ Len(files') = Len(files) + 1
    BY <2>1, <2>2, AppendProperties DEF TInv, TypeOK
  <2>4. FdsOn(fds, files')
    BY <2>3, FdsOnGrow DEF TInv, TypeOK
  <2>5. MergeTyped(files')
    BY <1>4, <2>3, <2>4, StartMergeType DEF TInv, TypeOK
  <2>6. buf' \in Seq(Row)
    BY <1>4, EmptySeq
  <2>7. /\ cursor' \in Nat /\ closed' \in BOOLEAN /\ sortErr' \in BOOLEAN
        /\ removed' \in BOOLEAN /\ nIn' \in 0..MaxInputs /\ accepted' \subseteq Row
    BY <1>4 DEF OutputMergeStart, TInv, TypeOK
  <2>. QED
    BY <1>2, <2>3, <2>5, <2>6, <2>7, TInvPrime DEF MergeTyped
<1>5. CASE /\ Len(buf) = 0
           /\ StartMerge(files)
           /\ UNCHANGED <<buf, files, sortErr>>
  <2>1. MergeTyped(files)
    BY <1>5, StartMergeType DEF TInv, TypeOK
  <2>2. /\ buf' \in Seq(Row) /\ files' \in Seq(Seq(Row))
        /\ cursor' \in Nat /\ closed' \in BOOLEAN /\ sortErr' \in BOOLEAN
        /\ removed' \in BOOLEAN /\ nIn' \in 0..MaxInputs /\ accepted' \subseteq Row
    BY <1>5 DEF OutputMergeStart, TInv, TypeOK
  <2>3. FdsOn(fds', files')
    BY <1>5, <2>1 DEF MergeTyped
  <2>. QED
    BY <1>2, <2>1, <2>2, <2>3, TInvPrime DEF MergeTyped
<1>. QED
  BY <1>3, <1>4, <1>5 DEF OutputMergeStart

(* Closing any prefix of the descriptors keeps them on their runs. *)
LEMMA CloseFdsType ==
    ASSUME TInv, NEW n \in Int
    PROVE  /\ FdsOn(CloseFds(n), files)
           /\ DOMAIN CloseFds(n) = DOMAIN fds
           /\ n >= Len(fds) => \A i \in DOMAIN CloseFds(n) : ~CloseFds(n)[i].open
<1>1. Len(fds) \in Nat /\ DOMAIN fds = 1..Len(fds) /\ \A i \in 1..Len(fds) : fds[i] \in Fd
  BY LenProperties DEF TInv, TypeOK
<1>2. \A i \in 1..Len(fds) : Shut(fds[i]) \in Fd /\ Shut(fds[i]).file = fds[i].file
                            /\ Shut(fds[i]).open = FALSE
  BY <1>1 DEF Shut, Fd
<1>3. CloseFds(n) = [i \in 1..Len(fds) |-> IF i <= n THEN Shut(fds[i]) ELSE fds[i]]
  BY <1>1 DEF CloseFds
<1>4. CloseFds(n) \in Seq(Fd)
  BY <1>1, <1>2, <1>3, IsASeq
<1>. QED
  BY <1>1, <1>2, <1>3, <1>4 DEF FdsOn, TInv

LEMMA CloseStep ==
    ASSUME TInv, Close
    PROVE  TInv'
<1>1. FirstClosedFd \in 1..(Len(fds) + 1) /\ Len(fds) \in Nat /\ MaxFail \in Nat
  BY FirstClosedFdProps, LenProperties, FileSortAssumption DEF TInv, TypeOK
<1>2. \E n \in Int : fds' = CloseFds(n)
  BY <1>1 DEF Close
<1>3. FdsOn(fds', files) /\ DOMAIN fds' = DOMAIN fds
  BY <1>2, CloseFdsType
<1>4. /\ fails' = fails \/ (fails < MaxFail /\ fails' = fails + 1)
      /\ ret' \in Results /\ closed' \in BOOLEAN /\ removed' \in BOOLEAN
  BY DEF Close, TInv, TypeOK, Results
<1>7. fails' \in 0..MaxFail
  BY <1>1, <1>4 DEF TInv, TypeOK
<1>5. buf' \in Seq(Row)
  BY EmptySeq DEF Close
<1>6. /\ files' \in Seq(Seq(Row)) /\ HeapOn(heap', fds') /\ cursor' \in Nat
      /\ fetched' \in BOOLEAN /\ sortErr' \in BOOLEAN /\ heapErr' \in BOOLEAN
      /\ nIn' \in 0..MaxInputs /\ accepted' \subseteq Row /\ out' \in Seq(Row)
      /\ nOut' \in 0..MaxOutputs
  BY <1>3 DEF Close, TInv, TypeOK, HeapOn
<1>8. FdsOn(fds', files')
  BY <1>3 DEF Close
<1>. QED
  BY <1>4, <1>5, <1>6, <1>7, <1>8, TInvPrime

LEMMA NextTInv == TInv /\ [Next]_vars => TInv'
<1>. SUFFICES ASSUME TInv, [Next]_vars PROVE TInv'
  OBVIOUS
<1>1. CASE InputRejected \/ OutputRejected \/ CloseRejected
  BY <1>1, RejectedStep
<1>2. CASE \E k \in Key : InputBuffered(k) \/ InputSpill(k) \/ InputSpillFailed(k)
  BY <1>2, InputBufferedStep, InputSpillStep, InputSpillFailedStep
<1>3. CASE OutputInMemory
  BY <1>3, OutputInMemoryStep
<1>4. CASE OutputMergeStart
  BY <1>4, OutputMergeStartStep
<1>5. CASE OutputMergeNext
  BY <1>5, OutputMergeNextStep
<1>6. CASE Close
  BY <1>6, CloseStep
<1>7. CASE UNCHANGED vars
  BY <1>7 DEF TInv, TypeOK, FdsOn, HeapOn, vars
<1>. QED
  BY <1>1, <1>2, <1>3, <1>4, <1>5, <1>6, <1>7 DEF Next

(* Every variable of the FileSorter keeps its type, every descriptor in   *)
(* fs.fds reads an existing run file and every heap item names one of     *)
(* them: so every row fetchNextRow reads, pushes and returns is a row of  *)
(* a run, whatever open, write, read or close fails.                      *)
THEOREM TypeCorrect == Spec => []TInv
BY InitTInv, NextTInv, PTL DEF Spec

-----------------------------------------------------------------------------
(* closeAllFiles removes the directory only after every fd.Close, and     *)
(* only its success marks the sorter closed; every other action either    *)
(* needs an open sorter or leaves the descriptors alone.                  *)
LEMMA NextDirRemoved ==
    TInv /\ DirRemovedOnlyWhenDone /\ [Next]_vars => DirRemovedOnlyWhenDone'
<1>. SUFFICES ASSUME TInv, DirRemovedOnlyWhenDone, [Next]_vars
              PROVE  DirRemovedOnlyWhenDone'
  OBVIOUS
<1>1. CASE InputRejected \/ OutputRejected \/ CloseRejected \/ UNCHANGED vars
  BY <1>1 DEF InputRejected, OutputRejected, CloseRejected, vars,
              DirRemovedOnlyWhenDone
<1>2. CASE \/ \E k \in Key : InputBuffered(k) \/ InputSpill(k) \/ InputSpillFailed(k)
           \/ OutputInMemory \/ OutputMergeStart \/ OutputMergeNext
  <2>1. ~closed /\ removed' = removed
    BY <1>2 DEF InputBuffered, InputSpill, InputSpillFailed, OutputInMemory,
                OutputMergeStart, OutputMergeNext
  <2>. QED
    BY <2>1 DEF DirRemovedOnlyWhenDone
<1>3. CASE Close
  <2>1. CASE removed' = removed
    BY <1>3, <2>1 DEF Close, DirRemovedOnlyWhenDone
  <2>2. CASE removed' # removed
    <3>1. fds' = CloseFds(Len(fds)) /\ closed' = TRUE
      BY <1>3, <2>2 DEF Close
    <3>2. Len(fds) \in Int
      BY LenProperties DEF TInv, TypeOK
    <3>3. \A i \in DOMAIN fds' : ~fds'[i].open
      BY <3>1, <3>2, CloseFdsType
    <3>. QED
      BY <3>1, <3>3 DEF DirRemovedOnlyWhenDone
  <2>. QED
    BY <2>1, <2>2
<1>. QED
  BY <1>1, <1>2, <1>3 DEF Next

(* The working directory is removed only by a Close that closed every run *)
(* descriptor first, and a sorter whose directory is gone stays closed:   *)
(* closeAllFiles (filesort.go:373-384) never deletes a run file still     *)
(* open for reading.                                                      *)
THEOREM DirRemovedSafe == Spec => []DirRemovedOnlyWhenDone
<1>1. Init => DirRemovedOnlyWhenDone
  BY DEF Init, DirRemovedOnlyWhenDone
<1>2. Spec => [](TInv /\ DirRemovedOnlyWhenDone)
  BY <1>1, InitTInv, NextTInv, NextDirRemoved, PTL DEF Spec
<1>. QED
  BY <1>2, PTL

-----------------------------------------------------------------------------
(* The inductive invariant behind MergeMemoryBound when no I/O fails.     *)
(* Every run file holds at least one row (a flush happens only on a       *)
(* non-empty buffer), so the priming loop of a fresh merge reads every    *)
(* descriptor; until the first fetch or a heap error the heap and the     *)
(* descriptors are untouched; and the heap never holds two items of one   *)
(* descriptor.                                                            *)
RunsNonEmpty == \A i \in DOMAIN files : Len(files[i]) > 0

FreshMerge == (~fetched /\ ~heapErr) => heap = {} /\ fds = <<>>

MInv ==
    /\ TInv
    /\ fails = 0
    /\ RunsNonEmpty
    /\ FreshMerge
    /\ MergeMemoryBound

(* At most one heap item per descriptor. *)
UniqueIdx(H) == \A x, y \in H : x.index = y.index => x = y

(* The priming loop pushes one item per descriptor. *)
LEMMA PushedUnique ==
    ASSUME NEW F, NEW fs, NEW n
    PROVE  UniqueIdx(Pushed(F, fs, n))
BY DEF UniqueIdx, Pushed

(* A pop removes the item of one descriptor and pushes at most one item  *)
(* of that same descriptor back.                                          *)
LEMMA PopFromUnique ==
    ASSUME NEW H, NEW F, NEW fs, NEW herr, UniqueIdx(H),
           PopFrom(H, F, fs, herr)
    PROVE  UniqueIdx(heap')
<1>1. CASE heap' = H
  BY <1>1
<1>2. CASE \E m \in H : heap' = H \ {m}
  BY <1>2 DEF UniqueIdx
<1>3. CASE \E m \in H : heap' = (H \ {m}) \cup {[index |-> m.index, value |-> NextOf(F[m.index], fs)]}
  <2>. PICK m \in H : heap' = (H \ {m}) \cup {[index |-> m.index, value |-> NextOf(F[m.index], fs)]}
    BY <1>3
  <2>1. \A y \in H \ {m} : y.index # m.index
    BY DEF UniqueIdx
  <2>. QED
    BY <2>1 DEF UniqueIdx
<1>. QED
  <2>1. \/ heap' = H
        \/ \E m \in H : heap' = H \ {m}
        \/ \E m \in H : heap' = (H \ {m}) \cup {[index |-> m.index, value |-> NextOf(F[m.index], fs)]}
    BY Zenon DEF PopFrom, PopItem
  <2>. QED
    BY <1>1, <1>2, <1>3, <2>1

(* The fresh descriptors openAllFiles returns on non-empty runs are all   *)
(* readable, so the priming loop runs to the end.                         *)
LEMMA FreshReadable ==
    ASSUME NEW fs \in Seq(Seq(Row)), \A i \in DOMAIN fs : Len(fs[i]) > 0
    PROVE  /\ <<>> \o Opened(Len(fs)) = Opened(Len(fs))
           /\ Len(Opened(Len(fs))) = Len(fs)
           /\ FirstUnreadable(Opened(Len(fs)), fs) = Len(fs) + 1
<1>1. Len(fs) \in Nat /\ DOMAIN fs = 1..Len(fs)
  BY LenProperties
<1>2. Opened(Len(fs)) \in Seq(Fd) /\ Len(Opened(Len(fs))) = Len(fs)
  <2>1. \A i \in 1..Len(fs) : [file |-> i, pos |-> 0, open |-> TRUE] \in Fd
    BY DEF Fd
  <2>. QED
    BY <1>1, <2>1, IsASeq, LenProperties DEF Opened
<1>3. <<>> \o Opened(Len(fs)) = Opened(Len(fs))
  BY <1>2, ConcatEmptySeq
<1>4. \A i \in 1..Len(fs) : Readable(Opened(Len(fs)), fs, i)
  BY <1>1 DEF Readable, HasNext, Opened
<1>. QED
  BY <1>2, <1>3, <1>4 DEF FirstUnreadable

(* Without I/O failures, the first externalSort either fails on a heap    *)
(* comparison or finishes priming and is fetched; either way the heap     *)
(* holds one item per descriptor.                                         *)
LEMMA StartMergeFresh ==
    ASSUME MaxFail = 0, fails = 0,
           NEW fs \in Seq(Seq(Row)), \A i \in DOMAIN fs : Len(fs[i]) > 0,
           FreshMerge, ~fetched, UniqueIdx(heap),
           StartMerge(fs)
    PROVE  /\ fetched' = TRUE \/ heapErr' = TRUE
           /\ UniqueIdx(heap')
<1>1. CASE /\ heapErr \/ HeapMayFail(heap)
           /\ heapErr' = TRUE
           /\ UNCHANGED heap
  BY <1>1
<1>2. CASE /\ ~heapErr
           /\ \E j \in 1..Len(fs) : fails < MaxFail
  BY <1>2
<1>3. CASE /\ ~heapErr
           /\ Prime(fds \o Opened(Len(fs)), fs)
  <2>. DEFINE F == Opened(Len(fs))
  <2>1. heap = {} /\ fds = <<>>
    BY <1>3 DEF FreshMerge
  <2>2. fds \o Opened(Len(fs)) = F /\ Len(F) = Len(fs)
        /\ FirstUnreadable(F, fs) = Len(F) + 1
    BY <2>1, FreshReadable
  <2>3. Prime(F, fs)
    BY <1>3, <2>2
  <2>4. Len(fs) \in Nat
    BY LenProperties
  <2>5. \A j \in Nat : UniqueIdx(heap \cup Pushed(F, fs, j))
    BY <2>1, PushedUnique DEF UniqueIdx
  <2>6. CASE \E j \in 1..(FirstUnreadable(F, fs) - 1) :
               /\ heap' = heap \cup Pushed(F, fs, j)
               /\ heapErr' = TRUE
    BY <2>4, <2>2, <2>5, <2>6
  <2>7. CASE /\ fetched' = TRUE
             /\ PopFrom(heap \cup Pushed(F, fs, Len(F)), Advance(F, Len(F)), fs, FALSE)
    BY <2>2, <2>4, <2>5, <2>7, PopFromUnique
  <2>8. \/ \E j \in 1..(FirstUnreadable(F, fs) - 1) :
               /\ heap' = heap \cup Pushed(F, fs, j)
               /\ heapErr' = TRUE
        \/ /\ fetched' = TRUE
           /\ PopFrom(heap \cup Pushed(F, fs, Len(F)), Advance(F, Len(F)), fs, FALSE)
    <3>1. ~(FirstUnreadable(F, fs) <= Len(F)) /\ ~(fails < MaxFail)
      BY <2>2, <2>4
    <3>. QED
      BY <2>3, <3>1, Zenon DEF Prime
  <2>. QED
    BY <2>6, <2>7, <2>8
<1>. QED
  BY <1>1, <1>2, <1>3 DEF StartMerge

(* MInv in the next state, from its parts. *)
LEMMA MInvPrime ==
    ASSUME MaxFail = 0, TInv', RunsNonEmpty', FreshMerge',
           Len(buf') <= BufSize, UniqueIdx(heap')
    PROVE  MInv'
<1>1. fails' = 0
  BY DEF TInv, TypeOK
<1>. QED
  BY <1>1 DEF MInv, MergeMemoryBound, UniqueIdx

(* A run flushed from a non-empty buffer is non-empty. *)
LEMMA FlushedRunNonEmpty ==
    ASSUME TInv, RunsNonEmpty, Len(buf) > 0,
           NEW r \in SortResults(buf), files' = Append(files, r)
    PROVE  RunsNonEmpty'
<1>1. r \in Seq(Row) /\ Len(r) = Len(buf)
  BY SortResultsType DEF TInv, TypeOK
<1>2. files' \in Seq(Seq(Row)) /\ Len(files') = Len(files) + 1
      /\ \A i \in 1..Len(files) : files'[i] = files[i]
      /\ files'[Len(files) + 1] = r
  BY <1>1, AppendProperties DEF TInv, TypeOK
<1>3. Len(files) \in Nat /\ DOMAIN files = 1..Len(files)
      /\ DOMAIN files' = 1..Len(files')
  BY <1>2, LenProperties DEF TInv, TypeOK
<1>. QED
  BY <1>1, <1>2, <1>3 DEF RunsNonEmpty

(* Input never touches the heap, the descriptors or the phase, and keeps  *)
(* the buffer within bufSize: a full buffer is flushed before the row is  *)
(* appended.                                                              *)
LEMMA InputMInv ==
    ASSUME MaxFail = 0, MInv, TInv', NEW k \in Key,
           InputBuffered(k) \/ InputSpill(k) \/ InputSpillFailed(k)
    PROVE  MInv'
<1>1. BufSize \in Nat \ {0} /\ Len(buf) \in Nat
  BY FileSortAssumption, LenProperties DEF MInv, TInv, TypeOK
<1>2. FreshMerge' /\ UniqueIdx(heap')
  BY DEF InputBuffered, InputSpill, InputSpillFailed, MInv, FreshMerge,
         MergeMemoryBound, UniqueIdx
<1>3. CASE InputBuffered(k)
  <2>1. Len(buf') = Len(buf) + 1
    BY <1>3, AppendProperties DEF InputBuffered, MInv, TInv, TypeOK
  <2>2. Len(buf') <= BufSize
    BY <1>1, <1>3, <2>1 DEF InputBuffered
  <2>3. RunsNonEmpty'
    BY <1>3 DEF InputBuffered, MInv, RunsNonEmpty
  <2>. QED
    BY <1>2, <2>2, <2>3, MInvPrime
<1>4. CASE InputSpill(k)
  <2>1. PICK r \in SortResults(buf) : files' = Append(files, r)
    BY <1>4 DEF InputSpill, FlushOK
  <2>2. RunsNonEmpty'
    BY <1>1, <1>4, <2>1, FlushedRunNonEmpty DEF InputSpill, MInv
  <2>3. Len(buf') = 1
    BY <1>4 DEF InputSpill, FlushOK
  <2>. QED
    BY <1>1, <1>2, <2>2, <2>3, MInvPrime
<1>5. CASE InputSpillFailed(k)
  <2>1. UNCHANGED <<buf, files>>
    BY <1>5 DEF InputSpillFailed, FlushFail, MInv
  <2>. QED
    BY <1>2, <2>1, MInvPrime DEF MInv, RunsNonEmpty, MergeMemoryBound
<1>. QED
  BY <1>3, <1>4, <1>5

(* The in-memory path sorts the buffer in place and touches no run,      *)
(* descriptor or heap.                                                    *)
LEMMA OutputInMemoryMInv ==
    ASSUME MaxFail = 0, MInv, TInv', OutputInMemory
    PROVE  MInv'
<1>1. Len(buf') = Len(buf)
  <2>1. \A r \in SortResults(buf) : Len(r) = Len(buf)
    BY SortResultsType DEF MInv, TInv, TypeOK
  <2>. QED
    BY <2>1 DEF OutputInMemory
<1>2. FreshMerge' /\ UniqueIdx(heap') /\ RunsNonEmpty'
  BY DEF OutputInMemory, MInv, FreshMerge, MergeMemoryBound, UniqueIdx,
         RunsNonEmpty
<1>. QED
  BY <1>1, <1>2, MInvPrime DEF MInv, MergeMemoryBound

(* A merge step after the first fetch keeps one item per descriptor. *)
LEMMA OutputMergeNextMInv ==
    ASSUME MaxFail = 0, MInv, TInv', OutputMergeNext
    PROVE  MInv'
<1>1. UniqueIdx(heap')
  BY PopFromUnique DEF OutputMergeNext, MInv, MergeMemoryBound, UniqueIdx
<1>2. FreshMerge' /\ RunsNonEmpty' /\ Len(buf') <= BufSize
  BY DEF OutputMergeNext, FreshMerge, RunsNonEmpty, MInv, MergeMemoryBound
<1>. QED
  BY <1>1, <1>2, MInvPrime

(* The first Output with runs: a failed flush changes nothing (no I/O     *)
(* failure is left, so only a comparison can fail); otherwise the last    *)
(* run is flushed from a non-empty buffer and the merge starts fresh.     *)
LEMMA OutputMergeStartMInv ==
    ASSUME MaxFail = 0, MInv, TInv', OutputMergeStart
    PROVE  MInv'
<1>1. fails = 0 /\ BufSize \in Nat \ {0} /\ ~fetched
  BY FileSortAssumption DEF MInv, OutputMergeStart
<1>2. CASE /\ Len(buf) > 0
           /\ FlushFail
           /\ UNCHANGED <<fds, heap, fetched, out, heapErr>>
  <2>1. UNCHANGED <<buf, files>>
    BY <1>1, <1>2 DEF FlushFail
  <2>. QED
    BY <1>2, <2>1, MInvPrime
       DEF MInv, RunsNonEmpty, FreshMerge, MergeMemoryBound, UniqueIdx
<1>3. CASE /\ Len(buf) > 0
           /\ \E r \in SortResults(buf) : files' = Append(files, r)
           /\ buf' = <<>>
           /\ StartMerge(files')
  <2>1. RunsNonEmpty'
    BY <1>3, FlushedRunNonEmpty DEF MInv
  <2>2. files' \in Seq(Seq(Row))
    BY DEF TInv, TypeOK
  <2>3. (fetched' = TRUE \/ heapErr' = TRUE) /\ UniqueIdx(heap')
    BY <1>1, <1>3, <2>1, <2>2, StartMergeFresh
       DEF MInv, RunsNonEmpty, MergeMemoryBound, UniqueIdx
  <2>4. Len(buf') <= BufSize
    BY <1>1, <1>3, EmptySeq
  <2>. QED
    BY <2>1, <2>3, <2>4, MInvPrime DEF FreshMerge
<1>4. CASE /\ Len(buf) = 0
           /\ StartMerge(files)
           /\ UNCHANGED <<buf, files>>
  <2>1. (fetched' = TRUE \/ heapErr' = TRUE) /\ UniqueIdx(heap')
    BY <1>1, <1>4, StartMergeFresh
       DEF MInv, TInv, TypeOK, RunsNonEmpty, MergeMemoryBound, UniqueIdx
  <2>. QED
    BY <1>4, <2>1, MInvPrime DEF MInv, RunsNonEmpty, FreshMerge, MergeMemoryBound
<1>. QED
  BY <1>2, <1>3, <1>4 DEF OutputMergeStart

(* Closing the descriptors of an empty list leaves it empty. *)
LEMMA CloseFdsEmpty ==
    ASSUME TInv, fds = <<>>, NEW n \in Int
    PROVE  CloseFds(n) = <<>>
<1>1. FdsOn(CloseFds(n), files) /\ DOMAIN CloseFds(n) = DOMAIN fds
  BY CloseFdsType
<1>2. CloseFds(n) \in Seq(Fd) /\ DOMAIN CloseFds(n) = {}
  BY <1>1 DEF FdsOn
<1>3. Len(CloseFds(n)) = 0
  BY <1>2, LenProperties
<1>. QED
  BY <1>2, <1>3, EmptySeq

(* Close empties the buffer and closes descriptors without touching the   *)
(* heap, the runs or the phase.                                           *)
LEMMA CloseMInv ==
    ASSUME MaxFail = 0, MInv, TInv', Close
    PROVE  MInv'
<1>1. FirstClosedFd \in 1..(Len(fds) + 1) /\ Len(fds) \in Nat /\ BufSize \in Nat
  BY FirstClosedFdProps, LenProperties, FileSortAssumption DEF MInv, TInv, TypeOK
<1>2. PICK n \in Int : fds' = CloseFds(n)
  BY <1>1 DEF Close
<1>3. FreshMerge'
  <2>1. CASE ~fetched /\ ~heapErr
    BY <2>1, <1>2, CloseFdsEmpty DEF Close, MInv, FreshMerge
  <2>. QED
    BY <2>1 DEF Close, FreshMerge
<1>4. Len(buf') <= BufSize
  BY <1>1, EmptySeq DEF Close
<1>. QED
  BY <1>3, <1>4, MInvPrime DEF Close, MInv, RunsNonEmpty, MergeMemoryBound, UniqueIdx

(* Calls rejected on a closed or fetched sorter change nothing of memory. *)
LEMMA RejectedMInv ==
    ASSUME MaxFail = 0, MInv, TInv',
           InputRejected \/ OutputRejected \/ CloseRejected \/ UNCHANGED vars
    PROVE  MInv'
BY MInvPrime DEF InputRejected, OutputRejected, CloseRejected, vars, MInv,
                 RunsNonEmpty, FreshMerge, MergeMemoryBound, UniqueIdx

LEMMA InitMInv == ASSUME MaxFail = 0 PROVE Init => MInv
<1>. SUFFICES ASSUME Init PROVE MInv
  OBVIOUS
<1>1. TInv
  BY InitTInv
<1>2. Len(buf) = 0 /\ BufSize \in Nat
  BY EmptySeq, FileSortAssumption DEF Init
<1>. QED
  BY <1>1, <1>2 DEF Init, MInv, RunsNonEmpty, FreshMerge, MergeMemoryBound

LEMMA NextMInv == ASSUME MaxFail = 0 PROVE MInv /\ [Next]_vars => MInv'
<1>. SUFFICES ASSUME MInv, [Next]_vars PROVE MInv'
  OBVIOUS
<1>1. TInv'
  BY NextTInv DEF MInv
<1>2. CASE \E k \in Key : InputBuffered(k) \/ InputSpill(k) \/ InputSpillFailed(k)
  BY <1>1, <1>2, InputMInv
<1>3. CASE OutputInMemory
  BY <1>1, <1>3, OutputInMemoryMInv
<1>4. CASE OutputMergeStart
  BY <1>1, <1>4, OutputMergeStartMInv
<1>5. CASE OutputMergeNext
  BY <1>1, <1>5, OutputMergeNextMInv
<1>6. CASE Close
  BY <1>1, <1>6, CloseMInv
<1>7. CASE InputRejected \/ OutputRejected \/ CloseRejected \/ UNCHANGED vars
  BY <1>1, <1>7, RejectedMInv
<1>. QED
  BY <1>2, <1>3, <1>4, <1>5, <1>6, <1>7 DEF Next

(* Bounded memory, for every key size, buffer size and number of calls,   *)
(* when no open, write, read or close fails: the buffer never holds more  *)
(* than bufSize rows, and the merge heap never holds two items read from  *)
(* the same run descriptor.  The hypothesis is needed: a read that fails  *)
(* after the priming loop pushed some items, retried by the next Output,  *)
(* pushes a second item for the same descriptor (the filesort_dup run).   *)
THEOREM MergeMemorySafe ==
    ASSUME MaxFail = 0
    PROVE  Spec => []MergeMemoryBound
<1>1. Spec => []MInv
  BY InitMInv, NextMInv, PTL DEF Spec
<1>. QED
  BY <1>1, PTL DEF MInv

-----------------------------------------------------------------------------
(* The inductive invariant behind InputRejectedAfterOutput when neither   *)
(* I/O nor a comparison fails: no error is ever captured, and once Output *)
(* has been called the sorter is fetched or closed.                       *)
PInv ==
    /\ MInv
    /\ ~sortErr /\ ~heapErr
    /\ nOut > 0 => fetched \/ closed

(* With no uncomparable datum, no sort and no heap step can fail. *)
LEMMA NoCompareFail ==
    ASSUME BadVals = {}
    PROVE  /\ \A s : ~SortMayFail(s)
           /\ \A H : ~HeapMayFail(H)
<1>1. \A a, b : ~CompareFails(a, b)
  BY DEF CompareFails, ColFails
<1>. QED
  BY <1>1 DEF SortMayFail, HeapMayFail

(* A merge step on a heap with no captured error captures none. *)
LEMMA PopFromNoErr ==
    ASSUME BadVals = {}, NEW H, NEW F, NEW fs, PopFrom(H, F, fs, FALSE)
    PROVE  heapErr' = heapErr
<1>1. ~HeapMayFail(H) /\ \A m \in H : ~HeapMayFail((H \ {m}) \cup
                            {[index |-> m.index, value |-> NextOf(F[m.index], fs)]})
  BY NoCompareFail
<1>. QED
  BY <1>1, Zenon DEF PopFrom, PopItem

(* The first externalSort with nothing failing finishes the priming loop *)
(* and is fetched.                                                        *)
LEMMA StartMergeFetched ==
    ASSUME MaxFail = 0, BadVals = {}, MInv, ~heapErr, ~fetched,
           NEW fs \in Seq(Seq(Row)), \A i \in DOMAIN fs : Len(fs[i]) > 0,
           StartMerge(fs)
    PROVE  fetched' = TRUE /\ ~heapErr'
<1>1. fails = 0 /\ FreshMerge /\ UniqueIdx(heap)
  BY DEF MInv, MergeMemoryBound, UniqueIdx
<1>2. fetched' = TRUE \/ heapErr' = TRUE
  BY <1>1, StartMergeFresh
<1>3. ~HeapMayFail(heap) /\ \A H : ~HeapMayFail(H)
  BY NoCompareFail
<1>4. CASE Prime(fds \o Opened(Len(fs)), fs)
  <2>. DEFINE F == Opened(Len(fs))
  <2>1. heap = {} /\ fds = <<>>
    BY <1>1 DEF FreshMerge
  <2>2. fds \o Opened(Len(fs)) = F /\ Len(F) = Len(fs)
        /\ FirstUnreadable(F, fs) = Len(F) + 1
    BY <2>1, FreshReadable
  <2>3. Len(fs) \in Nat
    BY LenProperties
  <2>4. ~(FirstUnreadable(F, fs) <= Len(F)) /\ ~(fails < MaxFail)
    BY <1>1, <2>2, <2>3
  <2>5. fetched' = TRUE /\ PopFrom(heap \cup Pushed(F, fs, Len(F)), Advance(F, Len(F)), fs, FALSE)
    BY <1>3, <1>4, <2>2, <2>4, Zenon DEF Prime
  <2>6. heapErr' = heapErr
    BY <2>5, PopFromNoErr
  <2>. QED
    BY <2>5, <2>6, Zenon
<1>. QED
  <2>1. fails = 0 /\ ~(fails < MaxFail)
    BY <1>1
  <2>. QED
    BY <1>3, <1>4, <2>1 DEF StartMerge

LEMMA NextPInv ==
    ASSUME MaxFail = 0, BadVals = {}
    PROVE  PInv /\ [Next]_vars => PInv'
<1>. SUFFICES ASSUME PInv, [Next]_vars PROVE PInv'
  OBVIOUS
<1>1. MInv'
  BY NextMInv DEF PInv
<1>2. /\ \A s : ~SortMayFail(s)
      /\ \A H : ~HeapMayFail(H)
      /\ fails = 0 /\ ~(fails < MaxFail)
      /\ fetched \in BOOLEAN /\ closed \in BOOLEAN /\ nOut \in Nat
      /\ heapErr = FALSE /\ sortErr = FALSE
  BY NoCompareFail DEF PInv, MInv, TInv, TypeOK
<1>. DEFINE Phase == nOut > 0 => fetched \/ closed
<1>3. CASE \E k \in Key : InputBuffered(k) \/ InputSpill(k) \/ InputSpillFailed(k)
  <2>1. ~\E k \in Key : InputSpillFailed(k)
    BY <1>2 DEF InputSpillFailed, FlushFail
  <2>2. UNCHANGED <<sortErr, heapErr, nOut, fetched, closed>>
    BY <1>3, <2>1 DEF InputBuffered, InputSpill, FlushOK
  <2>. QED
    BY <1>1, <2>2 DEF PInv
<1>4. CASE OutputInMemory
  <2>1. fetched' = TRUE /\ UNCHANGED <<sortErr, heapErr, closed>>
    BY <1>2, <1>4 DEF OutputInMemory
  <2>. QED
    BY <1>1, <2>1 DEF PInv
<1>5. CASE OutputMergeStart
  <2>1. ~fetched /\ UNCHANGED <<sortErr, closed>>
    BY <1>2, <1>5 DEF OutputMergeStart, FlushFail
  <2>2. files' \in Seq(Seq(Row)) /\ \A i \in DOMAIN files' : Len(files'[i]) > 0
    BY <1>1 DEF MInv, TInv, TypeOK, RunsNonEmpty
  <2>3. StartMerge(files')
    BY <1>2, <1>5 DEF OutputMergeStart, FlushFail
  <2>4. fetched' = TRUE /\ ~heapErr'
    BY <1>2, <2>1, <2>2, <2>3, StartMergeFetched DEF PInv
  <2>. QED
    BY <1>1, <1>2, <2>1, <2>4 DEF PInv
<1>6. CASE OutputMergeNext
  <2>1. PopFrom(heap, fds, files, FALSE)
    BY <1>2, <1>6 DEF OutputMergeNext
  <2>2. heapErr' = heapErr
    BY <1>2, <2>1, PopFromNoErr
  <2>3. fetched /\ UNCHANGED <<sortErr, fetched, closed>>
    BY <1>6 DEF OutputMergeNext
  <2>. QED
    BY <1>1, <1>2, <2>2, <2>3 DEF PInv
<1>7. CASE Close
  <2>1. UNCHANGED <<sortErr, heapErr, nOut, fetched>> /\ ~closed
    BY <1>7 DEF Close
  <2>. QED
    BY <1>1, <2>1 DEF PInv
<1>8. CASE InputRejected \/ OutputRejected \/ CloseRejected \/ UNCHANGED vars
  <2>1. UNCHANGED <<sortErr, heapErr, fetched, closed>>
    BY <1>8 DEF InputRejected, OutputRejected, CloseRejected, vars
  <2>2. Phase'
    BY <1>8 DEF PInv, InputRejected, OutputRejected, CloseRejected, vars
  <2>. QED
    BY <1>1, <2>1, <2>2 DEF PInv
<1>. QED
  BY <1>3, <1>4, <1>5, <1>6, <1>7, <1>8 DEF Next

(* Phase order (spec 3), for every configuration, when neither I/O nor a  *)
(* comparison fails: once Output has been called, Input accepts no row.   *)
(* Both hypotheses are needed: an Output that fails in sort.Sort, the     *)
(* flush or the priming loop returns before fs.fetched is set, and a later *)
(* Input is then still accepted.                                          *)
THEOREM InputClosedAfterOutput ==
    ASSUME MaxFail = 0, BadVals = {}
    PROVE  Spec => InputRejectedAfterOutput
<1>1. Init => PInv
  <2>. SUFFICES ASSUME Init PROVE PInv
    OBVIOUS
  <2>1. MInv
    BY InitMInv
  <2>. QED
    BY <2>1 DEF Init, PInv
<1>2. PInv /\ [Next]_vars => [nOut > 0 => accepted' = accepted]_vars
  <2>. SUFFICES ASSUME PInv, [Next]_vars, nOut > 0 PROVE accepted' = accepted
    BY DEF vars
  <2>1. fetched \/ closed
    BY DEF PInv
  <2>. QED
    BY <2>1 DEF Next, InputRejected, InputBuffered, InputSpill, InputSpillFailed,
              OutputRejected, OutputInMemory, OutputMergeStart, OutputMergeNext,
              CloseRejected, Close, vars
<1>3. Spec => []PInv
  BY <1>1, NextPInv, PTL DEF Spec
<1>. QED
  BY <1>2, <1>3, PTL DEF Spec, InputRejectedAfterOutput

=============================================================================
