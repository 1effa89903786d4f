# Formal models of gleam's task executor, external sorter and range builder

This directory holds TLA+ models of three parts of gleam:

- the **instruction pipeline executor** (`src/unnamed/part_003`,
  `Executor.ExecuteInstructionSet` and its helpers);
- the **external sort/merge engine** (`src/sql/util/filesort/filesort.go`,
  `FileSorter`);
- the SQL planner's **range builder** (`src/sql/plan/range.go`), which turns
  a filter condition into index and handle ranges.

It also has TLC configurations for small instances and TLAPS proofs of the
executor's safety invariants.

## The system and how its parts interact

An executor process receives one task: a linear chain of instructions.
`ExecuteInstructionSet` does the following:

- It starts one goroutine per instruction (a *stage*). Each goroutine is
  counted in a `sync.WaitGroup` (`wg.Add(1)` before `go`).
- The first stage dials one network reader per input shard (`setupReaders`).
- The last stage dials one network writer per output shard (`setupWriters`).
- Each dial goroutine is also counted in `wg`. Each one reports a failure on
  `ioErrChan`, whose capacity is 2 × instructions.
- Adjacent stages are connected by an in-process `Piper`. A write into it
  blocks until the next stage reads.
- A stage runs either a built-in function, or an external process with up
  to three attempts. It sends at most one error on `exeErrChan`, whose
  capacity is the number of instructions.
- When a stage returns, it closes its writers and calls `wg.Done`.
- A waiter goroutine closes `finishedChan` once `wg.Wait()` returns.
- The main goroutine `select`s on `finishedChan`, `ioErrChan` and
  `exeErrChan`. On an error it cancels the context and returns the error.
- A deferred `heartbeatWg.Wait()` keeps `ExecuteInstructionSet` from
  returning before the heartbeat goroutine stops. The heartbeat stops when
  `finishedChan` is closed.
- An interrupt handler cancels the context and waits on `wg`.

The sorter is used by a stage (or the SQL executor) through:

- `Input(key, val, handle)`: buffers a row. When the buffer is full, it first
  spills the buffer, sorted, to a new run file (`flushToFile`).
- `Output()`:
  - with no run files, sorts the buffer once and serves it by a cursor
    (`internalSort`);
  - with run files, flushes the rest of the buffer, opens every run, primes a
    heap with the first row of each run and then pops and refills it
    (`externalSort`, a k-way merge).
- `Close()`: discards the buffer, closes the descriptors and removes the
  working directory.

The range builder is a pure algorithm used by the planner:

- `build` walks a condition on one column and returns sorted *range points*
  (start, end, start, end, ...):
  - a comparison, `IS TRUE`, `IS FALSE`, `IS NULL` or an `IN` list gives
    its ranges directly;
  - `AND` and `OR` merge their operands' points with a counting sweep.
- `buildIndexRanges` casts each bound to the column type (`convertPoint`)
  and keeps the non-empty ranges.
- `buildTableRanges` turns the points into int64 handle ranges.

## Modules

| Module | Models | State ↔ code |
|---|---|---|
| `Executor.tla` | `ExecuteInstructionSet`, `setupReaders`, `setupWriters`, `executeInstruction` (part_003:43-252) | See the list below. |
| `MCExecutor.tla` | Instruction kinds for the TLC instances | |
| `ExecutorProofs.tla` | TLAPS proofs about `Executor` | |
| `MCExecutorProofs.tla` | The executor with the proof's definitions, so TLC can check the inductive invariant | |
| `Sorter.tla` | What a `FileSorter` promises its caller, with no failure: the abstract specification | `pending`, `out`, `fetched`, `closed` |
| `FileSort.tla` | `FileSorter` (filesort.go:31-514), and its refinement mapping to `Sorter` | See the list below. |
| `MCFileSort.tla` | `byDesc` vectors for the instances | |
| `FileSortProofs.tla` | TLAPS proofs about `FileSort` | |
| `FileSortRefinement.tla` | The TLAPS proof that `FileSort` refines `Sorter` | |
| `RangePoints.tla` | Datums, `rangePoint`, `rangePointLess`, `convertPoint` and the handle conversion of `buildTableRanges` (range.go:27-92, 473-516, 567-608) | Operators only |
| `RangePointsProofs.tla` | TLAPS proofs about `RangePoints` | |
| `RangeBuilder.tla` | `rangeBuilder` (range.go:55-614): `build` and its helpers, `merge`, `buildIndexRanges`, `appendIndexRanges`, `buildTableRanges` | See below. |
| `MCRangeBuilder.tla` | The constants of the range instance | |

State of `Executor.tla`:

- `mpc`: where the main goroutine is.
- `pc[i]`: the state of stage goroutine *i*, one of `init`, `setup`, `run`, `blocked` (on its exeErrChan send) and `done`.
- `attempt`: the retry loop counter.
- `got` / `put`: chunks read and written by each stage.
- `inDial` / `outDial`: the dial goroutines. `sent` counts the chunks each read dial has delivered.
- `wg`: the WaitGroup counter.
- `exeErr` / `ioErr`: the number of errors buffered in each channel.
- `errs`: errors sent so far.
- `cancelled`, `finished`, `interrupted`: the remaining flags.

State of `FileSort.tla`:

- `buf`, `files`, `fds`, `heap`, `cursor`, `fetched`, `closed`: the fields of the same names.
- `sortErr` is `fs.err`; `heapErr` is `rowHeap.err`.
- `removed` records the `RemoveAll` of the working directory.
- `nIn` / `nOut` count the calls. `accepted` and `out` record what Input took and what Output returned. `ret` is the last call's result.
- `fails` counts the injected I/O failures.

`RangeBuilder.tla` encodes data as follows:

- A datum is an integer, ordered as `CompareDatum` orders datums:
  `NullD < MinNotNull < numbers < MaxValue`.
- Numbers are kept in half units, so a constant such as 1.5 lies between two
  column values. The column holds NULL and the W-bit integers.
- A condition is a record tree, and `Conds` enumerates every tree up to a
  depth.
- One function of the code is one operator of the model (`build`,
  `buildFormBinOp`, `newBuildFromIn`, `merge`, `convertPoint`,
  `buildTableRanges`, ...).
- `sort.Sort` is `SortSeq` with `rangePointLess`.
- The loops of `newBuildFromIn` and `merge` are folds.
- `Datum.ConvertTo` and `ToInt64` are not under `src/`. They round a
  constant that lies between two integers one way or the other, and the
  model lets `Round` choose the direction per constant.
- Go's int64 `++`/`--` wrap (`Wrap`).

The state machine has four actions:

- `Init` picks a condition.
- `Build` runs `build` on it and records `r.err`.
- `IndexRanges` or `TableRanges` then converts the points.
- `AppendRanges` follows `IndexRanges`. It builds a condition on a second
  index column with the same builder and runs `appendIndexRanges`. Each
  point range of the first column is extended by every converted pair of the
  second, and the other ranges are kept as they are. An index range's
  `LowVal`/`HighVal` are sequences, compared lexicographically as prefixes
  (`AboveLow`, `BelowHigh`). `IndexDenote2` is the set of value pairs the
  ranges cover.

The reference is `Eval`, SQL's three-valued truth of the condition for a
column value. `Selected` is the set of values it keeps, and `Denote` is the
set a point sequence covers.

Each action models one whole call or goroutine step, with every early return
as its own disjunct. For example:

- `OutputMergeStart` is `Output` → `externalSort` before the first fetch: the
  flush, `heap.Init`, `openAllFiles` and the priming loop.
- `Close` is `Close` → `closeAllFiles`.

The data is abstracted:

- A row is a key vector over a few naturals plus a handle. The value
  columns are not observed by any property.
- A run file is the sequence of rows written to it. The byte encoding and
  `fetchNextRow`'s header checks are abstracted to "read the next row or fail".
- A comparison error (`CompareDatum`) happens whenever a compared column holds
  a value of `BadVals`.

`Sorter.tla` is the sorter's contract. Rows are accepted until the first
Output. Each Output then returns a row no pending row sorts before, or end of
data when none is pending, and Close discards what is pending. `FileSort.tla`
instantiates it as `Abstract` with the mapping below, and the `filesort` run
checks `SorterRefinement == Abstract!Spec`:

- `pending` ↦ `accepted \ RowsOf(out)`, or `{}` once `closed`;
- `Less` ↦ `lessThan` on the keys;
- the other variables map to the variables of the same names.

Every buffered Input, every spill, every in-memory or merge Output and every
Close is then a step of `Sorter`, and a rejected call is a stutter. The
mapping holds only without failures. With one failure the `filesort_dup` run
shows a row returned twice, which no `Sorter` step allows.

`sort.Sort` is modelled by what its `Swap` calls can do: the result is
any permutation of the buffer (`Permuted`, a `Bijection` of its indexes from
the `Functions` module) that is in order under the comparator. It
may fail when two rows fail to compare. Heap operations likewise may fail
when two items fail to compare.

Executor steps are at the granularity of channel operations:

- a chunk crossing a pipe is a rendezvous of its writer and its reader;
- a dial either delivers, closes at EOF, or fails and reports;
- a failing report reserves a buffer slot or blocks (`stuck`) when the
  channel is full;
- a stage either finishes (input at EOF, everything forwarded) or fails.

A script stage's process failure is retried while `attempt < 3` and
`got = 0` (`stat.InputCounter` is zero). After that, its error is sent once.

### Modelled from the spec

These pieces are not under `src/`, so they are modelled from spec.md. They
are marked `spec_modelled` in `PROJECT.json`:

- `util.Piper`: a rendezvous pipe, closed by its writer.
- `netchan.DialReadChannel`/`DialWriteChannel`:
  - a dial closes its pipe when it returns;
  - a read dial's pipe write is not cancellable;
  - the dial calls `wg.Done` before its goroutine reports an error.
- `util.Execute`: the `wg.Add(1)` at part_003:237 is balanced by its `Done`.
- `statusHeartbeat`: stops when `finishedChan` closes.

## Runs

| Run | Instance | Checks | Result |
|---|---|---|---|
| `filesort` | 4 inputs, 2 key columns (one descending), buffer of 2, 6 outputs, no I/O failure | `OutputOrdered`, `NoDuplicateOutput`, `CleanEndReturnsAll`, `MergeMemoryBound`, `InputRejectedAfterOutput`, `SorterRefinement` | pass, about 35 k states |
| `filesort_faults` | 3 inputs, buffer of 1, one injected failure of any open, write, read, close or remove; value 3 fails to compare | `OutputOrdered`, `DirRemovedOnlyWhenDone` | pass, about 1.8 M states |
| `filesort_dup` | One failure | `NoDuplicateOutput` | violation |
| `executor_faults` | 3 stages (script, function, no script), 4 input and 3 output shards, stages 1 and 2 fail, dials fail, interrupt | `TypeOK`, `FinishedMeansQuiescent`, `ExeErrNeverBlocks`, `IInv` | pass |
| `executor_live` | function → script, 2 input and 2 output shards, 2 chunks each, no failure, fair | `TaskReturns` | pass |
| `executor_io_overflow` | 1 stage, 3 shard dials that fail | `IoErrNeverBlocks` | violation |
| `executor_select_race` | 1 failing function stage | `SuccessMeansNoError` | violation |
| `executor_failure_hang` | 2 function stages, the last fails, fair | `TaskReturns` | violation |
| `executor_script_shards` | 1 script stage, 2 input shards, fair | `TaskReturns` | violation |
| `range` | every condition with at most one AND/OR over a 2-bit column, constants -2, -0.5, 0, 0.5, 1 and NULL, IN lists of up to 2 | `TypeOK`, `WellFormed`, `MergeExact`, `BuildSound`, `IndexRangesExact`, `AppendSound`, `AppendExact` | pass, about 159 k states |
| `range_in_null` | as `range` | `BuildExact` | violation |
| `range_table_edges` | as `range` | `TableRangesExact` | violation |

What the passing runs show:

- **Sorter:**
  - every row returned comes out in comparator order, through both the
    in-memory path and the heap merge, with descending columns;
  - no row is returned twice;
  - a clean run that ends in end-of-data returned exactly the rows Input
    accepted;
  - memory never holds more than `BufSize` rows plus one row per run;
  - Input is refused after Output has started;
  - the sorter refines `Sorter`: each Output returns a least row still
    pending, and end of data comes only when nothing is pending;
  - under failures, the working directory is removed only by a Close that
    closed every run descriptor first.
- **Executor:**
  - `finishedChan` closes only when every stage and dial goroutine has
    returned;
  - no stage blocks on `exeErrChan`;
  - with no failure and a fair scheduler, `ExecuteInstructionSet` returns.
- **Range builder:**
  - the points `build` returns alternate start/end in strictly increasing
    order, which `merge` and the conversions assume;
  - `AND` gives exactly the intersection of its operands, and `OR` exactly
    the union, including touching bounds;
  - the points never leave out a value the condition keeps;
  - the index ranges cover exactly the points' values, whichever way a
    constant between two integers is rounded;
  - appending a second column's ranges to point ranges never misses a
    selected pair (`AppendSound`);
  - when every first-column range is a point, the appended ranges cover
    exactly the product of the two conditions' sets (`AppendExact`).

Each property of a passing run is paired in `PROJECT.json` with a mutant: a
plausible bug in the mapped code that TLC catches. Examples:

- the sorter's heap ordered as a max-heap;
- a missing `wg.Add` for dials;
- an extra retry attempt;
- an error sent per retry;
- the range merge keeping an end point one count late;
- `convertPoint` keeping the exclusion flag of a bound it moved.

### Findings

Each violation run records a disagreement between the code and what its
comments or the spec promise:

1. **Duplicate rows after a failed Output** (filesort.go:368, 465-483):
   - `openAllFiles` appends to `fs.fds`, and a failed priming leaves rows on
     the heap;
   - `fetched` stays false, so a retried `Output` opens and pushes every run
     again.
2. **Select race** (part_003:111):
   - a stage's error can be buffered in `exeErrChan` when `finishedChan`
     closes;
   - Go's select may then pick `finishedChan`, so the task reports success.
3. **ioErrChan too small** (part_003:68): there is one dial per shard, so
   more failing dials than 2 × stages block on their report.
4. **Hang after a downstream failure** (part_003:104, 183-189):
   - the upstream stage blocks writing a pipe nobody reads;
   - `wg` never reaches zero, so the deferred heartbeat wait never returns.
5. **Script first stage reads one shard** (part_003:238): the other input
   dials block forever.
6. **`IN` with NULL selects NULL rows** (range.go:251):
   - `newBuildFromIn` makes a point range of every constant, NULL included;
   - so `a IN (1, NULL)` also selects the rows where `a` is NULL;
   - a NULL operand of a comparison gives no range (range.go:167).
7. **Handle ranges at the int64 edges** (range.go:571-606):
   - NULL bounds become MinInt64, so `a IS NULL` scans handle MinInt64;
   - `endInt--` from MinInt64 wraps, so `a < MinInt64` scans every handle;
   - `startInt++` from MaxInt64 wraps the same way.

Two behaviours are recorded as hazards in `PROJECT.json` and not as runs:

- `fetched` is set only at the end of a successful Output
  (filesort.go:292), so a failed Output leaves the sorter accepting Input.
  `InputRejectedAfterOutput` is checked only on the failure-free instance.
- spec.md says both that Close removes the working directory and that an
  empty sorter's Close touches nothing (filesort.go:380). The code does the
  first, and `Build` requires the directory to exist already, so the caller's
  directory is deleted. `DirRemovedOnlyWhenDone` checks the order of the
  steps: descriptors first, then the removal.
- A failing `fd.Close` (filesort.go:376) ends `closeAllFiles` before the
  removal, and `Close` leaves `closed` false. The failed descriptor is
  already released, so every retried Close fails at it again, and the run
  files stay on disk.

### Bounds

The bounds are the smallest that make each case happen:

- **Executor:**
  - 3 stages are enough for a first, a middle and a last stage, one of each
    kind;
  - 1-2 shards and 1-2 chunks make a pipe carry data and make a dial close
    after delivering;
  - 3 shard dials against 1 stage exceed `ioErrChan`'s 2 slots.
- **Sorter:**
  - without failures, a buffer of 2 with 4 inputs gives the in-memory
    path, one spill plus a final flush, and two spills, so the refinement
    is checked on every path;
  - under failures, a buffer of 1 with 3 inputs produces 2-3 runs and a
    real k-way merge;
  - 2 key columns, one descending, exercise the lexicographic comparator;
  - one injected failure reaches every partial-failure path once.
- **Range builder:**
  - 2-bit handles (-2..1) put both int64 edges within reach of a constant;
  - the constants -0.5 and 0.5 lie between integers and exercise
    `convertPoint`'s rounding;
  - one level of AND/OR over every leaf makes every pair of leaf shapes
    meet in `merge`, touching and nested bounds included;
  - two-element IN lists give duplicates and NULL members;
  - for `appendIndexRanges`, every leaf condition on each of the two columns
    meets every rounding. Point and non-point first-column ranges, and
    empty second-column ranges, all occur.

## Fairness

`FairSpec` is used only in the liveness runs:

- every step the program itself takes is weakly fair: Go's scheduler
  eventually runs every runnable goroutine, and a ready select is eventually
  taken;
- failures, interrupts and retries are not fair: nothing in the code makes
  them happen.

## What is proved

`ExecutorProofs.tla` proves, for every number of instructions, shards and
chunks (the constants satisfy `ExecutorAssumption`):

- `IInvInvariant`: `Spec => []IInv`.
- `TypeCorrect`: `Spec => []TypeOK`. In particular, `exeErr ≤ N` and
  `ioErr ≤ 2N`.
- `ExeErrChanSuffices`: `Spec => []ExeErrNeverBlocks`.
- `FinishedQuiescent`: `Spec => []FinishedMeansQuiescent`.

The invariants are not inductive by themselves. `IInv` strengthens them with:

- `wg` = the number of live stage goroutines (setup/run/blocked) + the live
  read dials + the live write dials. This is the WaitGroup doing its job.
- A stage's dials exist exactly when that stage has passed setup.
- `finishedChan` is closed only at `wg = 0`.
- `exeErr` ≤ the number of stages that have returned. This is why a running
  stage always finds room in `exeErrChan`.

`RangePointsProofs.tla` proves facts about the point conversions for every
handle width `W` (assumption `WidthAssumption`: `W ≥ 1`). Each holds for
every rounding function `Round` that sends each constant between two
integers to -1 or 1:

- `ConvertPointExact`: a converted start point admits exactly the integer
  column values the original admits, and likewise for an end point. A cast
  that moves the bound by half a unit flips the exclusion flag exactly when
  the move is away from the range.
- `ConvertedPairExact`: hence an index range built from a converted pair
  (`buildIndexRanges`, `appendIndexRange`) covers exactly what the pair
  covers. On the 2-bit instance, `IndexRangesExact` and `AppendExact` check
  the same fact for whole point sequences.
- `TableStartExact` / `TableEndExact`: the handle `buildTableRanges`
  computes for a numeric bound is an int64, and exact. The exceptions are an
  exclusive start at MaxInt64 and an exclusive end at MinInt64, where
  `++`/`--` would leave the range. The lemma `WrapId` shows the step does not
  wrap anywhere else.
- `TableEndWrapsAtMin`: at the excluded edge the end handle is MaxInt64.
  This is finding 7 for 64 bits.

The argument is by cases on the parity of the bound, then on the rounding
direction, then on the exclusion flag. The lemma `CastNumber` bounds
`ToInt64` within half a unit. Each case splits the record-field (Boolean)
facts from the arithmetic, so that each leaf goes to one prover.

`FileSortProofs.tla` proves facts about the sorter for every configuration
the Builder accepts (`FileSortAssumption`: key size ≥ 1, `byDesc` of that
size, `bufSize` ≥ 1, any call bounds):

- `TypeCorrect`: `Spec => []TInv`, for any number of injected failures.
  Every variable keeps its type (`TypeOK`), every descriptor reads an
  existing run, and every heap item names a descriptor. No run checks
  `TypeOK` for the sorter: the model's types can be broken only by the
  model's own bounds or by an out-of-range read, so no plausible code bug
  would show up as a type violation. The proof covers it instead.
- `DirRemovedSafe`: `Spec => []DirRemovedOnlyWhenDone`, for any number of
  injected failures. `RemoveAll` runs only after every descriptor is
  closed, and a sorter without its directory stays closed.
- `MergeMemorySafe`: under `MaxFail = 0`, `Spec => []MergeMemoryBound`.
  The buffer stays within `bufSize`, and the heap holds one item per
  descriptor.
- `InputClosedAfterOutput`: under `MaxFail = 0` and `BadVals = {}`,
  `Spec => InputRejectedAfterOutput`. This is the action property: once
  Output is called, Input accepts nothing.

The hypotheses are needed, not convenient:

- With one injected read failure, a retried Output after a failed priming
  loop pushes a second item for a descriptor already in the heap. It is the
  mechanism of the `filesort_dup` finding. TLC finds `MergeMemoryBound`
  violated on `BufSize = 2, MaxInputs = 4, MaxFail = 1`.
- An Output that fails in `sort.Sort`, in the flush or in the priming loop
  returns before `fs.fetched` is set, so a later Input is still accepted.

The invariants rest on three strengthenings, each checked by TLC before it
was proved:

- `TInv` adds to `TypeOK` that every descriptor reads an existing run and
  every heap item names a descriptor. Without it, `NextOf` of a readable
  descriptor could not be shown to be a row.
- `MInv` adds four facts:
  - `fails = 0`;
  - every run file is non-empty, since a flush happens only on a non-empty
    buffer;
  - `FreshMerge`: until the first fetch or a heap error, the heap and the
    descriptor list are empty;
  - one item per descriptor.

  So the first priming loop reads every fresh descriptor, and its only
  outcomes are a heap error or a fetched sorter with one item per run.
- `PInv` adds that no error is ever captured, and that after the first
  Output the sorter is fetched or closed.

Three lemmas carry the main arguments:

- `FirstUnreadableProps` and `FirstClosedFdProps` show that the index where
  the priming loop and `closeAllFiles` stop exists and lies in
  `1..Len+1`. They use `WFMin` with `NatLessThanWellFounded` from
  `WellFoundedInduction`.
- `PopFromType` and `PopFromUnique` cover a heap pop.

For the proofs, the descriptor updates are written as record constructors
(`Bumped`, `Shut`) rather than record `EXCEPT`, which the provers do not
handle. A pop of one item is the operator `PopItem`. `SortResultsProps`
shows that a sorted buffer has the same rows, length and order as the
model of `sort.Sort` promises, and is injective when the buffer is.

`FileSortRefinement.tla` proves `SorterRefines`: under `MaxFail = 0` and
`BadVals = {}`, `Spec => SorterRefinement`. So for every key size, buffer
size and number of calls, each Output returns a least row accepted and not
yet returned, or the end of data only when none is left. This holds both
when it serves the sorted buffer and when it merges the run files. The
hypotheses are the same as above, and they are needed: with one read
failure the `filesort_dup` finding returns a row twice.

The proof maps `pending` to `accepted \ RowsOf(out)` (empty once closed).
It rests on `RInv`, which TLC checked before it was proved. `RInv` adds to
`PInv` one clause per phase of the sorter:

- `PreFetch`, before the first Output: nothing is returned. The accepted
  rows are those of the buffer and the runs, with no row held twice, and
  every run is sorted.
- `InMemory`, when serving the buffer: the buffer is sorted and holds every
  accepted row once, and `out` is its first `cursor` rows.
- `Merging`, during the k-way merge (`MergeAt`): each heap item is the row
  under its descriptor. The rows not yet returned are exactly the heap's
  rows plus the unread tails of the runs. A descriptor with rows left has
  an item in the heap.
- `HandlesBelow` and `AllOpen`: every accepted row's handle is at most
  `nIn`, so a new row is new, and every descriptor is open until Close.

The main lemmas are these:

- `LessIrrefl`, `LessTrans`, `LessTotal` and `NotLessTrans` show that
  `lessThan` is a strict total order on keys. `LessTotal` uses `WFMin` on
  the first differing column.
- `PopMin` shows that the heap minimum is a least pending row, because each
  run is sorted and its item is its least unread row.
- `MergePop` shows that a pop keeps `MergeAt` and is an abstract Output.
- `MergeInit` shows that the priming loop establishes `MergeAt`.
- `FlushRuns` shows that the final flush keeps the runs disjoint and sorted.
- `ServeStep` covers one step of the cursor.

Each action of `Next` has its own lemma (`InputRefines`,
`OutputInMemoryRefines`, `OutputMergeStartRefines`,
`OutputMergeNextRefines`, `CloseRefines`, `RejectedRefines`), and
`NextRInv` combines them.

`RInv` also holds `EodDone`: when the last call returned end of data, the
sorter is open and every accepted row has been returned. A pop reports end
of data only on an empty heap (`PopEod`). A merge with an empty heap has
read every run to its end (`MergeEmpty`). Serving the buffer ends only at
its last row (`ServeStep`).

The same module proves the three output invariants of the `filesort` run,
under the same two hypotheses and for every configuration:
`SorterOutputOrdered` (`Spec => []OutputOrdered`),
`SorterNoDuplicateOutput` (`Spec => []NoDuplicateOutput`) and
`SorterCleanEnd` (`Spec => []CleanEndReturnsAll`).

They rest on `OInv`, which TLC checked with `RInv` before it was proved
(35,003 states on the `filesort` instance, 258,566 with a buffer of one row
and five inputs). `OInv` says that:

- the rows returned are in order and distinct;
- none is above a pending row, and none is itself pending;
- nothing is returned before the first fetch;
- every returned row was accepted.

`OInvStep` shows that every step of the abstract `Sorter` keeps `OInv`.
An Input comes only before anything is returned. An Output appends a least
pending row. Close empties the pending set. So the argument uses only the
refinement, together with `AcceptedGrows` (Input only adds rows).
`CleanEndReturnsAll` then follows from `EodDone` and `OInv`. Its count of
rows comes from `DistinctCard`, which rests on `FS_Bijection` and
`FS_Interval` from `FiniteSetTheorems`.

The executor proof has one lemma per action. The counting rests on
`FS_AddElement`/`FS_RemoveElement` from `FiniteSetTheorems`. TLC also checks
`IInv` in `executor_faults` before it is proved.

## What is only model-checked, and what is not modelled

Some results rest on TLC alone:

- The liveness results (`TaskReturns`) are checked by TLC only. TLAPS does
  not reason about fairness or `ENABLED`.
- Some sorter results are checked by TLC only, on the instances above:
  - `OutputOrdered` with injected failures (the `filesort_faults` run). The
    theorem covers only the runs where nothing fails. With a failure,
    `RInv` does not hold: a retried priming loop can put a second item for
    one descriptor in the heap (`filesort_dup`);
  - the refinement of `Sorter` and `MergeMemoryBound` with injected
    failures. Both are violated on longer runs.
- The range builder's properties over whole conditions are checked by TLC
  only. `RangeBuilder.tla` uses RECURSIVE operators (`build`, `Eval`), which
  keeps it out of reach of TLAPS. The per-point facts it rests on live in the
  non-recursive `RangePoints.tla` and are proved for every width.

Parts left out of the models:

- `newBuildFromPatternLike` in range.go: LIKE prefixes over byte strings,
  which need a string datum domain that the integer-column instance does not
  have.
- The remaining packages (expression rewriter, column pruning,
  table columns, the flow API, the CLI and the examples) are pure data
  transformations or I/O glue. `PROJECT.json` lists each with its reason.
- The gRPC stats server, `reportStatus`, and the argument rewriting of
  scripts (part_003:46-51, 113, 218-229) are not modelled: they hold no
  state that a property observes.
