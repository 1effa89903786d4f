------------------------------ MODULE Executor ------------------------------
(***************************************************************************)
(* The instruction pipeline executor of distributed/executor              *)
(* (Executor.ExecuteInstructionSet and executeInstruction): N stage        *)
(* goroutines chained by in-process pipes, the shard dial goroutines of    *)
(* the first stage (readers) and of the last stage (writers), the          *)
(* WaitGroup, the two error channels, the finishedChan waiter, the main    *)
(* select and the deferred wait for the heartbeat goroutine.               *)
(*                                                                         *)
(* Data is abstracted to chunks: a pipe is a rendezvous (io.Pipe), so a    *)
(* chunk moves from writer to reader in one joint step; every stage        *)
(* forwards each chunk it reads.  The shard transport (netchan) and the    *)
(* heartbeat are not under src/ and are modelled from the spec: a read     *)
(* dial receives a chunk from the network (where it can fail or see the    *)
(* cancelled context), then writes it into its pipe, and closes the pipe   *)
(* when it returns; a write dial reads its pipe until EOF; the heartbeat   *)
(* goroutine runs until finishedChan is closed.                            *)
(***************************************************************************)
EXTENDS Naturals, FiniteSets

CONSTANTS
    N,           \* number of instructions (stages)
    Kind,        \* per stage: "func" (built-in), "script" or "none"
    InShards,    \* input shard locations of the first stage
    OutShards,   \* output shard locations of the last stage
    Chunks,      \* chunks each input shard delivers
    FailStages,  \* stages whose function or process may fail
    DialFail,    \* may a shard dial fail on its own?
    Interrupt    \* may the process be interrupted (on_interrupt)?

ASSUME ExecutorAssumption ==
    /\ N \in Nat \ {0}
    /\ Kind \in [1..N -> {"func", "script", "none"}]
    /\ InShards \in Nat /\ OutShards \in Nat
    /\ Chunks \in Nat
    /\ FailStages \subseteq 1..N
    /\ DialFail \in BOOLEAN /\ Interrupt \in BOOLEAN

Stages == 1..N
InIds  == 1..InShards
OutIds == 1..OutShards

(* The code's bounds: the retry loop and the error channel capacities. *)
MaxAttempts == 3
ExeErrCap   == N
IoErrCap    == 2 * N

VARIABLES
    mpc,        \* main goroutine: "init", "select", "returned", "exited"
    result,     \* what ExecuteInstructionSet returns: "none", "ok", "err"
    pc,         \* per stage goroutine: "init", "setup", "run", "blocked", "done"
    attempt,    \* per script stage: process attempts started
    got,        \* per stage: chunks read from its input
    put,        \* per stage: chunks written to its output
    inDial,     \* per input shard: "none", "net", "hold", "done", "stuck"
    sent,       \* per input shard: chunks written into the first stage's pipe
    outDial,    \* per output shard: "none", "run", "done", "stuck"
    wg,         \* the WaitGroup counter
    exeErr,     \* errors buffered in exeErrChan
    ioErr,      \* errors buffered in ioErrChan
    errs,       \* errors sent to either channel so far
    cancelled,  \* the task context has been cancelled
    finished,   \* finishedChan has been closed
    interrupted \* the interrupt handler has run

vars == <<mpc, result, pc, attempt, got, put, inDial, sent, outDial, wg,
          exeErr, ioErr, errs, cancelled, finished, interrupted>>

-----------------------------------------------------------------------------
(* Which readers/writers a stage uses: a built-in function gets them all; *)
(* a process is bound to readers[0] and writers[0] only.                  *)
(* Variant: the built-in function is handed readers[0] only. *)
ReadsFirstOnly(s) == s = 1

Reads(s)  == Kind[1] # "script" \/ s = 1
Writes(s) == Kind[N] # "script" \/ s = 1

(* A stage's input is at EOF once every pipe it reads is closed. *)
InputClosed(i) ==
    IF i = 1 THEN \A s \in InIds : Reads(s) => inDial[s] \in {"done", "stuck"}
             ELSE pc[i - 1] = "done"

(* Send one error on exeErrChan from stage i and leave the stage: when the *)
(* channel is full the send blocks and the deferred wg.Done never runs.   *)
ReportExeErr(i) ==
    /\ errs' = errs + 1
    /\ \/ /\ exeErr < ExeErrCap
          /\ exeErr' = exeErr + 1
          /\ pc' = [pc EXCEPT ![i] = "done"]
          /\ wg' = wg - 1
       \/ /\ exeErr >= ExeErrCap
          /\ pc' = [pc EXCEPT ![i] = "blocked"]
          /\ UNCHANGED <<exeErr, wg>>

(* A dial goroutine that failed has already done wg.Done; it reports on   *)
(* ioErrChan, blocking forever when the channel is full.                  *)
IoReport(st) ==
    /\ errs' = errs + 1
    /\ wg' = wg - 1
    /\ \/ /\ ioErr < IoErrCap /\ ioErr' = ioErr + 1 /\ st = "done"
       \/ /\ ioErr >= IoErrCap /\ st = "stuck" /\ UNCHANGED ioErr

-----------------------------------------------------------------------------
Init ==
    /\ mpc = "init"
    /\ result = "none"
    /\ pc = [i \in Stages |-> "init"]
    /\ attempt = [i \in Stages |-> 0]
    /\ got = [i \in Stages |-> 0]
    /\ put = [i \in Stages |-> 0]
    /\ inDial = [s \in InIds |-> "none"]
    /\ sent = [s \in InIds |-> 0]
    /\ outDial = [s \in OutIds |-> "none"]
    /\ wg = 0
    /\ exeErr = 0 /\ ioErr = 0 /\ errs = 0
    /\ cancelled = FALSE /\ finished = FALSE /\ interrupted = FALSE

(* ExecuteInstructionSet up to the select: one wg.Add and one goroutine   *)
(* per instruction, then the heartbeat and the finishedChan waiter.       *)
Launch ==
    /\ mpc = "init"
    /\ mpc' = "select"
    /\ pc' = [i \in Stages |-> "setup"]
    /\ wg' = N
    /\ UNCHANGED <<result, attempt, got, put, inDial, sent, outDial, exeErr,
                   ioErr, errs, cancelled, finished, interrupted>>

(* Variant: the dial goroutines are started without their wg.Add. *)
SetupNoAdd(i) ==
    /\ pc[i] = "setup"
    /\ pc' = [pc EXCEPT ![i] = "run"]
    /\ inDial' = IF i = 1 THEN [s \in InIds |-> "net"] ELSE inDial
    /\ outDial' = IF i = N THEN [s \in OutIds |-> "run"] ELSE outDial
    /\ attempt' = IF Kind[i] = "script" THEN [attempt EXCEPT ![i] = 1] ELSE attempt
    /\ UNCHANGED <<mpc, result, got, put, sent, wg, exeErr, ioErr, errs,
                   cancelled, finished, interrupted>>

(* setupReaders and setupWriters: the first stage dials every input shard,*)
(* the last every output shard, each dial after its own wg.Add.           *)
Setup(i) ==
    /\ pc[i] = "setup"
    /\ pc' = [pc EXCEPT ![i] = "run"]
    /\ inDial' = IF i = 1 THEN [s \in InIds |-> "net"] ELSE inDial
    /\ outDial' = IF i = N THEN [s \in OutIds |-> "run"] ELSE outDial
    /\ wg' = wg + (IF i = 1 THEN InShards ELSE 0) + (IF i = N THEN OutShards ELSE 0)
    /\ attempt' = IF Kind[i] = "script" THEN [attempt EXCEPT ![i] = 1] ELSE attempt
    /\ UNCHANGED <<mpc, result, got, put, sent, exeErr, ioErr, errs, cancelled,
                   finished, interrupted>>

(* DialReadChannel receives the next chunk from the network. *)
InRecv(s) ==
    /\ inDial[s] = "net" /\ sent[s] < Chunks
    /\ inDial' = [inDial EXCEPT ![s] = "hold"]
    /\ UNCHANGED <<mpc, result, pc, attempt, got, put, sent, outDial, wg, exeErr,
                   ioErr, errs, cancelled, finished, interrupted>>

(* ... and writes it into the first stage's pipe, a rendezvous with the   *)
(* stage reading that reader.                                             *)
InDeliver(s) ==
    /\ inDial[s] = "hold" /\ pc[1] = "run" /\ Reads(s)
    /\ inDial' = [inDial EXCEPT ![s] = "net"]
    /\ sent' = [sent EXCEPT ![s] = @ + 1]
    /\ got' = [got EXCEPT ![1] = @ + 1]
    /\ UNCHANGED <<mpc, result, pc, attempt, put, outDial, wg, exeErr, ioErr,
                   errs, cancelled, finished, interrupted>>

(* The shard is exhausted: the dial closes its pipe and returns nil. *)
InClose(s) ==
    /\ inDial[s] = "net" /\ sent[s] = Chunks
    /\ inDial' = [inDial EXCEPT ![s] = "done"]
    /\ wg' = wg - 1
    /\ UNCHANGED <<mpc, result, pc, attempt, got, put, sent, outDial, exeErr,
                   ioErr, errs, cancelled, finished, interrupted>>

(* The read dial fails (network error or cancelled context) while waiting *)
(* on the network, and the goroutine of setupReaders reports it.          *)
InFail(s) ==
    /\ inDial[s] = "net" /\ (DialFail \/ cancelled)
    /\ \E st \in {"done", "stuck"} :
          /\ IoReport(st)
          /\ inDial' = [inDial EXCEPT ![s] = st]
    /\ UNCHANGED <<mpc, result, pc, attempt, got, put, sent, outDial, exeErr,
                   cancelled, finished, interrupted>>

(* A chunk crosses the pipe between stage i and stage i + 1. *)
Forward(i) ==
    /\ pc[i] = "run" /\ pc[i + 1] = "run" /\ put[i] < got[i]
    /\ put' = [put EXCEPT ![i] = @ + 1]
    /\ got' = [got EXCEPT ![i + 1] = @ + 1]
    /\ UNCHANGED <<mpc, result, pc, attempt, inDial, sent, outDial, wg, exeErr,
                   ioErr, errs, cancelled, finished, interrupted>>

(* The last stage writes a chunk into the pipe read by write dial s. *)
OutDeliver(s) ==
    /\ pc[N] = "run" /\ put[N] < got[N] /\ outDial[s] = "run" /\ Writes(s)
    /\ put' = [put EXCEPT ![N] = @ + 1]
    /\ UNCHANGED <<mpc, result, pc, attempt, got, inDial, sent, outDial, wg,
                   exeErr, ioErr, errs, cancelled, finished, interrupted>>

(* DialWriteChannel reads EOF: the last stage has closed its writers. *)
OutClose(s) ==
    /\ outDial[s] = "run" /\ pc[N] = "done"
    /\ outDial' = [outDial EXCEPT ![s] = "done"]
    /\ wg' = wg - 1
    /\ UNCHANGED <<mpc, result, pc, attempt, got, put, inDial, sent, exeErr,
                   ioErr, errs, cancelled, finished, interrupted>>

(* The write dial fails and the goroutine of setupWriters reports it.     *)
(* Nobody reads its pipe any more.                                        *)
OutFail(s) ==
    /\ outDial[s] = "run" /\ (DialFail \/ cancelled)
    /\ \E st \in {"done", "stuck"} :
          /\ IoReport(st)
          /\ outDial' = [outDial EXCEPT ![s] = st]
    /\ UNCHANGED <<mpc, result, pc, attempt, got, put, inDial, sent, exeErr,
                   cancelled, finished, interrupted>>

-----------------------------------------------------------------------------
(* The stage's function returns nil, or its process exits 0, after its   *)
(* input reached EOF and everything it read was written on: the deferred  *)
(* close of the writers and wg.Done follow.                               *)
Finish(i) ==
    /\ pc[i] = "run" /\ Kind[i] # "none"
    /\ InputClosed(i) /\ put[i] = got[i]
    /\ pc' = [pc EXCEPT ![i] = "done"]
    /\ wg' = wg - 1
    /\ UNCHANGED <<mpc, result, attempt, got, put, inDial, sent, outDial,
                   exeErr, ioErr, errs, cancelled, finished, interrupted>>

(* f(readers, writers, stat) returns an error, which is sent on exeErrChan. *)
FuncFail(i) ==
    /\ pc[i] = "run" /\ Kind[i] = "func" /\ i \in FailStages
    /\ ReportExeErr(i)
    /\ UNCHANGED <<mpc, result, attempt, got, put, inDial, sent, outDial, ioErr,
                   cancelled, finished, interrupted>>

(* Neither a function nor a script: "no script provided in instruction". *)
NoScript(i) ==
    /\ pc[i] = "run" /\ Kind[i] = "none"
    /\ ReportExeErr(i)
    /\ UNCHANGED <<mpc, result, attempt, got, put, inDial, sent, outDial, ioErr,
                   cancelled, finished, interrupted>>

(* Variant: the loop runs x <= 3, one attempt too many. *)
ScriptFailOneMore(i) ==
    /\ pc[i] = "run" /\ Kind[i] = "script" /\ (i \in FailStages \/ cancelled)
    /\ \/ /\ got[i] = 0 /\ attempt[i] <= MaxAttempts
          /\ attempt' = [attempt EXCEPT ![i] = @ + 1]
          /\ UNCHANGED <<pc, wg, exeErr, errs>>
       \/ /\ got[i] # 0 \/ attempt[i] > MaxAttempts
          /\ ReportExeErr(i)
          /\ UNCHANGED attempt
    /\ UNCHANGED <<mpc, result, got, put, inDial, sent, outDial, ioErr,
                   cancelled, finished, interrupted>>

(* Variant: every failed attempt is reported on exeErrChan, not only the  *)
(* last one.                                                              *)
ScriptFailReportEach(i) ==
    /\ pc[i] = "run" /\ Kind[i] = "script" /\ (i \in FailStages \/ cancelled)
    /\ \/ /\ got[i] = 0 /\ attempt[i] < MaxAttempts
          /\ attempt' = [attempt EXCEPT ![i] = @ + 1]
          /\ errs' = errs + 1
          /\ \/ exeErr < ExeErrCap /\ exeErr' = exeErr + 1 /\ pc' = pc
             \/ exeErr >= ExeErrCap /\ exeErr' = exeErr
                /\ pc' = [pc EXCEPT ![i] = "blocked"]
          /\ UNCHANGED wg
       \/ /\ got[i] # 0 \/ attempt[i] = MaxAttempts
          /\ ReportExeErr(i)
          /\ UNCHANGED attempt
    /\ UNCHANGED <<mpc, result, got, put, inDial, sent, outDial, ioErr,
                   cancelled, finished, interrupted>>

(* util.Execute returns an error (the process failed, or was killed by the *)
(* cancelled context).  The loop retries only while the process has read  *)
(* nothing and fewer than three attempts were made; otherwise the error is *)
(* sent on exeErrChan.                                                    *)
ScriptFail(i) ==
    /\ pc[i] = "run" /\ Kind[i] = "script" /\ (i \in FailStages \/ cancelled)
    /\ \/ /\ got[i] = 0 /\ attempt[i] < MaxAttempts
          /\ attempt' = [attempt EXCEPT ![i] = @ + 1]
          /\ UNCHANGED <<pc, wg, exeErr, errs>>
       \/ /\ got[i] # 0 \/ attempt[i] = MaxAttempts
          /\ ReportExeErr(i)
          /\ UNCHANGED attempt
    /\ UNCHANGED <<mpc, result, got, put, inDial, sent, outDial, ioErr,
                   cancelled, finished, interrupted>>

-----------------------------------------------------------------------------
(* The goroutine running wg.Wait(); close(finishedChan). *)
CloseFinished ==
    /\ mpc # "init" /\ ~finished /\ wg = 0
    /\ finished' = TRUE
    /\ UNCHANGED <<mpc, result, pc, attempt, got, put, inDial, sent, outDial,
                   wg, exeErr, ioErr, errs, cancelled, interrupted>>

(* The select of ExecuteInstructionSet: Go picks any ready case.  The     *)
(* finished case reports the status and returns nil; an error case        *)
(* cancels the context and returns the error.                            *)
SelectFinished ==
    /\ mpc = "select" /\ finished
    /\ mpc' = "returned" /\ result' = "ok"
    /\ UNCHANGED <<pc, attempt, got, put, inDial, sent, outDial, wg, exeErr,
                   ioErr, errs, cancelled, finished, interrupted>>

SelectIoErr ==
    /\ mpc = "select" /\ ioErr > 0
    /\ ioErr' = ioErr - 1
    /\ cancelled' = TRUE
    /\ mpc' = "returned" /\ result' = "err"
    /\ UNCHANGED <<pc, attempt, got, put, inDial, sent, outDial, wg, exeErr,
                   errs, finished, interrupted>>

SelectExeErr ==
    /\ mpc = "select" /\ exeErr > 0
    /\ exeErr' = exeErr - 1
    /\ cancelled' = TRUE
    /\ mpc' = "returned" /\ result' = "err"
    /\ UNCHANGED <<pc, attempt, got, put, inDial, sent, outDial, wg, ioErr,
                   errs, finished, interrupted>>

(* The deferred heartbeatWg.Wait(): the heartbeat goroutine stops once    *)
(* finishedChan is closed, and ExecuteInstructionSet returns.             *)
Exit ==
    /\ mpc = "returned" /\ finished
    /\ mpc' = "exited"
    /\ UNCHANGED <<result, pc, attempt, got, put, inDial, sent, outDial, wg,
                   exeErr, ioErr, errs, cancelled, finished, interrupted>>

(* The on_interrupt handler: cancel(), then wg.Wait() (which blocks the   *)
(* handler only, not the goroutines).                                     *)
OnInterrupt ==
    /\ Interrupt /\ mpc # "init" /\ ~interrupted
    /\ interrupted' = TRUE /\ cancelled' = TRUE
    /\ UNCHANGED <<mpc, result, pc, attempt, got, put, inDial, sent, outDial,
                   wg, exeErr, ioErr, errs, finished>>

(* The process has returned from ExecuteInstructionSet. *)
Terminated == mpc = "exited" /\ UNCHANGED vars

Next ==
    \/ Launch \/ CloseFinished \/ SelectFinished \/ SelectIoErr
    \/ SelectExeErr \/ Exit \/ OnInterrupt \/ Terminated
    \/ \E i \in Stages : Setup(i) \/ Finish(i) \/ FuncFail(i) \/ NoScript(i)
                         \/ ScriptFail(i)
    \/ \E i \in 1..(N - 1) : Forward(i)
    \/ \E s \in InIds : InRecv(s) \/ InDeliver(s) \/ InClose(s) \/ InFail(s)
    \/ \E s \in OutIds : OutDeliver(s) \/ OutClose(s) \/ OutFail(s)

Spec == Init /\ [][Next]_vars

(* Go's scheduler eventually runs every runnable goroutine: each step of   *)
(* the program is weakly fair.  Failures and interrupts are not.           *)
Progress ==
    /\ WF_vars(Launch) /\ WF_vars(CloseFinished) /\ WF_vars(Exit)
    /\ WF_vars(SelectFinished \/ SelectIoErr \/ SelectExeErr)
    /\ \A i \in Stages : WF_vars(Setup(i)) /\ WF_vars(Finish(i)) /\ WF_vars(NoScript(i))
    /\ \A i \in 1..(N - 1) : WF_vars(Forward(i))
    /\ \A s \in InIds : WF_vars(InRecv(s)) /\ WF_vars(InDeliver(s)) /\ WF_vars(InClose(s))
    /\ \A s \in OutIds : WF_vars(OutDeliver(s)) /\ WF_vars(OutClose(s))

FairSpec == Spec /\ Progress

-----------------------------------------------------------------------------
(* Every variable keeps its type. *)
TypeOK ==
    /\ mpc \in {"init", "select", "returned", "exited"}
    /\ result \in {"none", "ok", "err"}
    /\ pc \in [Stages -> {"init", "setup", "run", "blocked", "done"}]
    /\ attempt \in [Stages -> 0..MaxAttempts]
    /\ got \in [Stages -> Nat] /\ put \in [Stages -> Nat]
    /\ inDial \in [InIds -> {"none", "net", "hold", "done", "stuck"}]
    /\ sent \in [InIds -> 0..Chunks]
    /\ outDial \in [OutIds -> {"none", "run", "done", "stuck"}]
    /\ wg \in Nat /\ exeErr \in 0..ExeErrCap /\ ioErr \in 0..IoErrCap
    /\ errs \in Nat
    /\ cancelled \in BOOLEAN /\ finished \in BOOLEAN /\ interrupted \in BOOLEAN

(* The WaitGroup does its job: once finishedChan is closed (so the task    *)
(* may report success and the process may exit) no stage goroutine and    *)
(* no dial goroutine is still running.  It rests on every wg.Add of       *)
(* ExecuteInstructionSet, setupReaders and setupWriters happening before   *)
(* the counted goroutine starts and while the caller is still counted.     *)
FinishedMeansQuiescent ==
    finished =>
        /\ \A i \in Stages : pc[i] = "done"
        /\ \A s \in InIds : inDial[s] \in {"done", "stuck"}
        /\ \A s \in OutIds : outDial[s] \in {"done", "stuck"}

(* No stage ever blocks sending on exeErrChan (capacity = number of       *)
(* instructions): each executeInstruction sends at most one error, after  *)
(* its retry loop, so the buffer suffices even when nobody reads it.      *)
ExeErrNeverBlocks == \A i \in Stages : pc[i] # "blocked"

(* No dial goroutine blocks reporting on ioErrChan (capacity 2 x number of *)
(* instructions), as the spec says the capacity guarantees.               *)
IoErrNeverBlocks ==
    /\ \A s \in InIds : inDial[s] # "stuck"
    /\ \A s \in OutIds : outDial[s] # "stuck"

(* ExecuteInstructionSet returns nil only if no instruction or shard      *)
(* reported an error: the spec's "nil on success, the first fatal error   *)
(* otherwise".                                                            *)
SuccessMeansNoError == result = "ok" => errs = 0

(* ExecuteInstructionSet eventually returns (the deferred heartbeat wait  *)
(* included).                                                            *)
TaskReturns == <>(mpc = "exited")

=============================================================================
