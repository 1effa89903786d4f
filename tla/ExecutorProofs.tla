--------------------------- MODULE ExecutorProofs ---------------------------
(***************************************************************************)
(* Proofs, for every number of instructions and shards, that the executor *)
(* keeps its types, that the WaitGroup counts exactly the running          *)
(* goroutines (so finishedChan is closed only when none is left), and      *)
(* that no stage ever blocks on exeErrChan.                                *)
(***************************************************************************)
EXTENDS Executor, FiniteSetTheorems, TLAPS

(* The members of D whose entry in f is one of the states P. *)
InState(f, D, P) == {d \in D : f[d] \in P}

LiveStages == InState(pc, Stages, {"setup", "run", "blocked"})
LiveIn     == InState(inDial, InIds, {"net", "hold"})
LiveOut    == InState(outDial, OutIds, {"run"})
DoneStages == InState(pc, Stages, {"done"})

-----------------------------------------------------------------------------
(* Counting lemmas: a subset of a finite domain is finite and no larger. *)
LEMMA InStateFinite ==
    ASSUME NEW D, IsFiniteSet(D), NEW f, NEW P
    PROVE  /\ IsFiniteSet(InState(f, D, P))
           /\ Cardinality(InState(f, D, P)) \in Nat
           /\ Cardinality(InState(f, D, P)) <= Cardinality(D)
<1>1. InState(f, D, P) \in SUBSET D
  BY DEF InState
<1>. QED
  BY <1>1, FS_Subset, FS_CardinalityType

(* Every entry of f outside P: the count is zero. *)
LEMMA InStateEmpty ==
    ASSUME NEW D, NEW f, NEW P, \A d \in D : f[d] \notin P
    PROVE  IsFiniteSet(InState(f, D, P)) /\ Cardinality(InState(f, D, P)) = 0
<1>1. InState(f, D, P) = {}
  BY DEF InState
<1>. QED
  BY <1>1, FS_EmptySet

(* Every entry of f in P: the count is the size of D. *)
LEMMA InStateAll ==
    ASSUME NEW D, NEW f, NEW P, \A d \in D : f[d] \in P
    PROVE  InState(f, D, P) = D
BY DEF InState


-----------------------------------------------------------------------------
PcStates  == {"init", "setup", "run", "blocked", "done"}
InStates  == {"none", "net", "hold", "done", "stuck"}
OutStates == {"none", "run", "done", "stuck"}

(* The inductive invariant.  wg is exactly the number of stage goroutines  *)
(* that have not returned plus the dial goroutines still running; dials    *)
(* exist once their stage has run setupReaders/setupWriters; finishedChan  *)
(* is closed only at wg = 0; exeErrChan holds no more errors than stages    *)
(* have returned, which is what keeps its sends from blocking.             *)
IInv ==
    /\ TypeOK
    /\ mpc = "init" => wg = 0 /\ ~finished /\ \A i \in Stages : pc[i] = "init"
    /\ mpc # "init" => \A i \in Stages : pc[i] # "init"
    /\ \A s \in InIds : inDial[s] = "none" <=> pc[1] \in {"init", "setup"}
    /\ \A s \in OutIds : outDial[s] = "none" <=> pc[N] \in {"init", "setup"}
    /\ \A s \in InIds : inDial[s] = "hold" => sent[s] < Chunks
    /\ wg = Cardinality(LiveStages) + Cardinality(LiveIn) + Cardinality(LiveOut)
    /\ finished => wg = 0
    /\ exeErr <= Cardinality(DoneStages)
    /\ ExeErrNeverBlocks


LiveP == {"setup", "run", "blocked"}
DoneP == {"done"}

LEMMA DomainsFinite ==
    /\ IsFiniteSet(Stages) /\ Cardinality(Stages) = N
    /\ IsFiniteSet(InIds) /\ Cardinality(InIds) = InShards
    /\ IsFiniteSet(OutIds) /\ Cardinality(OutIds) = OutShards
BY ExecutorAssumption, FS_Interval DEF Stages, InIds, OutIds

LEMMA Types ==
    IInv => /\ pc \in [Stages -> PcStates]
            /\ inDial \in [InIds -> InStates]
            /\ outDial \in [OutIds -> OutStates]
            /\ Cardinality(LiveStages) \in Nat /\ Cardinality(DoneStages) \in Nat
            /\ Cardinality(LiveIn) \in Nat /\ Cardinality(LiveOut) \in Nat
<1> HAVE IInv
<1>1. IsFiniteSet(Stages) /\ IsFiniteSet(InIds) /\ IsFiniteSet(OutIds)
  BY DomainsFinite
<1>. QED
  BY <1>1, InStateFinite DEF IInv, TypeOK, PcStates, InStates, OutStates,
     LiveStages, DoneStages, LiveIn, LiveOut

(* A running stage leaves room in exeErrChan: the stages that returned are *)
(* at most N - 1.                                                         *)
LEMMA ExeErrRoom ==
    IInv => \A i \in Stages : pc[i] = "run" => exeErr < ExeErrCap
<1> SUFFICES ASSUME IInv, NEW i \in Stages, pc[i] = "run"
             PROVE  exeErr < ExeErrCap
  OBVIOUS
<1>1. DoneStages \subseteq Stages \ {i}
  BY DEF DoneStages, InState
<1>2. IsFiniteSet(Stages \ {i}) /\ Cardinality(Stages \ {i}) = N - 1
  BY DomainsFinite, FS_RemoveElement
<1>3. Cardinality(DoneStages) <= N - 1
  BY <1>1, <1>2, FS_Subset
<1>4. /\ Cardinality(DoneStages) \in Nat /\ exeErr \in Nat
      /\ exeErr <= Cardinality(DoneStages)
  BY Types DEF IInv, TypeOK
<1>. QED
  BY <1>3, <1>4, ExecutorAssumption DEF ExeErrCap

LEMMA InitIInv == Init => IInv
<1> SUFFICES ASSUME Init PROVE IInv
  OBVIOUS
<1> USE ExecutorAssumption
<1>1. Cardinality(LiveStages) = 0 /\ Cardinality(DoneStages) = 0
  BY InStateEmpty DEF Init, LiveStages, DoneStages, LiveP
<1>2. Cardinality(LiveIn) = 0 /\ Cardinality(LiveOut) = 0
  BY InStateEmpty DEF Init, LiveIn, LiveOut
<1>3. TypeOK
  <2>1. /\ pc \in [Stages -> {"init", "setup", "run", "blocked", "done"}]
        /\ inDial \in [InIds -> {"none", "net", "hold", "done", "stuck"}]
        /\ outDial \in [OutIds -> {"none", "run", "done", "stuck"}]
    BY DEF Init
  <2>2. /\ attempt \in [Stages -> 0..MaxAttempts]
        /\ got \in [Stages -> Nat] /\ put \in [Stages -> Nat]
        /\ sent \in [InIds -> 0..Chunks]
    BY DEF Init, MaxAttempts
  <2>3. wg \in Nat /\ exeErr \in 0..ExeErrCap /\ ioErr \in 0..IoErrCap /\ errs \in Nat
    BY DEF Init, ExeErrCap, IoErrCap
  <2>. QED
    BY <2>1, <2>2, <2>3, Zenon DEF Init, TypeOK
<1>4. 1 \in Stages /\ N \in Stages
  BY DEF Stages
<1>5. /\ \A s \in InIds : inDial[s] = "none" <=> pc[1] \in {"init", "setup"}
      /\ \A s \in OutIds : outDial[s] = "none" <=> pc[N] \in {"init", "setup"}
  BY <1>4 DEF Init
<1>. QED
  BY <1>1, <1>2, <1>3, <1>5 DEF Init, IInv, ExeErrNeverBlocks

(* A stage returns (Finish, or an error reported on exeErrChan): one live  *)
(* goroutine fewer and one returned stage more.                           *)
LEMMA StageReturns ==
    ASSUME IInv, NEW i \in Stages, pc[i] = "run",
           pc' = [pc EXCEPT ![i] = "done"], wg' = wg - 1,
           exeErr' \in {exeErr, exeErr + 1},
           UNCHANGED <<mpc, attempt, got, put, inDial, sent, outDial, ioErr,
                       finished>>,
           result' = result, errs' \in Nat, cancelled' \in BOOLEAN,
           interrupted' \in BOOLEAN
    PROVE  IInv'
<1>1. pc \in [Stages -> PcStates]
  BY Types
<1>1a. \A d \in Stages : pc'[d] = IF d = i THEN "done" ELSE pc[d]
  BY <1>1
<1>2. LiveStages' = LiveStages \ {i} /\ i \in LiveStages
  BY <1>1a DEF LiveStages, InState
<1>3. DoneStages' = DoneStages \cup {i} /\ i \notin DoneStages
  BY <1>1a DEF DoneStages, InState
<1>. IsFiniteSet(LiveStages) /\ IsFiniteSet(DoneStages)
  BY DomainsFinite, InStateFinite DEF LiveStages, DoneStages
<1>2a. IsFiniteSet(LiveStages')
       /\ Cardinality(LiveStages') = Cardinality(LiveStages) - 1
  BY <1>2, FS_RemoveElement
<1>3a. IsFiniteSet(DoneStages')
       /\ Cardinality(DoneStages') = Cardinality(DoneStages) + 1
  BY <1>3, FS_AddElement
<1>4. Cardinality(LiveStages') \in Nat /\ Cardinality(DoneStages') \in Nat
  BY <1>2a, <1>3a, FS_CardinalityType
<1>5. LiveIn' = LiveIn /\ LiveOut' = LiveOut
  BY DEF LiveIn, LiveOut
<1>6. mpc # "init"
  BY DEF IInv
<1>7. wg' = Cardinality(LiveStages') + Cardinality(LiveIn') + Cardinality(LiveOut')
      /\ wg' \in Nat
  BY <1>2a, <1>4, <1>5, Types DEF IInv
<1>8. exeErr' \in 0..ExeErrCap /\ exeErr' <= Cardinality(DoneStages')
  <2>1. exeErr < ExeErrCap
    BY ExeErrRoom
  <2>2. exeErr \in Nat /\ exeErr <= Cardinality(DoneStages)
        /\ Cardinality(DoneStages) \in Nat
    BY Types DEF IInv, TypeOK, ExeErrCap
  <2>. QED
    BY <2>1, <2>2, <1>3a, ExecutorAssumption DEF ExeErrCap
<1>9. pc' \in [Stages -> PcStates]
  BY <1>1 DEF PcStates
<1>10. TypeOK'
  BY <1>7, <1>8, <1>9, Zenon DEF IInv, TypeOK, PcStates
<1>11. /\ \A d \in Stages : pc'[d] # "init" /\ pc'[d] # "blocked"
       /\ pc'[1] \in {"init", "setup"} <=> pc[1] \in {"init", "setup"}
       /\ pc'[N] \in {"init", "setup"} <=> pc[N] \in {"init", "setup"}
  BY <1>1a, <1>6, ExecutorAssumption DEF IInv, ExeErrNeverBlocks, Stages
<1>12. ~finished
  BY <1>2a, <1>4, <1>5, Types DEF IInv
<1>. QED
  BY <1>6, <1>7, <1>8, <1>10, <1>11, <1>12 DEF IInv, ExeErrNeverBlocks


LEMMA LaunchStep ==
    ASSUME IInv, Launch
    PROVE  IInv'
<1> USE ExecutorAssumption
<1>1. \A i \in Stages : pc[i] = "init" /\ pc'[i] = "setup"
  BY DEF IInv, Launch
<1>2. Cardinality(DoneStages) = 0 /\ Cardinality(DoneStages') = 0
  BY <1>1, InStateEmpty DEF DoneStages
<1>3. LiveStages' = Stages
  BY <1>1 DEF LiveStages, InState
<1>4. LiveIn' = LiveIn /\ LiveOut' = LiveOut
  BY DEF Launch, LiveIn, LiveOut
<1>5. Cardinality(LiveStages) = 0
  BY <1>1, InStateEmpty DEF LiveStages
<1>6. wg = 0 /\ Cardinality(LiveIn) = 0 /\ Cardinality(LiveOut) = 0
  BY <1>5, Types DEF IInv, Launch
<1>7. wg' = Cardinality(LiveStages') + Cardinality(LiveIn') + Cardinality(LiveOut')
  BY <1>3, <1>4, <1>6, DomainsFinite DEF Launch
<1>8. exeErr' = 0
  BY <1>2, Types DEF IInv, TypeOK, Launch
<1>9. TypeOK'
  <2>1. pc' \in [Stages -> {"init", "setup", "run", "blocked", "done"}]
    BY DEF Launch
  <2>2. wg' \in Nat /\ exeErr' \in 0..ExeErrCap
    BY <1>8 DEF Launch, Stages, ExeErrCap
  <2>. QED
    BY <2>1, <2>2, Zenon DEF IInv, TypeOK, Launch
<1>10. 1 \in Stages /\ N \in Stages
  BY DEF Stages
<1>. QED
  BY <1>1, <1>2, <1>7, <1>8, <1>9, <1>10
  DEF IInv, Launch, ExeErrNeverBlocks

LEMMA SetupStep ==
    ASSUME IInv, NEW i \in Stages, Setup(i)
    PROVE  IInv'
<1> USE ExecutorAssumption
<1>1. pc \in [Stages -> PcStates]
  BY Types
<1>1a. \A d \in Stages : pc'[d] = IF d = i THEN "run" ELSE pc[d]
  BY <1>1 DEF Setup
<1>2. LiveStages' = LiveStages /\ DoneStages' = DoneStages
  BY <1>1a DEF Setup, LiveStages, DoneStages, InState
<1>3. i \in LiveStages /\ IsFiniteSet(LiveStages)
  <2>1. IsFiniteSet(LiveStages)
    BY DomainsFinite, InStateFinite DEF LiveStages
  <2>. QED
    BY <2>1 DEF Setup, LiveStages, InState
<1>4. ~finished
  <2>1. Cardinality(LiveStages) # 0
    BY <1>3, FS_EmptySet
  <2>. QED
    BY <2>1, Types DEF IInv
<1>5. Cardinality(LiveIn') = Cardinality(LiveIn) + (IF i = 1 THEN InShards ELSE 0)
  <2>1. CASE i = 1
    <3>1. \A s \in InIds : inDial[s] = "none"
      BY <2>1 DEF IInv, Setup
    <3>2. Cardinality(LiveIn) = 0
      BY <3>1, InStateEmpty DEF LiveIn
    <3>3. LiveIn' = InIds
      BY <2>1 DEF Setup, LiveIn, InState
    <3>. QED
      BY <2>1, <3>2, <3>3, DomainsFinite
  <2>2. CASE i # 1
    <3>1. LiveIn' = LiveIn
      BY <2>2 DEF Setup, LiveIn
    <3>. QED
      BY <2>2, <3>1, Types
  <2>. QED
    BY <2>1, <2>2
<1>6. Cardinality(LiveOut') = Cardinality(LiveOut) + (IF i = N THEN OutShards ELSE 0)
  <2>1. CASE i = N
    <3>1. \A s \in OutIds : outDial[s] = "none"
      BY <2>1 DEF IInv, Setup
    <3>2. Cardinality(LiveOut) = 0
      BY <3>1, InStateEmpty DEF LiveOut
    <3>3. LiveOut' = OutIds
      BY <2>1 DEF Setup, LiveOut, InState
    <3>. QED
      BY <2>1, <3>2, <3>3, DomainsFinite
  <2>2. CASE i # N
    <3>1. LiveOut' = LiveOut
      BY <2>2 DEF Setup, LiveOut
    <3>. QED
      BY <2>2, <3>1, Types
  <2>. QED
    BY <2>1, <2>2
<1>7. wg' = Cardinality(LiveStages') + Cardinality(LiveIn') + Cardinality(LiveOut')
      /\ wg' \in Nat
  <2>1. /\ wg = Cardinality(LiveStages) + Cardinality(LiveIn) + Cardinality(LiveOut)
        /\ Cardinality(LiveStages) \in Nat /\ Cardinality(LiveIn) \in Nat
        /\ Cardinality(LiveOut) \in Nat
    BY Types DEF IInv
  <2>2. wg' = wg + (IF i = 1 THEN InShards ELSE 0) + (IF i = N THEN OutShards ELSE 0)
    BY DEF Setup
  <2>. QED
    BY <1>2, <1>5, <1>6, <2>1, <2>2
<1>8. TypeOK'
  <2>1. /\ pc' \in [Stages -> {"init", "setup", "run", "blocked", "done"}]
        /\ attempt' \in [Stages -> 0..MaxAttempts]
    BY <1>1 DEF IInv, TypeOK, Setup, PcStates, MaxAttempts
  <2>2. /\ inDial' \in [InIds -> {"none", "net", "hold", "done", "stuck"}]
        /\ outDial' \in [OutIds -> {"none", "run", "done", "stuck"}]
    BY DEF IInv, TypeOK, Setup
  <2>. QED
    BY <1>7, <2>1, <2>2, Zenon DEF IInv, TypeOK, Setup
<1>9. mpc # "init" /\ pc[i] = "setup"
  BY DEF IInv, Setup
<1>10. /\ \A s \in InIds : inDial'[s] = "none" <=> pc'[1] \in {"init", "setup"}
       /\ \A s \in OutIds : outDial'[s] = "none" <=> pc'[N] \in {"init", "setup"}
       /\ \A s \in InIds : inDial'[s] = "hold" => sent'[s] < Chunks
  BY <1>1a, <1>9 DEF IInv, Setup, Stages
<1>. QED
  BY <1>1a, <1>2, <1>4, <1>7, <1>8, <1>9, <1>10
  DEF IInv, Setup, ExeErrNeverBlocks


(* A read dial returns (its shard exhausted, or failed and reported):     *)
(* one running dial fewer.                                                *)
LEMMA InDialReturns ==
    ASSUME IInv, NEW s \in InIds, inDial[s] = "net", NEW st \in {"done", "stuck"},
           inDial' = [inDial EXCEPT ![s] = st], wg' = wg - 1,
           ioErr' \in 0..IoErrCap, errs' \in Nat,
           UNCHANGED <<mpc, result, pc, attempt, got, put, sent, outDial, exeErr,
                       cancelled, finished, interrupted>>
    PROVE  IInv'
<1>1. inDial \in [InIds -> InStates]
  BY Types
<1>2. \A d \in InIds : inDial'[d] = IF d = s THEN st ELSE inDial[d]
  BY <1>1
<1>3. LiveIn' = LiveIn \ {s} /\ s \in LiveIn
  BY <1>2 DEF LiveIn, InState
<1>4. IsFiniteSet(LiveIn)
  BY DomainsFinite, InStateFinite DEF LiveIn
<1>5. IsFiniteSet(LiveIn') /\ Cardinality(LiveIn') = Cardinality(LiveIn) - 1
  BY <1>3, <1>4, FS_RemoveElement
<1>6. Cardinality(LiveIn') \in Nat
  BY <1>5, FS_CardinalityType
<1>7. LiveStages' = LiveStages /\ DoneStages' = DoneStages /\ LiveOut' = LiveOut
  BY DEF LiveStages, DoneStages, LiveOut
<1>8. /\ wg = Cardinality(LiveStages) + Cardinality(LiveIn) + Cardinality(LiveOut)
      /\ Cardinality(LiveStages) \in Nat /\ Cardinality(LiveIn) \in Nat
      /\ Cardinality(LiveOut) \in Nat /\ Cardinality(DoneStages) \in Nat
  BY Types DEF IInv
<1>9. wg' = Cardinality(LiveStages') + Cardinality(LiveIn') + Cardinality(LiveOut')
      /\ wg' \in Nat /\ wg # 0
  BY <1>5, <1>6, <1>7, <1>8
<1>10. TypeOK'
  <2>1. inDial' \in [InIds -> {"none", "net", "hold", "done", "stuck"}]
    BY <1>1 DEF InStates
  <2>. QED
    BY <1>9, <2>1, Zenon DEF IInv, TypeOK
<1>11. /\ \A d \in InIds : inDial'[d] = "none" <=> inDial[d] = "none"
       /\ \A d \in InIds : inDial'[d] = "hold" => inDial[d] = "hold"
  BY <1>2
<1>. QED
  BY <1>7, <1>8, <1>9, <1>10, <1>11 DEF IInv, ExeErrNeverBlocks

(* A write dial returns (EOF from the last stage, or failed and reported). *)
LEMMA OutDialReturns ==
    ASSUME IInv, NEW s \in OutIds, outDial[s] = "run", NEW st \in {"done", "stuck"},
           outDial' = [outDial EXCEPT ![s] = st], wg' = wg - 1,
           ioErr' \in 0..IoErrCap, errs' \in Nat,
           UNCHANGED <<mpc, result, pc, attempt, got, put, sent, inDial, exeErr,
                       cancelled, finished, interrupted>>
    PROVE  IInv'
<1>1. outDial \in [OutIds -> OutStates]
  BY Types
<1>2. \A d \in OutIds : outDial'[d] = IF d = s THEN st ELSE outDial[d]
  BY <1>1
<1>3. LiveOut' = LiveOut \ {s} /\ s \in LiveOut
  BY <1>2 DEF LiveOut, InState
<1>4. IsFiniteSet(LiveOut)
  BY DomainsFinite, InStateFinite DEF LiveOut
<1>5. IsFiniteSet(LiveOut') /\ Cardinality(LiveOut') = Cardinality(LiveOut) - 1
  BY <1>3, <1>4, FS_RemoveElement
<1>6. Cardinality(LiveOut') \in Nat
  BY <1>5, FS_CardinalityType
<1>7. LiveStages' = LiveStages /\ DoneStages' = DoneStages /\ LiveIn' = LiveIn
  BY DEF LiveStages, DoneStages, LiveIn
<1>8. /\ wg = Cardinality(LiveStages) + Cardinality(LiveIn) + Cardinality(LiveOut)
      /\ Cardinality(LiveStages) \in Nat /\ Cardinality(LiveIn) \in Nat
      /\ Cardinality(LiveOut) \in Nat /\ Cardinality(DoneStages) \in Nat
  BY Types DEF IInv
<1>9. wg' = Cardinality(LiveStages') + Cardinality(LiveIn') + Cardinality(LiveOut')
      /\ wg' \in Nat /\ wg # 0
  BY <1>5, <1>6, <1>7, <1>8
<1>10. TypeOK'
  <2>1. outDial' \in [OutIds -> {"none", "run", "done", "stuck"}]
    BY <1>1 DEF OutStates
  <2>. QED
    BY <1>9, <2>1, Zenon DEF IInv, TypeOK
<1>11. \A d \in OutIds : outDial'[d] = "none" <=> outDial[d] = "none"
  BY <1>2
<1>. QED
  BY <1>7, <1>8, <1>9, <1>10, <1>11 DEF IInv, ExeErrNeverBlocks


(* A step that moves chunks or retries a process: no goroutine starts or  *)
(* returns, and each read dial stays running or stays stopped.            *)
LEMMA DataStep ==
    ASSUME IInv,
           attempt' \in [Stages -> 0..MaxAttempts],
           got' \in [Stages -> Nat], put' \in [Stages -> Nat],
           sent' \in [InIds -> 0..Chunks], inDial' \in [InIds -> InStates],
           \A d \in InIds : /\ inDial'[d] \in {"net", "hold"} <=> inDial[d] \in {"net", "hold"}
                            /\ inDial'[d] = "none" <=> inDial[d] = "none"
                            /\ inDial'[d] = "hold" => sent'[d] < Chunks,
           UNCHANGED <<mpc, result, pc, outDial, wg, exeErr, ioErr, errs,
                       cancelled, finished, interrupted>>
    PROVE  IInv'
<1>1. LiveIn' = LiveIn
  BY DEF LiveIn, InState
<1>2. LiveStages' = LiveStages /\ LiveOut' = LiveOut /\ DoneStages' = DoneStages
  BY DEF LiveStages, LiveOut, DoneStages
<1>3. TypeOK'
  <2>1. inDial' \in [InIds -> {"none", "net", "hold", "done", "stuck"}]
    BY DEF InStates
  <2>. QED
    BY <2>1, Zenon DEF IInv, TypeOK
<1>. QED
  BY <1>1, <1>2, <1>3 DEF IInv, ExeErrNeverBlocks

LEMMA InRecvStep ==
    ASSUME IInv, NEW s \in InIds, InRecv(s)
    PROVE  IInv'
<1>1. inDial \in [InIds -> InStates]
  BY Types
<1>2. \A d \in InIds : inDial'[d] = IF d = s THEN "hold" ELSE inDial[d]
  BY <1>1 DEF InRecv
<1>3. inDial' \in [InIds -> InStates]
  BY <1>1 DEF InRecv, InStates
<1>. QED
  BY <1>2, <1>3, DataStep DEF IInv, TypeOK, InRecv

LEMMA InDeliverStep ==
    ASSUME IInv, NEW s \in InIds, InDeliver(s)
    PROVE  IInv'
<1>1. inDial \in [InIds -> InStates] /\ sent \in [InIds -> 0..Chunks]
  BY Types DEF IInv, TypeOK
<1>2. sent[s] < Chunks /\ Chunks \in Nat
  BY ExecutorAssumption DEF IInv, InDeliver
<1>3. \A d \in InIds : /\ inDial'[d] = IF d = s THEN "net" ELSE inDial[d]
                       /\ sent'[d] = IF d = s THEN sent[s] + 1 ELSE sent[d]
  BY <1>1 DEF InDeliver
<1>4. sent' \in [InIds -> 0..Chunks] /\ inDial' \in [InIds -> InStates]
  BY <1>1, <1>2 DEF InDeliver, InStates
<1>5. 1 \in Stages /\ got' \in [Stages -> Nat]
  BY ExecutorAssumption DEF IInv, TypeOK, InDeliver, Stages
<1>. QED
  BY <1>3, <1>4, <1>5, DataStep DEF IInv, TypeOK, InDeliver

LEMMA ForwardStep ==
    ASSUME IInv, NEW i \in 1..(N - 1), Forward(i)
    PROVE  IInv'
<1>1. i \in Stages /\ i + 1 \in Stages
  BY ExecutorAssumption DEF Stages
<1>2. got' \in [Stages -> Nat] /\ put' \in [Stages -> Nat]
  BY <1>1 DEF IInv, TypeOK, Forward
<1>. QED
  BY <1>2, DataStep DEF IInv, TypeOK, Forward, InStates

LEMMA OutDeliverStep ==
    ASSUME IInv, NEW s \in OutIds, OutDeliver(s)
    PROVE  IInv'
<1>1. N \in Stages /\ put' \in [Stages -> Nat]
  BY ExecutorAssumption DEF IInv, TypeOK, OutDeliver, Stages
<1>. QED
  BY <1>1, DataStep DEF IInv, TypeOK, OutDeliver, InStates

LEMMA InCloseStep ==
    ASSUME IInv, NEW s \in InIds, InClose(s)
    PROVE  IInv'
BY InDialReturns DEF IInv, TypeOK, InClose

LEMMA InFailStep ==
    ASSUME IInv, NEW s \in InIds, InFail(s)
    PROVE  IInv'
<1>1. PICK st \in {"done", "stuck"} : IoReport(st) /\ inDial' = [inDial EXCEPT ![s] = st]
  BY DEF InFail
<1>2. ioErr' \in 0..IoErrCap /\ errs' \in Nat
  BY <1>1, ExecutorAssumption DEF IInv, TypeOK, IoReport, IoErrCap
<1>. QED
  BY <1>1, <1>2, InDialReturns DEF InFail, IoReport

LEMMA OutCloseStep ==
    ASSUME IInv, NEW s \in OutIds, OutClose(s)
    PROVE  IInv'
BY OutDialReturns DEF IInv, TypeOK, OutClose

LEMMA OutFailStep ==
    ASSUME IInv, NEW s \in OutIds, OutFail(s)
    PROVE  IInv'
<1>1. PICK st \in {"done", "stuck"} : IoReport(st) /\ outDial' = [outDial EXCEPT ![s] = st]
  BY DEF OutFail
<1>2. ioErr' \in 0..IoErrCap /\ errs' \in Nat
  BY <1>1, ExecutorAssumption DEF IInv, TypeOK, IoReport, IoErrCap
<1>. QED
  BY <1>1, <1>2, OutDialReturns DEF OutFail, IoReport


LEMMA FinishStep ==
    ASSUME IInv, NEW i \in Stages, Finish(i)
    PROVE  IInv'
BY StageReturns DEF IInv, TypeOK, Finish

(* A running stage that reports an error finds room in exeErrChan, sends  *)
(* it and returns.                                                        *)
LEMMA ReportStep ==
    ASSUME IInv, NEW i \in Stages, pc[i] = "run", ReportExeErr(i),
           UNCHANGED <<mpc, result, attempt, got, put, inDial, sent, outDial, ioErr,
                       cancelled, finished, interrupted>>
    PROVE  IInv'
<1>1. exeErr < ExeErrCap /\ errs \in Nat
  BY ExeErrRoom DEF IInv, TypeOK
<1>2. ~(exeErr >= ExeErrCap)
  BY <1>1, ExecutorAssumption DEF IInv, TypeOK, ExeErrCap
<1>3. /\ exeErr' = exeErr + 1 /\ pc' = [pc EXCEPT ![i] = "done"] /\ wg' = wg - 1
      /\ errs' = errs + 1
  BY <1>2, Zenon DEF ReportExeErr
<1>4. errs' \in Nat
  BY <1>1, <1>3
<1>. QED
  BY <1>3, <1>4, StageReturns DEF IInv, TypeOK

LEMMA FuncFailStep ==
    ASSUME IInv, NEW i \in Stages, FuncFail(i)
    PROVE  IInv'
BY ReportStep DEF FuncFail

LEMMA NoScriptStep ==
    ASSUME IInv, NEW i \in Stages, NoScript(i)
    PROVE  IInv'
BY ReportStep DEF NoScript

LEMMA ScriptFailStep ==
    ASSUME IInv, NEW i \in Stages, ScriptFail(i)
    PROVE  IInv'
<1>1. CASE got[i] = 0 /\ attempt[i] < MaxAttempts
           /\ attempt' = [attempt EXCEPT ![i] = @ + 1]
           /\ UNCHANGED <<pc, wg, exeErr, errs>>
  <2>1. attempt' \in [Stages -> 0..MaxAttempts]
    BY <1>1 DEF IInv, TypeOK, MaxAttempts
  <2>. QED
    BY <1>1, <2>1, DataStep DEF IInv, TypeOK, ScriptFail, InStates
<1>2. CASE (got[i] # 0 \/ attempt[i] = MaxAttempts) /\ ReportExeErr(i)
           /\ UNCHANGED attempt
  BY <1>2, ReportStep DEF ScriptFail
<1>. QED
  BY <1>1, <1>2 DEF ScriptFail

(* The steps of the main goroutine, the finishedChan waiter and the       *)
(* interrupt handler start or stop no counted goroutine.                  *)
LEMMA CloseFinishedStep ==
    ASSUME IInv, CloseFinished
    PROVE  IInv'
<1>1. LiveStages' = LiveStages /\ LiveIn' = LiveIn /\ LiveOut' = LiveOut
      /\ DoneStages' = DoneStages
  BY DEF CloseFinished, LiveStages, LiveIn, LiveOut, DoneStages
<1>. QED
  BY <1>1, Zenon DEF IInv, TypeOK, CloseFinished, ExeErrNeverBlocks

LEMMA SelectStep ==
    ASSUME IInv, SelectFinished \/ SelectIoErr \/ SelectExeErr \/ Exit \/ OnInterrupt
    PROVE  IInv'
<1>1. LiveStages' = LiveStages /\ LiveIn' = LiveIn /\ LiveOut' = LiveOut
      /\ DoneStages' = DoneStages
  BY DEF SelectFinished, SelectIoErr, SelectExeErr, Exit, OnInterrupt,
         LiveStages, LiveIn, LiveOut, DoneStages
<1>2. mpc # "init" /\ mpc' # "init"
  BY DEF SelectFinished, SelectIoErr, SelectExeErr, Exit, OnInterrupt
<1>3. /\ exeErr' \in 0..ExeErrCap /\ exeErr' <= exeErr
      /\ ioErr' \in 0..IoErrCap
  <2>1. exeErr \in 0..ExeErrCap /\ ioErr \in 0..IoErrCap
    BY DEF IInv, TypeOK
  <2>2. CASE SelectIoErr
    BY <2>1, <2>2, ExecutorAssumption DEF SelectIoErr, ExeErrCap, IoErrCap
  <2>3. CASE SelectExeErr
    BY <2>1, <2>3, ExecutorAssumption DEF SelectExeErr, ExeErrCap, IoErrCap
  <2>4. CASE SelectFinished \/ Exit \/ OnInterrupt
    BY <2>1, <2>4 DEF SelectFinished, Exit, OnInterrupt
  <2>. QED
    BY <2>2, <2>3, <2>4
<1>4. /\ exeErr \in Nat /\ Cardinality(DoneStages) \in Nat
      /\ exeErr <= Cardinality(DoneStages)
  BY Types DEF IInv, TypeOK
<1>5. exeErr' <= Cardinality(DoneStages')
  BY <1>1, <1>3, <1>4
<1>6. UNCHANGED <<pc, attempt, got, put, inDial, sent, outDial, wg, errs, finished>>
      /\ mpc' \in {"init", "select", "returned", "exited"}
      /\ result' \in {"none", "ok", "err"}
      /\ cancelled' \in BOOLEAN /\ interrupted' \in BOOLEAN
  BY DEF IInv, TypeOK, SelectFinished, SelectIoErr, SelectExeErr, Exit, OnInterrupt
<1>7. TypeOK'
  BY <1>3, <1>6, Zenon DEF IInv, TypeOK
<1>. QED
  BY <1>1, <1>2, <1>5, <1>6, <1>7 DEF IInv, ExeErrNeverBlocks

LEMMA StutterStep ==
    ASSUME IInv, UNCHANGED vars
    PROVE  IInv'
<1>1. LiveStages' = LiveStages /\ LiveIn' = LiveIn /\ LiveOut' = LiveOut
      /\ DoneStages' = DoneStages
  BY DEF vars, LiveStages, LiveIn, LiveOut, DoneStages
<1>. QED
  BY <1>1 DEF vars, IInv, TypeOK, ExeErrNeverBlocks


-----------------------------------------------------------------------------
(* Every step of the executor preserves the inductive invariant. *)
LEMMA NextIInv == IInv /\ [Next]_vars => IInv'
<1> SUFFICES ASSUME IInv, [Next]_vars PROVE IInv'
  OBVIOUS
<1>1. CASE Launch
  BY <1>1, LaunchStep
<1>2. CASE CloseFinished
  BY <1>2, CloseFinishedStep
<1>3. CASE SelectFinished \/ SelectIoErr \/ SelectExeErr \/ Exit \/ OnInterrupt
  BY <1>3, SelectStep
<1>4. CASE Terminated \/ UNCHANGED vars
  BY <1>4, StutterStep DEF Terminated
<1>5. ASSUME NEW i \in Stages,
             Setup(i) \/ Finish(i) \/ FuncFail(i) \/ NoScript(i) \/ ScriptFail(i)
      PROVE  IInv'
  BY <1>5, SetupStep, FinishStep, FuncFailStep, NoScriptStep, ScriptFailStep
<1>6. ASSUME NEW i \in 1..(N - 1), Forward(i) PROVE IInv'
  BY <1>6, ForwardStep
<1>7. ASSUME NEW s \in InIds, InRecv(s) \/ InDeliver(s) \/ InClose(s) \/ InFail(s)
      PROVE  IInv'
  BY <1>7, InRecvStep, InDeliverStep, InCloseStep, InFailStep
<1>8. ASSUME NEW s \in OutIds, OutDeliver(s) \/ OutClose(s) \/ OutFail(s)
      PROVE  IInv'
  BY <1>8, OutDeliverStep, OutCloseStep, OutFailStep
<1>. QED
  BY <1>1, <1>2, <1>3, <1>4, <1>5, <1>6, <1>7, <1>8 DEF Next

(* The executor's inductive invariant holds in every reachable state, for *)
(* every number of instructions, shards and chunks.                       *)
THEOREM IInvInvariant == Spec => []IInv
BY InitIInv, NextIInv, PTL DEF Spec

(* ExecuteInstructionSet and its goroutines keep every variable in its    *)
(* type: in particular exeErrChan and ioErrChan never hold more than their *)
(* capacity.                                                              *)
THEOREM TypeCorrect == Spec => []TypeOK
<1>1. IInv => TypeOK
  BY DEF IInv
<1>. QED
  BY <1>1, IInvInvariant, PTL

(* No executeInstruction goroutine ever blocks on its send to exeErrChan, *)
(* whatever the number of instructions: at most one send per stage.       *)
THEOREM ExeErrChanSuffices == Spec => []ExeErrNeverBlocks
<1>1. IInv => ExeErrNeverBlocks
  BY DEF IInv
<1>. QED
  BY <1>1, IInvInvariant, PTL

(* finishedChan is closed only when wg.Wait has returned because every     *)
(* stage goroutine and every dial goroutine of setupReaders/setupWriters   *)
(* has returned: no goroutine of the task outlives a nil result.          *)
LEMMA QuiescentFromIInv == IInv => FinishedMeansQuiescent
<1> SUFFICES ASSUME IInv, finished
             PROVE  /\ \A i \in Stages : pc[i] = "done"
                    /\ \A s \in InIds : inDial[s] \in {"done", "stuck"}
                    /\ \A s \in OutIds : outDial[s] \in {"done", "stuck"}
  BY DEF FinishedMeansQuiescent
<1>1. Cardinality(LiveStages) = 0 /\ Cardinality(LiveIn) = 0 /\ Cardinality(LiveOut) = 0
  BY Types DEF IInv
<1>2. LiveStages = {} /\ LiveIn = {} /\ LiveOut = {}
  BY <1>1, DomainsFinite, InStateFinite, FS_EmptySet DEF LiveStages, LiveIn, LiveOut
<1>3. mpc # "init"
  BY DEF IInv
<1>4. pc \in [Stages -> PcStates] /\ inDial \in [InIds -> InStates]
      /\ outDial \in [OutIds -> OutStates]
  BY Types
<1>5. \A i \in Stages : pc[i] = "done"
  BY <1>2, <1>3, <1>4 DEF IInv, LiveStages, InState, PcStates
<1>6. 1 \in Stages /\ N \in Stages
  BY ExecutorAssumption DEF Stages
<1>. QED
  BY <1>2, <1>4, <1>5, <1>6 DEF IInv, LiveIn, LiveOut, InState, InStates, OutStates

THEOREM FinishedQuiescent == Spec => []FinishedMeansQuiescent
BY QuiescentFromIInv, IInvInvariant, PTL

=============================================================================
