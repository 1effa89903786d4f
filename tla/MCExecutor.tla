----------------------------- MODULE MCExecutor -----------------------------
(* Instances of the executor for TLC: the stage kinds of each run. *)
EXTENDS Executor

(* A script stage fed by a shard, a built-in function, and an instruction *)
(* with neither.                                                          *)
MCKindMixed == <<"script", "func", "none">>

(* A built-in stage followed by a script stage writing the output shard. *)
MCKindFuncScript == <<"func", "script">>

MCKindFunc1 == <<"func">>
MCKindFunc2 == <<"func", "func">>
MCKindScript1 == <<"script">>
=============================================================================
