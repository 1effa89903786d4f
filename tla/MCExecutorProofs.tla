-------------------------- MODULE MCExecutorProofs --------------------------
(* The executor with its proof definitions, for checking the inductive    *)
(* invariant on a small instance.                                         *)
EXTENDS ExecutorProofs

MCKindMixed == <<"script", "func", "none">>
=============================================================================
