-------------------------- MODULE MCAttemptRuntime --------------------------
(* Model-checking instances of AttemptRuntime. *)
EXTENDS AttemptRuntime
=============================================================================
