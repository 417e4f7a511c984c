-------------------------- MODULE MCProcessExecution --------------------------
(* ProcessExecution for TLC: every constant has its value in the configuration. *)
EXTENDS ProcessExecution
=============================================================================
