----------------------------- MODULE MCSuiteFile -----------------------------
(* Constants of SuiteFile for TLC. *)
EXTENDS SuiteFile

\* FShell in both modes, and CPATiger as long as the file is complete before it is read.
StableModes == {<<"fshell", "parallel">>, <<"fshell", "sequential">>, <<"cpatiger", "sequential">>}

CpaTigerParallel == {<<"cpatiger", "parallel">>}
=============================================================================
