-------------------------- MODULE MCTestProcessing --------------------------
(* Constants of TestProcessing for TLC. *)
EXTENDS TestProcessing

CONSTANTS t1, t2, t3, t4

MCTests == {t1, t2, t3, t4}

\* The two validators disagree on t1: only the execution sees it reach the error.
\* t3 is negative for both.
MCReaching == [v \in Validators |-> IF v = "replay" THEN {t2} ELSE {t1, t2}]

\* t3 may write anything to stderr when it is executed.
MCUndecodable == [v \in Validators |-> IF v = "execution" THEN {t3} ELSE {}]

MCMalformed == {t4}

AllConfigs == [use_klee_replay : BOOLEAN, use_execution : BOOLEAN, write_xml : BOOLEAN,
               naive_verification : BOOLEAN, stop_after_success : BOOLEAN,
               measure_coverage : BOOLEAN]
=============================================================================
