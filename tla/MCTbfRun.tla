------------------------------ MODULE MCTbfRun ------------------------------
(* Constants of TbfRun for TLC. *)
EXTENDS TbfRun

CONSTANTS t1, t2

MCTests == {t1, t2}

\* t1 reaches the error method, t2 does not.
MCReaching == [v \in {"replay", "execution"} |-> {t1}]

\* An execution of t2 may raise.
MCUndecodable == [v \in {"replay", "execution"} |-> IF v = "execution" THEN {t2} ELSE {}]

Config(replay, execution, naive) ==
    [use_klee_replay |-> replay, use_execution |-> execution, write_xml |-> FALSE,
     naive_verification |-> naive, stop_after_success |-> TRUE, measure_coverage |-> FALSE]

NaiveExecution == {Config(FALSE, TRUE, TRUE)}
AnyValidation  == {Config(FALSE, TRUE, TRUE), Config(TRUE, TRUE, FALSE),
                   Config(FALSE, FALSE, TRUE)}

AllArgs == [run_parallel : BOOLEAN, existing_tests_dir : BOOLEAN, timelimit : BOOLEAN,
            ig_timelimit : BOOLEAN, use_error_method : {TRUE}]
           \cup {[run_parallel |-> TRUE, existing_tests_dir |-> TRUE, timelimit |-> FALSE,
                  ig_timelimit |-> FALSE, use_error_method |-> FALSE]}
=============================================================================
