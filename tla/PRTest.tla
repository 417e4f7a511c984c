------------------------------- MODULE PRTest -------------------------------
(***************************************************************************)
(* tbf/tools/random/random_tester.c, the random tester: it runs the        *)
(* program under test over and over with random inputs and writes the      *)
(* inputs of a run to vector<n>.test if the run covered something new, or  *)
(* if it reached the error method, which ends the tester.                  *)
(*                                                                         *)
(* TBF reads the directory while the tester runs, and kills the tester at  *)
(* any moment.  A run of the program under test is a nondeterministic      *)
(* sequence of covered guards and inputs (external code), that ends by     *)
(* return, exit, abort or an input too many.  A line of a test file is an  *)
(* input value; its text is left out.                                      *)
(***************************************************************************)
EXTENDS Naturals, Sequences

CONSTANTS
    Guards,           \* the coverage guards of the instrumented program
    Values,           \* the random input values
    Empty,            \* an empty row of test_vector
    MAX_TEST_SIZE,
    MAX_TEST_NUMBER

ASSUME LimitsAssumption ==
    /\ Empty \notin Values
    /\ MAX_TEST_SIZE \in Nat \ {0}
    /\ MAX_TEST_NUMBER \in Nat \ {0}

VARIABLES
    pc,           \* where main(), a handler or write_test() is
    test_vector,  \* the rows for the inputs of a run, and one row more
    test_size,
    test_is_new,
    test_runs,
    covered,      \* the guards that were set to 0
    success,      \* the run called exit(SUCCESS_STATUS): the handler writes its test
    tmp_vector,   \* the rows in the file tmp_vector
    files,        \* the files vector<n>.test, by n
    received,     \* history: the inputs the program got in this run
    newly         \* history: the guards this run was the first to cover

vars == <<pc, test_vector, test_size, test_is_new, test_runs, covered, success, tmp_vector,
          files, received, newly>>

Rows == 0..MAX_TEST_SIZE

TestFiles == [rows : Seq(Values), received : Seq(Values), newly : SUBSET Guards]

\* Every variable stays in its domain; the last row of test_vector is never written,
\* so that the loops over its rows find their end.
TypeOK ==
    /\ pc \in {"loop", "run", "after", "write", "writing", "over", "killed"}
    /\ test_vector \in [Rows -> Values \cup {Empty}]
    /\ test_vector[MAX_TEST_SIZE] = Empty
    /\ test_size \in Rows
    /\ test_is_new \in BOOLEAN
    /\ test_runs \in 0..MAX_TEST_NUMBER
    /\ covered \in SUBSET Guards
    /\ success \in BOOLEAN
    /\ tmp_vector \in Seq(Values)
    /\ \A n \in DOMAIN files : n \in Nat /\ files[n] \in TestFiles
    /\ received \in Seq(Values)
    /\ newly \in SUBSET Guards

Init ==
    /\ pc = "loop"
    /\ test_vector = [i \in Rows |-> Empty]
    /\ test_size = 0
    /\ test_is_new = FALSE
    /\ test_runs = 0
    /\ covered = {}
    /\ success = FALSE
    /\ tmp_vector = <<>>
    /\ files = <<>>
    /\ received = <<>>
    /\ newly = {}

-----------------------------------------------------------------------------
(* main() *)

\* Mutant of ResetRows: only test_size is reset.
KeepRows == test_vector

\* Empties the rows up to the first empty one.
ResetRows ==
    [i \in Rows |-> IF i < MAX_TEST_SIZE /\ \A j \in 0..i : test_vector[j] # Empty
                    THEN Empty ELSE test_vector[i]]

StartRun ==
    /\ pc = "loop"
    /\ test_runs < MAX_TEST_NUMBER
    /\ pc' = "run"
    /\ test_vector' = ResetRows
    /\ test_size' = 0
    /\ test_is_new' = FALSE
    /\ received' = <<>>
    /\ newly' = {}
    /\ UNCHANGED <<test_runs, covered, success, tmp_vector, files>>

LoopEnds ==
    /\ pc = "loop"
    /\ test_runs >= MAX_TEST_NUMBER
    /\ pc' = "over"
    /\ UNCHANGED <<test_vector, test_size, test_is_new, test_runs, covered, success, tmp_vector,
                   files, received, newly>>

\* __sanitizer_cov_trace_pc_guard, the first time the guard is passed.
Cover(g) ==
    /\ pc = "run"
    /\ g \notin covered
    /\ covered' = covered \cup {g}
    /\ test_is_new' = TRUE
    /\ newly' = newly \cup {g}
    /\ UNCHANGED <<pc, test_vector, test_size, test_runs, success, tmp_vector, files, received>>

\* Mutant of IsTooLong: the last row, too, is written.
IsTooLongOffByOne == test_size + 1 > MAX_TEST_SIZE

IsTooLong == test_size + 1 >= MAX_TEST_SIZE

\* An input too many aborts, which abort_handler turns into the end of the run.
input(v) ==
    /\ pc = "run"
    /\ test_vector' = [test_vector EXCEPT ![test_size] = v]
    /\ test_size' = test_size + 1
    /\ received' = Append(received, v)
    /\ pc' = IF IsTooLong THEN "after" ELSE "run"
    /\ UNCHANGED <<test_is_new, test_runs, covered, success, tmp_vector, files, newly>>

\* The program returns, calls exit (exit_handler) or abort (abort_handler).
RunEnds ==
    /\ pc = "run"
    /\ pc' = "after"
    /\ UNCHANGED <<test_vector, test_size, test_is_new, test_runs, covered, success, tmp_vector,
                   files, received, newly>>

\* Mutant of ReachError: the handler ends the tester without writing the test.
ReachErrorAndExit ==
    /\ pc = "run"
    /\ success' = TRUE
    /\ pc' = "over"
    /\ UNCHANGED <<test_vector, test_size, test_is_new, test_runs, covered, tmp_vector, files,
                   received, newly>>

\* The error method calls exit(SUCCESS_STATUS): exit_handler calls write_test.
ReachError ==
    /\ pc = "run"
    /\ success' = TRUE
    /\ pc' = "write"
    /\ UNCHANGED <<test_vector, test_size, test_is_new, test_runs, covered, tmp_vector, files,
                   received, newly>>

\* Mutant of AfterRun: a run that was ended by longjmp is not looked at.
AfterRunSkipped ==
    /\ pc = "after"
    /\ pc' = "loop"
    /\ UNCHANGED <<test_vector, test_size, test_is_new, test_runs, covered, success, tmp_vector,
                   files, received, newly>>

\* Mutant of AfterRun: every run is written.
AfterRunWritten ==
    /\ pc = "after"
    /\ pc' = "write"
    /\ UNCHANGED <<test_vector, test_size, test_is_new, test_runs, covered, success, tmp_vector,
                   files, received, newly>>

AfterRun ==
    /\ pc = "after"
    /\ pc' = IF test_is_new THEN "write" ELSE "loop"
    /\ UNCHANGED <<test_vector, test_size, test_is_new, test_runs, covered, success, tmp_vector,
                   files, received, newly>>

-----------------------------------------------------------------------------
(* write_test() *)

OpenTmp ==
    /\ pc = "write"
    /\ tmp_vector' = <<>>
    /\ pc' = "writing"
    /\ UNCHANGED <<test_vector, test_size, test_is_new, test_runs, covered, success, files,
                   received, newly>>

WriteRow ==
    /\ pc = "writing"
    /\ test_vector[Len(tmp_vector)] # Empty
    /\ tmp_vector' = Append(tmp_vector, test_vector[Len(tmp_vector)])
    /\ UNCHANGED <<pc, test_vector, test_size, test_is_new, test_runs, covered, success, files,
                   received, newly>>

\* Mutant of NextTestNumber: test_runs is not increased.
SameTestNumber == test_runs

NextTestNumber == test_runs + 1

AfterWrite == IF success THEN "over" ELSE "loop"

Rename ==
    /\ pc = "writing"
    /\ test_vector[Len(tmp_vector)] = Empty
    /\ files' = [n \in DOMAIN files \cup {test_runs} |->
                    IF n = test_runs
                    THEN [rows |-> tmp_vector, received |-> received, newly |-> newly]
                    ELSE files[n]]
    /\ test_runs' = NextTestNumber
    /\ tmp_vector' = <<>>
    /\ pc' = AfterWrite
    /\ UNCHANGED <<test_vector, test_size, test_is_new, covered, success, received, newly>>

\* SIGKILL by TBF, or SIGINT or SIGTERM, whose handler exits at once.
Die ==
    /\ pc \notin {"over", "killed"}
    /\ pc' = "killed"
    /\ UNCHANGED <<test_vector, test_size, test_is_new, test_runs, covered, success, tmp_vector,
                   files, received, newly>>

TesterNext ==
    \/ StartRun \/ LoopEnds
    \/ (\E g \in Guards : Cover(g)) \/ (\E v \in Values : input(v)) \/ RunEnds \/ ReachError
    \/ AfterRun \/ OpenTmp \/ WriteRow \/ Rename

Next == TesterNext \/ Die

\* The tester runs until it is killed, and no run of the program lasts forever.
Spec == Init /\ [][Next]_vars /\ WF_vars(TesterNext)

-----------------------------------------------------------------------------
(* Properties *)

\* A test file, whenever TBF reads it and however the tester dies, holds the inputs of
\* its run, all of them and none of an earlier run (input, reset_test_vector, write_test).
FilesAreFaithful ==
    \A n \in DOMAIN files : files[n].rows = files[n].received

\* A test file never changes and never disappears: TBF remembers visited tests by name.
FilesAreFinal ==
    [][\A n \in DOMAIN files : n \in DOMAIN files' /\ files'[n] = files[n]]_vars

\* When a run is over, there is a test file for everything that was ever covered, also if
\* the run was ended by exit, abort or an input too many (main, exit_handler).
CoverageIsWritten ==
    pc = "loop" => covered = UNION {files[n].newly : n \in DOMAIN files}

\* The last file has the inputs of the last run.
ErrorIsLast ==
    /\ test_runs # 0
    /\ test_runs - 1 \in DOMAIN files
    /\ files[test_runs - 1].received = received

\* A reached error ends the tester, unless it is killed before, and then the test that
\* reached it is the last file: the exit handler writes it (main, exit_handler).
SuccessIsWritten ==
    success ~> \/ pc = "killed"
               \/ pc = "over" /\ ErrorIsLast

\* Each file but the one of the error is the first to cover something: there are no more
\* files than guards, and one.  With fewer guards than MAX_TEST_NUMBER the tester therefore
\* never ends by itself: the time limits of TBF have to end it.
FilesAreMeaningful ==
    \A n \in DOMAIN files :
        /\ files[n].newly = {} => success /\ n = test_runs - 1
        /\ \A m \in DOMAIN files : m # n => files[m].newly \cap files[n].newly = {}

-----------------------------------------------------------------------------
(* The inductive invariant *)

InRun == pc \in {"run", "after", "write", "writing"}

\* The rows are the inputs of the last run and nothing else, so that resetting the rows up
\* to the first empty one empties all of them.
RowsAreInputs ==
    /\ test_size = Len(received)
    /\ \A i \in Rows : test_vector[i] = IF i < test_size THEN received[i + 1] ELSE Empty
    /\ pc = "run" => test_size < MAX_TEST_SIZE

TmpIsPrefix ==
    pc = "writing" =>
        /\ Len(tmp_vector) <= test_size
        /\ \A i \in 1..Len(tmp_vector) : tmp_vector[i] = received[i]

\* The number of the next file is free.
FilesAreNumbered ==
    /\ DOMAIN files = 0..(test_runs - 1)
    /\ InRun => test_runs < MAX_TEST_NUMBER

Written == UNION {files[n].newly : n \in DOMAIN files}

NewIsUnwritten ==
    /\ InRun => covered = Written \cup newly /\ Written \cap newly = {}
    /\ test_is_new <=> newly # {}

\* A run is written for one of two reasons, and the error or the last number ends
\* the tester.
WritesAreJustified ==
    /\ success => pc \in {"write", "writing", "over", "killed"}
    /\ pc \in {"write", "writing"} => success \/ newly # {}
    /\ pc = "over" => success \/ test_runs = MAX_TEST_NUMBER
    /\ pc = "over" /\ success => ErrorIsLast
    /\ pc \notin {"over", "killed"} => \A n \in DOMAIN files : files[n].newly # {}

\* The conjunction that every step preserves (PRTestProofs).
TesterInv ==
    /\ TypeOK
    /\ RowsAreInputs /\ TmpIsPrefix
    /\ FilesAreNumbered /\ FilesAreFaithful
    /\ NewIsUnwritten /\ CoverageIsWritten
    /\ WritesAreJustified /\ FilesAreMeaningful
=============================================================================
