--------------------------- MODULE TestProcessing ---------------------------
(***************************************************************************)
(* tbf/testcase_processing.py: TestProcessor.process_inputs, the thread    *)
(* that looks at test cases while the input generator still creates them.  *)
(*                                                                         *)
(* process_inputs makes up to three passes over the test directory: one    *)
(* with KleeReplayRunner ("replay"), one with ExecutionRunner              *)
(* ("execution"), or one without a validator that only exports XML         *)
(* ("collect").  Each pass is one call of _perform_processing: a loop that *)
(* polls is_ready_func() and stop_event, scans the directory for tests it  *)
(* has not visited and runs the validator on each of them.                 *)
(*                                                                         *)
(* The environment of the thread is the input generator, which creates     *)
(* test cases until its result is ready, and stop_all_event.               *)
(*                                                                         *)
(* Abstractions.  A test case is a model value; its name identifies it     *)
(* (SuiteFile drops that assumption).  The results of _k are kept as the   *)
(* set "judged" of tests that were run and as "first", the first test in   *)
(* the list of verdicts that is positive: decide_final_verdict reads       *)
(* nothing else of that list.  The order of a batch is the order of glob,  *)
(* so any.  [UNKNOWN] and [ERROR] are the same to _decide_single_verdict.  *)
(***************************************************************************)

CONSTANTS
    Tests,      \* the test cases that can ever be in the test directory
    NoTest,     \* no test case
    Reaching,   \* Reaching[v]: the tests whose run by validator v calls the error method
    Undecodable,  \* Undecodable[v]: the tests whose run writes bytes to stderr that are no UTF-8
    Malformed,  \* the tests whose file the converter cannot read
    Configs     \* the values of ProcessingConfig that are considered

Validators == {"replay", "execution"}

ASSUME ConstantsAssumption ==
    /\ NoTest \notin Tests
    /\ Reaching \in [Validators -> SUBSET Tests]
    /\ Undecodable \in [Validators -> SUBSET Tests]
    /\ Malformed \subseteq Tests
    /\ Configs \subseteq [use_klee_replay : BOOLEAN, use_execution : BOOLEAN,
                          write_xml : BOOLEAN, naive_verification : BOOLEAN,
                          stop_after_success : BOOLEAN, measure_coverage : BOOLEAN]

VARIABLES
    cfg,      \* self.config, fixed when the TestProcessor is built
    created,  \* test cases in the test directory
    ready,    \* is_ready_func(): the result of the input generator is there
    stop,     \* stop_event: stop_all_event of run()
    pc,       \* where the thread is
    pass,     \* the current, or the latest, pass
    result,   \* local variable result of process_inputs
    last,     \* the batch is the one taken after the loop
    visited,  \* visited_tests
    batch,    \* new_test_vectors
    pending,  \* the part of batch that _k has not run yet
    first,    \* the first positive verdict in verdicts and next_verdict_list
    judged,   \* history: the tests the validator of this pass was run on
    hits,     \* history: the tests that some validator found to be positive
    xml,      \* tests with an XML file in the test suite
    harness,  \* the test whose reproducing harness was created
    verdict   \* the verdict that process_inputs returned

env  == <<created, ready, stop>>
proc == <<pc, pass, result, last, visited, batch, pending, first, judged, hits,
          xml, harness, verdict>>
vars == <<cfg, env, proc>>

PCs     == {"idle", "choose", "poll_ready", "poll_stop", "recheck", "scan", "judge",
            "decide", "done", "failed", "hung"}
Results == {"none", "FALSE", "TRUE", "UNKNOWN"}

\* Every variable stays in its domain.
TypeOK ==
    /\ cfg \in Configs
    /\ created \in SUBSET Tests
    /\ ready \in BOOLEAN
    /\ stop \in BOOLEAN
    /\ pc \in PCs
    /\ pass \in Validators \cup {"none", "collect"}
    /\ result \in Results
    /\ last \in BOOLEAN
    /\ visited \in SUBSET Tests
    /\ batch \in SUBSET Tests
    /\ pending \in SUBSET Tests
    /\ first \in Tests \cup {NoTest}
    /\ judged \in SUBSET Tests
    /\ hits \in SUBSET Tests
    /\ xml \in SUBSET Tests
    /\ harness \in Tests \cup {NoTest}
    /\ verdict \in Results

\* Tests exist before the call only in a directory given with --use-existing-test-dir,
\* and then nothing generates more of them.
EnvInit ==
    /\ created \in SUBSET Tests
    /\ ready \in BOOLEAN
    /\ ~ready => created = {}
    /\ stop = FALSE

ProcInit ==
    /\ pc = "idle"
    /\ pass = "none"
    /\ result = "none"
    /\ last = FALSE
    /\ visited = {}
    /\ batch = {}
    /\ pending = {}
    /\ first = NoTest
    /\ judged = {}
    /\ hits = {}
    /\ xml = {}
    /\ harness = NoTest
    /\ verdict = "none"

Init == cfg \in Configs /\ EnvInit /\ ProcInit

-----------------------------------------------------------------------------
(* The environment *)

CreateTest(t) ==
    /\ ~ready
    /\ t \notin created
    /\ created' = created \cup {t}
    /\ UNCHANGED <<ready, stop>>

GeneratorReturns ==
    /\ ~ready
    /\ ready' = TRUE
    /\ UNCHANGED <<created, stop>>

StopAll ==
    /\ ~stop
    /\ stop' = TRUE
    /\ UNCHANGED <<created, ready>>

EnvNext == (\E t \in Tests : CreateTest(t)) \/ GeneratorReturns \/ StopAll

-----------------------------------------------------------------------------
(* process_inputs: which pass comes next *)

Call ==
    /\ pc = "idle"
    /\ pc' = "choose"
    /\ UNCHANGED <<pass, result, last, visited, batch, pending, first, judged, hits,
                   xml, harness, verdict>>

\* A call of _perform_processing starts with empty visited_tests and verdicts.
BeginPass(p) ==
    /\ pass' = p
    /\ pc' = "poll_ready"
    /\ last' = FALSE
    /\ visited' = {}
    /\ batch' = {}
    /\ pending' = {}
    /\ first' = NoTest
    /\ judged' = {}
    /\ UNCHANGED <<result, hits, xml, harness, verdict>>

ReplayDue == pass = "none" /\ cfg.use_klee_replay

ExecutionDue == /\ ~ReplayDue
                /\ pass \in {"none", "replay"}
                /\ result # "FALSE"
                /\ cfg.use_execution

CollectDue == /\ ~ReplayDue
              /\ ~ExecutionDue
              /\ pass = "none"
              /\ result = "none"
              /\ cfg.write_xml

StartReplay     == pc = "choose" /\ ReplayDue    /\ BeginPass("replay")
StartExecution  == pc = "choose" /\ ExecutionDue /\ BeginPass("execution")
StartCollecting == pc = "choose" /\ CollectDue   /\ BeginPass("collect")

\* No pass is left.  Without any validator the verdict is unknown.  A positive
\* result gets a harness that reproduces its test.
Return ==
    /\ pc = "choose"
    /\ ~ReplayDue /\ ~ExecutionDue /\ ~CollectDue
    /\ pc' = "done"
    /\ verdict' = IF result = "none" THEN "UNKNOWN" ELSE result
    /\ harness' = IF result = "FALSE" THEN first ELSE harness
    /\ UNCHANGED <<pass, result, last, visited, batch, pending, first, judged, hits, xml>>

-----------------------------------------------------------------------------
(* _perform_processing and _k *)

\* Mutant of PollReady: the loop waits for the stop event only.
PollReadyIgnored ==
    /\ pc = "poll_ready"
    /\ pc' = "poll_stop"
    /\ UNCHANGED <<pass, result, last, visited, batch, pending, first, judged, hits,
                   xml, harness, verdict>>

\* The left operand of the loop condition.
PollReady ==
    /\ pc = "poll_ready"
    /\ pc' = IF ready THEN "recheck" ELSE "poll_stop"
    /\ UNCHANGED <<pass, result, last, visited, batch, pending, first, judged, hits,
                   xml, harness, verdict>>

\* Its right operand.
PollStop ==
    /\ pc = "poll_stop"
    /\ pc' = IF stop THEN "recheck" ELSE "scan"
    /\ UNCHANGED <<pass, result, last, visited, batch, pending, first, judged, hits,
                   xml, harness, verdict>>

\* Mutant of Recheck: the tests created since the last scan of the loop are dropped.
RecheckWithoutScan ==
    /\ pc = "recheck"
    /\ pc' = "decide"
    /\ last' = ~stop
    /\ UNCHANGED <<pass, result, visited, batch, pending, first, judged, hits,
                   xml, harness, verdict>>

\* After the loop: one more scan, unless told to stop.
Recheck ==
    /\ pc = "recheck"
    /\ pc' = IF stop THEN "decide" ELSE "scan"
    /\ last' = ~stop
    /\ UNCHANGED <<pass, result, visited, batch, pending, first, judged, hits,
                   xml, harness, verdict>>

\* Mutant of NewTests: the converter does not exclude visited tests.
AllTests == created

\* get_test_vectors(tests_directory, visited_tests)
NewTests == created \ visited

\* The tests in the directory that were not visited are the next batch, each of them
\* exported by XmlWritingTestConverter if there is one.
Scan ==
    /\ pc = "scan"
    /\ NewTests \cap Malformed = {}
    /\ pc' = "judge"
    /\ batch' = NewTests
    /\ pending' = IF pass \in Validators THEN batch' ELSE {}
    /\ xml' = IF cfg.write_xml THEN xml \cup batch' ELSE xml
    /\ UNCHANGED <<pass, result, last, visited, first, judged, hits, harness, verdict>>

\* get_test_vector of one of them fails an assertion or an index, which nothing catches.
\* The whole scan is lost, before any of it is exported by get_test_vectors.
ScanRaises ==
    /\ pc = "scan"
    /\ NewTests \cap Malformed # {}
    /\ pc' = "failed"
    /\ UNCHANGED <<pass, result, last, visited, batch, pending, first, judged, hits,
                   xml, harness, verdict>>

\* Mutant of Judge: the verdict list holds a FALSE for every run that fails, e.g. times out.
JudgeFailureAsFalse(t) ==
    /\ pc = "judge"
    /\ t \in pending
    /\ pending' = pending \ {t}
    /\ judged' = judged \cup {t}
    /\ \/ t \in Reaching[pass] /\ hits' = hits \cup {t}
       \/ UNCHANGED hits
    /\ first' = IF first = NoTest THEN t ELSE first
    /\ UNCHANGED <<pc, pass, result, last, visited, batch, xml, harness, verdict>>

\* One iteration of _k.  A run on a test that reaches the error method may still be
\* negative: the time limit of a test execution is 5 s.
Judge(t) ==
    /\ pc = "judge"
    /\ t \in pending
    /\ pending' = pending \ {t}
    /\ judged' = judged \cup {t}
    /\ \/ /\ t \in Reaching[pass]
          /\ hits' = hits \cup {t}
          /\ first' = IF first = NoTest THEN t ELSE first
       \/ UNCHANGED <<hits, first>>
    /\ UNCHANGED <<pc, pass, result, last, visited, batch, xml, harness, verdict>>

\* found_err decodes the bytes that execute could not decode: UnicodeDecodeError.
RunRaises ==
    /\ pc = "judge"
    /\ pass \in Validators
    /\ pending \cap Undecodable[pass] # {}
    /\ pc' = "failed"
    /\ UNCHANGED <<pass, result, last, visited, batch, pending, first, judged, hits,
                   xml, harness, verdict>>

\* Mutant of FailToCompile: a run after the first one compiles again.
FailToCompileAgain ==
    /\ pc = "judge"
    /\ pending # {}
    /\ pc' = "failed"
    /\ UNCHANGED <<pass, result, last, visited, batch, pending, first, judged, hits,
                   xml, harness, verdict>>

\* The first run of a pass compiles: CompileError (ExecutionRunner only), or
\* FileNotFoundError if there is no gcc, leaves process_inputs.  The executable is kept,
\* so no later run of the pass fails so.
FailToCompile ==
    /\ pc = "judge"
    /\ pending # {}
    /\ judged = {}
    /\ pc' = "failed"
    /\ UNCHANGED <<pass, result, last, visited, batch, pending, first, judged, hits,
                   xml, harness, verdict>>

\* KleeReplayRunner executes the program without a time limit; ExecutionRunner kills it
\* after 5 s, but waits for processes that it left behind (ProcessExecution).
HangInRun ==
    /\ pc = "judge"
    /\ pending # {}
    /\ pc' = "hung"
    /\ UNCHANGED <<pass, result, last, visited, batch, pending, first, judged, hits,
                   xml, harness, verdict>>

\* With stop_after_success, an earlier batch with a positive verdict has ended the
\* pass already: that the batch has one is first # NoTest.
EndBatch ==
    /\ pc = "judge"
    /\ pending = {}
    /\ IF last \/ (cfg.stop_after_success /\ first # NoTest)
       THEN pc' = "decide" /\ UNCHANGED visited
       ELSE pc' = "poll_ready" /\ visited' = visited \cup batch
    /\ UNCHANGED <<pass, result, last, batch, pending, first, judged, hits,
                   xml, harness, verdict>>

\* Mutant of decide_final_verdict: naive verification comes before the positive verdict.
decide_naively ==
    CASE cfg.naive_verification -> "TRUE"
      [] ~cfg.naive_verification /\ first # NoTest -> "FALSE"
      [] OTHER -> "UNKNOWN"

decide_final_verdict ==
    CASE first # NoTest -> "FALSE"
      [] first = NoTest /\ cfg.naive_verification -> "TRUE"
      [] OTHER -> "UNKNOWN"

\* get_testvectors_continuously returns nothing, the other two passes their verdict.
Decide ==
    /\ pc = "decide"
    /\ pc' = "choose"
    /\ result' = IF pass \in Validators THEN decide_final_verdict ELSE result
    /\ UNCHANGED <<pass, last, visited, batch, pending, first, judged, hits,
                   xml, harness, verdict>>

\* The finally clause of perform_execution_validation calls gcov.  If there is none, its
\* FileNotFoundError takes the place of the verdict.
CoverageRaises ==
    /\ pc = "decide"
    /\ pass = "execution"
    /\ cfg.measure_coverage
    /\ pc' = "failed"
    /\ UNCHANGED <<pass, result, last, visited, batch, pending, first, judged, hits,
                   xml, harness, verdict>>

ProcNext ==
    \/ Call
    \/ StartReplay \/ StartExecution \/ StartCollecting \/ Return
    \/ PollReady \/ PollStop \/ Recheck
    \/ Scan \/ ScanRaises
    \/ (\E t \in Tests : Judge(t)) \/ RunRaises \/ FailToCompile \/ HangInRun \/ EndBatch
    \/ Decide \/ CoverageRaises

Next == /\ UNCHANGED cfg
        /\ \/ ProcNext /\ UNCHANGED env
           \/ EnvNext /\ UNCHANGED proc

Spec == Init /\ [][Next]_vars

\* The thread is scheduled as long as it can take a step.  Nothing is assumed of the
\* generator or of who sets the stop event.
FairSpec == Spec /\ WF_vars(ProcNext /\ UNCHANGED <<cfg, env>>)

-----------------------------------------------------------------------------
(* Properties *)

\* The passes of the two validators implement VerdictService: a run without any
\* validator announces nothing.
Service == INSTANCE VerdictService WITH
    published <- created,
    closed    <- ready,
    cancelled <- stop,
    examined  <- judged,
    positive  <- hits,
    verdict   <- IF pass \in Validators THEN verdict ELSE "none"

\* Every behaviour of the thread and its environment is one of the abstract service:
\* in particular the verdict never changes once announced, a round is only repeated
\* without a positive test, and TRUE or UNKNOWN is only said of a complete round or
\* after a stop request (process_inputs, _perform_processing).
ImplementsService == Service!Spec

Ended == pc \in {"done", "failed", "hung"}

\* A FALSE verdict names a test that a validator saw calling the error method in the
\* pass that ended, and the reproducing harness is that test's (process_inputs,
\* decide_final_verdict).
FalseIsWitnessed ==
    verdict = "FALSE" => /\ pass \in Validators
                         /\ harness \in judged \cap hits \cap Reaching[pass]

\* What may raise after a positive run: a test that the converter cannot read, output
\* that cannot be decoded, or gcov.
FailureIsExcused ==
    \/ NewTests \cap Malformed # {}
    \/ pass \in Validators /\ pending \cap Undecodable[pass] # {}
    \/ pass = "execution" /\ cfg.measure_coverage

\* A positive test run is never forgotten: not between batches, not between the passes,
\* and not by a CompileError of the second pass (verdicts, result, process_inputs).  The
\* three exceptions of FailureIsExcused do lose it.
NoPositiveLost ==
    hits # {} => /\ pc = "done" => verdict = "FALSE"
                 /\ pc = "failed" => FailureIsExcused

\* A pass that was not told to stop has looked at every test case there is, whichever
\* way the tests were created between two scans, the readiness poll and the last scan;
\* with --write-xml each of them has an XML file.  The only excuse is a success that
\* ends the pass (_perform_processing).
NoTestMissed ==
    (pc = "done" /\ ~stop /\ (verdict = "FALSE" => ~cfg.stop_after_success)) =>
        /\ pass \in Validators => created \subseteq judged
        /\ pass # "none" /\ cfg.write_xml => created \subseteq xml

\* A validator runs on a test of the directory at most once in a pass (visited_tests).
JudgedAtMostOnce ==
    [][\A t \in Tests : (t \in pending /\ t \notin pending') => t \notin judged]_vars

\* When the generator has returned or a stop was requested, processing comes to an end:
\* each is enough on its own.
\* A run that hangs counts as an end here: see HangInRun and TbfRun.
ProcessingEnds == ((ready \/ stop) /\ pc # "idle") ~> Ended

-----------------------------------------------------------------------------
(* The inductive invariant behind the safety properties; TestProcessingProofs *)
(* proves them from it.                                                        *)

Polling == {"poll_ready", "poll_stop", "recheck"}

\* The first positive verdict is that of a test the current validator ran, and it is
\* there as soon as any run was positive.
FirstIsAHit ==
    /\ first # NoTest => first \in judged \cap hits
    /\ hits # {} => first # NoTest
    /\ first # NoTest /\ pass \in Validators => first \in Reaching[pass]

\* The validators run in their passes only, and between two batches nothing is pending.
PassesAreSeparate ==
    /\ pass \notin Validators => pending = {} /\ judged = {}
    /\ pc \notin {"judge", "failed", "hung"} => pending = {}
    /\ pass = "none" => pc \in {"idle", "choose", "done"}
    /\ pc = "idle" => pass = "none"
    /\ pc = "failed" /\ hits # {} => FailureIsExcused

\* visited_tests are the tests that were run, apart from the batch in progress.
VisitedIsJudged ==
    /\ pass \in Validators =>
        /\ pc \in Polling \cup {"scan"} => judged = visited
        /\ pc = "judge" => judged = visited \cup (batch \ pending)
    /\ visited \cap pending = {}
    /\ judged \cap pending = {}
    /\ pending \subseteq batch
    /\ judged \subseteq created
    /\ batch \subseteq created

\* The XML files keep up with the scans.
ScannedIsExported ==
    cfg.write_xml => /\ visited \subseteq xml
                     /\ pc = "judge" => batch \subseteq xml

\* The last scan happens when the generator has returned, unless there was a stop.
LastScanIsComplete ==
    /\ pc \in {"poll_ready", "poll_stop", "recheck"} => ~last
    /\ pc = "recheck" /\ ~stop => ready
    /\ pc \in {"scan", "judge"} /\ last /\ ~stop => ready
    /\ pc = "judge" /\ last /\ ~stop => created \subseteq visited \cup batch

\* What NoTestMissed says of the end holds from the end of each pass on.
PassIsComplete ==
    (/\ pc \in {"decide", "choose", "done"}
     /\ pass # "none"
     /\ ~stop
     /\ first # NoTest => ~cfg.stop_after_success) =>
        /\ ready
        /\ pass \in Validators => created \subseteq judged
        /\ cfg.write_xml => created \subseteq xml

\* The result of a finished pass, and the verdict, say FALSE iff there is a first hit.
ResultFollowsFirst ==
    /\ pass \in {"none", "collect"} => result = "none"
    /\ pass = "replay" /\ pc \notin {"choose", "done"} => result = "none"
    /\ pass = "execution" /\ pc \notin {"choose", "done"} => result # "FALSE"
    /\ pass \in Validators /\ pc \in {"choose", "done"} =>
           /\ result # "none"
           /\ result = "FALSE" <=> first # NoTest
    /\ pc # "done" => verdict = "none"
    /\ pc = "done" => verdict = (IF result = "none" THEN "UNKNOWN" ELSE result)
    /\ pc = "done" /\ result = "FALSE" => harness = first

\* All of it: what every action of the thread and of its environment preserves.
ProcessingInv ==
    /\ TypeOK
    /\ FirstIsAHit
    /\ PassesAreSeparate
    /\ VisitedIsJudged
    /\ ScannedIsExported
    /\ LastScanIsComplete
    /\ PassIsComplete
    /\ ResultFollowsFirst
=============================================================================
