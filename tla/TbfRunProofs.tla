---------------------------- MODULE TbfRunProofs ----------------------------
(* Proofs about TbfRun, for every set of tests and of arguments, every     *)
(* configuration of the processing and every number of tool commands.      *)
EXTENDS TbfRun, TLAPS

-----------------------------------------------------------------------------
(* process_inputs as a part of the run.  These are the two lemmas of        *)
(* TestProcessingProofs about the instance P: a theorem of an instantiated *)
(* module cannot be cited, so that they are proved here of the instance.   *)

\* process_inputs starts with nothing done.
LEMMA ProcessingInit == P!Init => P!ProcessingInv
  BY ProcessingAssumption
  DEF P!ConstantsAssumption, P!Init, P!EnvInit, P!ProcInit, P!ProcessingInv, P!TypeOK,
      P!FirstIsAHit, P!PassesAreSeparate, P!VisitedIsJudged, P!ScannedIsExported,
      P!LastScanIsComplete, P!PassIsComplete, P!ResultFollowsFirst, P!Validators, P!Results,
      P!PCs, P!Polling

\* Every step of process_inputs, of the generator and of the stop event.
LEMMA ProcessingStep == P!ProcessingInv /\ [P!Next]_(P!vars) => P!ProcessingInv'
  <1> SUFFICES ASSUME P!ProcessingInv, [P!Next]_(P!vars)
               PROVE  P!ProcessingInv'
    OBVIOUS
  <1> USE ProcessingAssumption
      DEF P!ConstantsAssumption, P!ProcessingInv, P!TypeOK, P!FirstIsAHit,
          P!PassesAreSeparate, P!VisitedIsJudged, P!ScannedIsExported, P!LastScanIsComplete,
          P!PassIsComplete, P!ResultFollowsFirst, P!Validators, P!Results, P!PCs, P!Polling,
          P!FailureIsExcused, P!NewTests
  <1>1. CASE P!ProcNext /\ UNCHANGED <<cfg, created, ready, stop>>
    <2> USE <1>1
    <2>1. CASE P!Call \/ P!StartReplay \/ P!StartExecution \/ P!StartCollecting \/ P!Return
      BY <2>1, ZenonT(30) DEF P!Call, P!StartReplay, P!StartExecution, P!StartCollecting, P!Return,
                  P!BeginPass, P!ReplayDue, P!ExecutionDue, P!CollectDue
    <2>2. CASE P!PollReady \/ P!PollStop \/ P!Recheck
      BY <2>2 DEF P!PollReady, P!PollStop, P!Recheck
    <2>3. CASE P!Scan
      <3>1. P!TypeOK' /\ P!FirstIsAHit' /\ P!PassesAreSeparate'
        BY <2>3 DEF P!Scan
      <3>2. P!VisitedIsJudged'
        BY <2>3 DEF P!Scan
      <3>3. P!ScannedIsExported' /\ P!LastScanIsComplete'
        BY <2>3 DEF P!Scan
      <3>4. P!PassIsComplete' /\ P!ResultFollowsFirst'
        BY <2>3 DEF P!Scan
      <3> QED
        BY <3>1, <3>2, <3>3, <3>4
    <2>4. ASSUME NEW t \in Tests, P!Judge(t)
          PROVE  P!ProcessingInv'
      BY <2>4 DEF P!Judge
    <2>5. CASE P!EndBatch
      BY <2>5 DEF P!EndBatch
    <2>6. CASE P!Decide
      BY <2>6 DEF P!Decide, P!decide_final_verdict
    <2>7. CASE P!ScanRaises \/ P!RunRaises \/ P!FailToCompile \/ P!HangInRun
               \/ P!CoverageRaises
      BY <2>7 DEF P!ScanRaises, P!RunRaises, P!FailToCompile, P!HangInRun, P!CoverageRaises
    <2> QED
      BY <2>1, <2>2, <2>3, <2>4, <2>5, <2>6, <2>7 DEF P!ProcNext
  <1>2. CASE P!EnvNext /\ UNCHANGED <<cfg, procVars>>
    <2> USE <1>2 DEF procVars
    <2>1. ASSUME NEW t \in Tests, P!CreateTest(t)
          PROVE  P!ProcessingInv'
      BY <2>1 DEF P!CreateTest
    <2>2. CASE P!GeneratorReturns
      BY <2>2 DEF P!GeneratorReturns
    <2>3. CASE P!StopAll
      BY <2>3 DEF P!StopAll
    <2> QED
      BY <2>1, <2>2, <2>3 DEF P!EnvNext
  <1>3. CASE UNCHANGED processing
    BY <1>3 DEF processing, procVars
  <1>4. \/ P!ProcNext /\ UNCHANGED <<cfg, created, ready, stop>>
        \/ P!EnvNext /\ UNCHANGED <<cfg, procVars>>
        \/ UNCHANGED processing
    BY DEF P!Next, P!vars, P!env, P!proc, processing, procVars
  <1> QED
    BY <1>1, <1>2, <1>3, <1>4

-----------------------------------------------------------------------------
(* Refinement: the run thread, the generator and the stop events are an     *)
(* environment that TestProcessing assumes.                                *)

\* A run starts with process_inputs not called yet.
LEMMA InitRefines == Init => P!Init
  BY DEF Init

\* A step of the run is a step of process_inputs, one of its environment, or nothing it sees.
LEMMA NextRefines ==
  ASSUME TypeOK, GeneratorIsOrderly, [Next]_vars
  PROVE  [P!Next]_(P!vars)
  <1> USE DEF P!Next, P!vars, P!env, P!proc, processing, procVars
  <1>1. CASE TimeIsUp \/ LeaveLoop \/ JoinReturns \/ KillTool \/ ToolEnds \/ TimerFires
    BY <1>1 DEF TimeIsUp, LeaveLoop, JoinReturns, KillTool, ToolEnds, TimerFires
  <1>2. CASE SetUp \/ AssertNotStopped \/ LaunchGenerator \/ ApplyReturns \/ CheckStop
             \/ ProcessingRaises \/ GetGenerationResult \/ GetTimesOut \/ Export \/ Finally
    BY <1>2 DEF SetUp, AssertNotStopped, LaunchGenerator, ApplyReturns, CheckStop,
                ProcessingRaises, GetGenerationResult, GetTimesOut, Export, Finally
  <1>3. CASE MainStopsAll \/ ProcessingReturns
    BY <1>3 DEF MainStopsAll, ProcessingReturns, P!EnvNext, P!StopAll, TypeOK, P!TypeOK
  <1>4. CASE Process
    BY <1>4 DEF Process
  <1>5. CASE Prepare \/ Execute \/ CommandDone
    <2>1. ready' = ready \/ (~ready /\ ready' = TRUE)
      BY <1>5 DEF Prepare, Execute, CommandDone, WorkerReturns, TypeOK, P!TypeOK
    <2>2. UNCHANGED <<cfg, created, stop, procVars>>
      BY <1>5 DEF Prepare, Execute, CommandDone
    <2> QED
      BY <2>1, <2>2 DEF P!EnvNext, P!GeneratorReturns
  <1>6. CASE ToolCreatesTest
    <2>1. worker = "communicate" /\ ~ready
      BY <1>6 DEF ToolCreatesTest, GeneratorIsOrderly
    <2>2. PICK t \in Tests \ created : created' = created \cup {t}
      BY <1>6 DEF ToolCreatesTest
    <2>3. P!CreateTest(t) /\ UNCHANGED <<cfg, procVars>>
      BY <1>6, <2>1, <2>2 DEF ToolCreatesTest, P!CreateTest
    <2> QED
      BY <2>3 DEF P!EnvNext
  <1>7. CASE UNCHANGED vars
    BY <1>7 DEF vars
  <1> QED
    BY <1>1, <1>2, <1>3, <1>4, <1>5, <1>6, <1>7
    DEF Next, MainNext, RunNext, WorkerNext

-----------------------------------------------------------------------------
(* The inductive invariant *)

\* Every step of the threads, the timer and the tool preserves type correctness.
LEMMA NextPreservesType ==
  ASSUME TypeOK, P!TypeOK', P!ResultFollowsFirst, [Next]_vars
  PROVE  TypeOK'
  <1> USE DEF TypeOK, runVars, genVars
  <1>1. CASE TimeIsUp
    BY <1>1 DEF TimeIsUp
  <1>2. CASE LeaveLoop
    BY <1>2 DEF LeaveLoop
  <1>3. CASE MainStopsAll
    BY <1>3 DEF MainStopsAll
  <1>4. CASE JoinReturns
    BY <1>4 DEF JoinReturns
  <1>5. CASE SetUp
    BY <1>5 DEF SetUp
  <1>6. CASE AssertNotStopped
    BY <1>6 DEF AssertNotStopped
  <1>7. CASE LaunchGenerator
    BY <1>7 DEF LaunchGenerator
  <1>8. CASE ApplyReturns
    BY <1>8 DEF ApplyReturns
  <1>9. CASE CheckStop
    BY <1>9 DEF CheckStop
  <1>10. CASE Process
    BY <1>10 DEF Process
  <1>11. CASE ProcessingReturns
    BY <1>11 DEF ProcessingReturns, P!TypeOK, P!Results, P!ResultFollowsFirst
  <1>12. CASE ProcessingRaises
    BY <1>12 DEF ProcessingRaises
  <1>13. CASE GetGenerationResult
    <2>1. /\ run_pc' \in {"finally", "export"} /\ generation_done' \in BOOLEAN
          /\ UNCHANGED <<args, main_pc, time_up, outcome, cwd, exported, printed, genVars, timer,
                         stop_ig>>
      BY <1>13 DEF GetGenerationResult
    <2> QED
      BY <2>1
  <1>14. CASE GetTimesOut
    <2>1. /\ run_pc' = "export" /\ generation_done' \in BOOLEAN
          /\ UNCHANGED <<args, main_pc, time_up, outcome, cwd, exported, printed, genVars, timer,
                         stop_ig>>
      BY <1>14 DEF GetTimesOut
    <2> QED
      BY <2>1
  <1>15. CASE Export
    BY <1>15 DEF Export, TestToExport, FinalOutcome, P!TypeOK
  <1>16. CASE Finally
    BY <1>16 DEF Finally
  <1>17. CASE Prepare
    <2>1. /\ worker' \in {"execute", "returned"}
          /\ gen_result' \in {gen_result, "failure", "raised"}
          /\ stray' \in BOOLEAN
          /\ UNCHANGED <<args, main_pc, time_up, runVars, cmd, tool, orphans, timer, stop_ig>>
      BY <1>17 DEF Prepare, WorkerReturns, Astray
    <2> QED
      BY <2>1
  <1>18. CASE Execute
    <2>1. /\ worker' \in {"communicate", "returned"} /\ gen_result' \in {gen_result, "raised"}
          /\ tool' \in {tool, "running"}
          /\ stray' \in BOOLEAN
          /\ UNCHANGED <<args, main_pc, time_up, runVars, cmd, orphans, timer, stop_ig>>
      BY <1>18 DEF Execute, WorkerReturns, Astray
    <2> QED
      BY <2>1
  <1>19. CASE CommandDone
    BY ArgsAssumption, <1>19 DEF CommandDone, WorkerReturns, IsLastCmd
  <1>20. CASE KillTool
    BY <1>20 DEF KillTool, Tool!Kill
  <1>21. CASE ToolEnds
    <2>1. /\ tool' \in {tool, "ok", "error"} /\ orphans' \in BOOLEAN
          /\ UNCHANGED <<args, main_pc, time_up, runVars, worker, cmd, gen_result, stray, timer,
                         stop_ig>>
      BY <1>21 DEF ToolEnds, Tool!EndsItself, Tool!OrphansEnd
    <2> QED
      BY <2>1
  <1>22. CASE ToolCreatesTest
    BY <1>22 DEF ToolCreatesTest
  <1>23. CASE TimerFires
    BY <1>23 DEF TimerFires
  <1>24. CASE UNCHANGED vars
    BY <1>24 DEF vars
  <1> QED
    BY <1>1, <1>2, <1>3, <1>4, <1>5, <1>6, <1>7, <1>8, <1>9, <1>10, <1>11, <1>12, <1>13, <1>14, <1>15, <1>16, <1>17, <1>18, <1>19, <1>20, <1>21, <1>22, <1>23, <1>24
    DEF Next, MainNext, RunNext, WorkerNext

\* Only the run thread starts the generator, and only the tool of its last command creates
\* tests.
LEMMA NextPreservesOrder ==
  ASSUME TypeOK, GeneratorIsOrderly, [Next]_vars
  PROVE  GeneratorIsOrderly'
  <1> USE DEF TypeOK, GeneratorIsOrderly, processing, procVars, runVars, genVars
  <1>1. CASE TimeIsUp \/ MainNext \/ TimerFires
    BY <1>1 DEF TimeIsUp, MainNext, LeaveLoop, MainStopsAll, JoinReturns, TimerFires
  <1>2. CASE SetUp \/ AssertNotStopped \/ ApplyReturns \/ CheckStop
    BY <1>2 DEF SetUp, AssertNotStopped, ApplyReturns, CheckStop
  <1>3. CASE LaunchGenerator
    BY <1>3 DEF LaunchGenerator
  <1>4. CASE Process \/ ProcessingReturns \/ ProcessingRaises
    BY <1>4 DEF Process, ProcessingReturns, ProcessingRaises
  <1>5. CASE GetGenerationResult \/ GetTimesOut \/ Export \/ Finally
    BY <1>5 DEF GetGenerationResult, GetTimesOut, Export, Finally
  <1>6. CASE Prepare
    BY <1>6 DEF Prepare, WorkerReturns
  <1>7. CASE Execute
    BY <1>7 DEF Execute, WorkerReturns
  <1>8. CASE CommandDone
    BY <1>8, ArgsAssumption DEF CommandDone, CommandReturned, Tool!Returnable, WorkerReturns,
                                IsLastCmd
  <1>9. CASE KillTool
    BY <1>9 DEF KillTool, Tool!Kill
  <1>10. CASE ToolEnds
    BY <1>10 DEF ToolEnds, Tool!EndsItself, Tool!OrphansEnd
  <1>11. CASE ToolCreatesTest
    BY <1>11 DEF ToolCreatesTest
  <1>12. CASE UNCHANGED vars
    BY <1>12 DEF vars
  <1> QED
    BY <1>1, <1>2, <1>3, <1>4, <1>5, <1>6, <1>7, <1>8, <1>9, <1>10, <1>11, <1>12
    DEF Next, RunNext, WorkerNext

\* Only the main thread, after the time limit, and the run thread set the stop event.
LEMMA NextPreservesStop ==
  ASSUME TypeOK, StopIsJustified, [Next]_vars
  PROVE  StopIsJustified'
  <1> USE DEF StopIsJustified, Ended, TypeOK, processing, procVars, runVars, genVars
  <1>1. CASE TimeIsUp \/ LeaveLoop \/ MainStopsAll \/ JoinReturns
    BY <1>1 DEF TimeIsUp, LeaveLoop, MainStopsAll, JoinReturns
  <1>2. CASE SetUp \/ AssertNotStopped \/ LaunchGenerator \/ ApplyReturns
    BY <1>2 DEF SetUp, AssertNotStopped, LaunchGenerator, ApplyReturns
  <1>3. CASE CheckStop
    BY <1>3 DEF CheckStop
  <1>4. CASE Process \/ ProcessingReturns \/ ProcessingRaises
    BY <1>4 DEF Process, ProcessingReturns, ProcessingRaises
  <1>5. CASE GetGenerationResult \/ GetTimesOut \/ Export \/ Finally
    BY <1>5 DEF GetGenerationResult, GetTimesOut, Export, Finally
  <1>6. CASE Prepare
    BY <1>6 DEF Prepare
  <1>7. CASE Execute
    BY <1>7 DEF Execute
  <1>8. CASE CommandDone
    BY <1>8 DEF CommandDone
  <1>9. CASE KillTool \/ ToolEnds \/ ToolCreatesTest \/ TimerFires
    BY <1>9 DEF KillTool, ToolEnds, ToolCreatesTest, TimerFires
  <1>10. CASE UNCHANGED vars
    BY <1>10 DEF vars
  <1> QED
    BY <1>1, <1>2, <1>3, <1>4, <1>5, <1>6, <1>7, <1>8, <1>9, <1>10
    DEF Next, MainNext, RunNext, WorkerNext

\* The worker is in the old directory only when the run thread has left the other one.
LEMMA NextPreservesDirectory ==
  ASSUME TypeOK, GeneratorIsOrderly, WorkDirectory, [Next]_vars
  PROVE  WorkDirectory'
  <1> USE DEF WorkDirectory, GeneratorIsOrderly, Ended, TypeOK, processing, procVars, runVars,
             genVars
  <1>1. CASE TimeIsUp \/ LeaveLoop \/ MainStopsAll \/ JoinReturns
    BY <1>1 DEF TimeIsUp, LeaveLoop, MainStopsAll, JoinReturns
  <1>2. CASE SetUp \/ AssertNotStopped \/ LaunchGenerator \/ ApplyReturns
    BY <1>2 DEF SetUp, AssertNotStopped, LaunchGenerator, ApplyReturns
  <1>3. CASE CheckStop
    BY <1>3 DEF CheckStop
  <1>4. CASE Process \/ ProcessingReturns \/ ProcessingRaises
    BY <1>4 DEF Process, ProcessingReturns, ProcessingRaises
  <1>5. CASE GetGenerationResult \/ GetTimesOut \/ Export \/ Finally
    BY <1>5 DEF GetGenerationResult, GetTimesOut, Export, Finally
  <1>6. CASE Prepare
    BY <1>6 DEF Prepare, Astray
  <1>7. CASE Execute
    BY <1>7 DEF Execute, Astray
  <1>8. CASE CommandDone
    BY <1>8 DEF CommandDone
  <1>9. CASE KillTool \/ ToolEnds \/ ToolCreatesTest \/ TimerFires
    BY <1>9 DEF KillTool, ToolEnds, ToolCreatesTest, TimerFires
  <1>10. CASE UNCHANGED vars
    BY <1>10 DEF vars
  <1> QED
    BY <1>1, <1>2, <1>3, <1>4, <1>5, <1>6, <1>7, <1>8, <1>9, <1>10
    DEF Next, MainNext, RunNext, WorkerNext

\* What is printed goes back to the verdict: process_inputs is not resumed after it returned.
LEMMA NextPreservesOutcome ==
  ASSUME RunInv, [Next]_vars
  PROVE  OutcomeIsVerdict'
  <1> USE DEF RunInv, TypeOK, OutcomeIsVerdict, Ended, processing, procVars, runVars, genVars
  <1>1. CASE TimeIsUp \/ MainNext \/ TimerFires
    BY <1>1 DEF TimeIsUp, MainNext, LeaveLoop, MainStopsAll, JoinReturns, TimerFires
  <1>2. CASE SetUp \/ AssertNotStopped \/ LaunchGenerator \/ ApplyReturns \/ CheckStop
    BY <1>2 DEF SetUp, AssertNotStopped, LaunchGenerator, ApplyReturns, CheckStop
  <1>3. CASE Process \/ ProcessingReturns \/ ProcessingRaises
    BY <1>3 DEF Process, ProcessingReturns, ProcessingRaises
  <1>4. CASE GetGenerationResult
    <2>1. ready /\ ~stray /\ exported' = exported
      BY <1>4 DEF GetGenerationResult, WorkDirectory
    <2>2. CASE Parallel /\ gen_result = "raised"
      <3>1. created = {}
        BY <2>2 DEF GeneratorIsOrderly, Parallel
      <3>2. hits = {}
        BY <3>1 DEF P!ProcessingInv, P!VisitedIsJudged, P!FirstIsAHit, P!TypeOK
      <3>3. outcome # "FALSE"
        BY <1>4, <3>2 DEF GetGenerationResult, P!ProcessingInv, P!ResultFollowsFirst,
                          P!FirstIsAHit, P!TypeOK, P!Validators
      <3> QED
        BY <1>4, <2>1, <2>2, <3>3 DEF GetGenerationResult
    <2>3. CASE ~(Parallel /\ gen_result = "raised")
      BY <1>4, <2>1, <2>3 DEF GetGenerationResult
    <2> QED
      BY <2>2, <2>3
  <1>5. CASE GetTimesOut
    BY <1>5 DEF GetTimesOut
  <1>6. CASE Export
    BY <1>6 DEF Export, TestToExport, FinalOutcome
  <1>7. CASE Finally
    BY <1>7 DEF Finally
  <1>8. CASE WorkerNext
    <2>1. ready' = ready \/ ready' = TRUE
      BY <1>8 DEF WorkerNext, Prepare, Execute, CommandDone, WorkerReturns
    <2>2. ready => UNCHANGED stray
      BY <1>8 DEF WorkerNext, Prepare, Execute, CommandDone, GeneratorIsOrderly
    <2>3. UNCHANGED <<procVars, runVars>>
      BY <1>8 DEF WorkerNext, Prepare, Execute, CommandDone
    <2> QED
      BY <2>1, <2>2, <2>3
  <1>9. CASE KillTool \/ ToolEnds \/ ToolCreatesTest
    BY <1>9 DEF KillTool, ToolEnds, ToolCreatesTest
  <1>10. CASE UNCHANGED vars
    BY <1>10 DEF vars
  <1> QED
    BY <1>1, <1>2, <1>3, <1>4, <1>5, <1>6, <1>7, <1>8, <1>9, <1>10 DEF Next, RunNext

\* When process_inputs returns before the time limit, nobody has set the stop event: every
\* test has been handled, and the generator has returned.
LEMMA NextPreservesAnalysis ==
  ASSUME RunInv, [Next]_vars
  PROVE  AnalysisIsComplete'
  <1> USE DEF RunInv, TypeOK, AnalysisIsComplete, processing, procVars, runVars, genVars
  <1>1. CASE ProcessingReturns
    <2>1. ~time_up => ~stop
      BY <1>1 DEF ProcessingReturns, StopIsJustified, Ended
    <2>2. ~stop /\ pass \in P!Validators /\ hits = {} => ready /\ created \subseteq judged
      BY <1>1 DEF ProcessingReturns, P!ProcessingInv, P!PassIsComplete, P!FirstIsAHit,
                  P!Validators
    <2> QED
      BY <1>1, <2>1, <2>2 DEF ProcessingReturns
  <1>2. CASE TimeIsUp \/ MainNext \/ TimerFires
    BY <1>2 DEF TimeIsUp, MainNext, LeaveLoop, MainStopsAll, JoinReturns, TimerFires
  <1>3. CASE SetUp \/ AssertNotStopped \/ LaunchGenerator \/ ApplyReturns \/ CheckStop
    BY <1>3 DEF SetUp, AssertNotStopped, LaunchGenerator, ApplyReturns, CheckStop
  <1>4. CASE Process \/ ProcessingRaises
    BY <1>4 DEF Process, ProcessingRaises
  <1>5. CASE GetGenerationResult \/ GetTimesOut \/ Export \/ Finally
    BY <1>5 DEF GetGenerationResult, GetTimesOut, Export, Finally
  <1>6. CASE WorkerNext
    BY <1>6 DEF WorkerNext, Prepare, Execute, CommandDone, WorkerReturns
  <1>7. CASE KillTool \/ ToolEnds
    BY <1>7 DEF KillTool, ToolEnds
  <1>8. CASE ToolCreatesTest
    BY <1>8 DEF ToolCreatesTest, GeneratorIsOrderly
  <1>9. CASE UNCHANGED vars
    BY <1>9 DEF vars
  <1> QED
    BY <1>1, <1>2, <1>3, <1>4, <1>5, <1>6, <1>7, <1>8, <1>9 DEF Next, RunNext

\* The initial states satisfy the inductive invariant.
LEMMA InitImpliesInv == Init => RunInv
  <1> SUFFICES ASSUME Init
               PROVE  RunInv
    OBVIOUS
  <1>1. P!ProcessingInv
    BY ProcessingInit DEF Init
  <1>2. TypeOK
    <2>1. P!TypeOK /\ 1 \in 1..NumCmds
      BY <1>1, ArgsAssumption DEF P!ProcessingInv
    <2> QED
      BY <2>1 DEF Init, TypeOK
  <1>3. GeneratorIsOrderly /\ StopIsJustified /\ WorkDirectory
    BY DEF Init, P!Init, P!EnvInit, GeneratorIsOrderly, StopIsJustified, WorkDirectory, Ended
  <1>4. OutcomeIsVerdict /\ AnalysisIsComplete
    BY DEF Init, OutcomeIsVerdict, AnalysisIsComplete, Ended
  <1> QED
    BY <1>1, <1>2, <1>3, <1>4 DEF RunInv

\* Every step preserves it.
LEMMA NextPreservesInv == RunInv /\ [Next]_vars => RunInv'
  <1> SUFFICES ASSUME RunInv, [Next]_vars
               PROVE  RunInv'
    OBVIOUS
  <1>1. P!ProcessingInv'
    <2>1. [P!Next]_(P!vars)
      BY NextRefines DEF RunInv
    <2> QED
      BY <2>1, ProcessingStep DEF RunInv
  <1>2. TypeOK'
    BY <1>1, NextPreservesType DEF RunInv, P!ProcessingInv
  <1>3. GeneratorIsOrderly' /\ StopIsJustified' /\ WorkDirectory'
    BY NextPreservesOrder, NextPreservesStop, NextPreservesDirectory DEF RunInv
  <1>4. OutcomeIsVerdict' /\ AnalysisIsComplete'
    BY NextPreservesOutcome, NextPreservesAnalysis
  <1> QED
    BY <1>1, <1>2, <1>3, <1>4 DEF RunInv

\* The inductive invariant, type correctness included, holds in every reachable state of a
\* run of TBF, whatever the threads, the timer and the tool do.
THEOREM RunCorrect == Spec => []RunInv
  <1>1. Init => RunInv
    BY InitImpliesInv
  <1>2. RunInv /\ [Next]_vars => RunInv'
    BY NextPreservesInv
  <1> QED
    BY <1>1, <1>2, PTL DEF Spec

-----------------------------------------------------------------------------
(* The properties *)

\* What is proved of process_inputs in TestProcessingProofs holds of every run of TBF.
THEOREM Refines == Spec => RefinesProcessing
  <1>1. Init => P!Init
    BY InitRefines
  <1>2. RunInv /\ [Next]_vars => [P!Next]_(P!vars)
    BY NextRefines DEF RunInv
  <1> QED
    BY <1>1, <1>2, RunCorrect, PTL DEF Spec, RefinesProcessing, P!Spec

\* A printed FALSE comes with the copy of a test that a validator saw calling the error
\* method, also when the generator timed out, failed or raised (run).
THEOREM FalseExported == Spec => []FalseIsExported
  <1>1. ASSUME RunInv, printed = "FALSE"
        PROVE  exported \in hits \cap Reaching[pass]
    <2>1. run_pc = "over" /\ outcome = "FALSE"
      BY <1>1 DEF RunInv, OutcomeIsVerdict
    <2>2. pc = "done" /\ verdict = "FALSE" /\ exported = harness
      BY <1>1, <2>1 DEF RunInv, OutcomeIsVerdict, Ended
    <2>3. result = "FALSE" /\ harness = first
      BY <1>1, <2>2 DEF RunInv, P!ProcessingInv, P!ResultFollowsFirst
    <2>4. pass \in P!Validators /\ first # NoTest
      BY <1>1, <2>2, <2>3 DEF RunInv, P!ProcessingInv, P!ResultFollowsFirst, P!TypeOK,
                              P!Validators
    <2> QED
      BY <1>1, <2>2, <2>3, <2>4 DEF RunInv, P!ProcessingInv, P!FirstIsAHit
  <1>2. RunInv => FalseIsExported
    BY <1>1 DEF FalseIsExported
  <1> QED
    BY <1>2, RunCorrect, PTL

\* TRUE is never printed of a generator that may still create tests, nor after a positive
\* run (run).
THEOREM TrueOnlyAfterGeneration == Spec => []TrueAfterGeneration
  <1>1. ASSUME RunInv, printed = "TRUE"
        PROVE  ready /\ hits = {}
    <2>1. run_pc = "over" /\ outcome = "TRUE"
      BY <1>1 DEF RunInv, OutcomeIsVerdict
    <2>2. pc = "done" /\ verdict = "TRUE" /\ ready
      BY <1>1, <2>1 DEF RunInv, OutcomeIsVerdict, Ended
    <2>3. result = "TRUE"
      BY <1>1, <2>2 DEF RunInv, P!ProcessingInv, P!ResultFollowsFirst
    <2>4. pass \in P!Validators
      BY <1>1, <2>3 DEF RunInv, P!ProcessingInv, P!ResultFollowsFirst, P!TypeOK
    <2>5. first = NoTest
      BY <1>1, <2>2, <2>3, <2>4 DEF RunInv, P!ProcessingInv, P!ResultFollowsFirst
    <2> QED
      BY <1>1, <2>2, <2>5 DEF RunInv, P!ProcessingInv, P!FirstIsAHit
  <1>2. RunInv => TrueAfterGeneration
    BY <1>1 DEF TrueAfterGeneration
  <1> QED
    BY <1>2, RunCorrect, PTL

\* After the limit of --ig-timelimit, analysis is performed with the inputs generated up to
\* this point, whenever the timer fired (run, process_inputs).
THEOREM AnalysisPerformed == Spec => []AnalysisAfterIgLimit
  <1>1. RunInv => AnalysisAfterIgLimit
    BY DEF RunInv, AnalysisIsComplete, AnalysisAfterIgLimit
  <1> QED
    BY <1>1, RunCorrect, PTL

\* If the run thread got the generator's result, the generator left nothing outside of the
\* work directory (run, generate_input).
THEOREM NothingLeftOutside == Spec => []NothingStray
  <1>1. RunInv => NothingStray
    BY DEF RunInv, OutcomeIsVerdict, NothingStray
  <1> QED
    BY <1>1, RunCorrect, PTL
=============================================================================
