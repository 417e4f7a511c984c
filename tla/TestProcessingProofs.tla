------------------------ MODULE TestProcessingProofs ------------------------
(* Proofs about TestProcessing, for every set of tests, every pair of      *)
(* validators and every set of configurations.                             *)
EXTENDS TestProcessing, TLAPS

\* The initial states satisfy the inductive invariant.
LEMMA InitImpliesInv == Init => ProcessingInv
  BY ConstantsAssumption
  DEF Init, EnvInit, ProcInit, ProcessingInv, TypeOK, FirstIsAHit, PassesAreSeparate,
      VisitedIsJudged, ScannedIsExported, LastScanIsComplete, PassIsComplete,
      ResultFollowsFirst, Validators, Results, PCs, Polling

\* Every step of the thread and of its environment preserves it.
LEMMA NextPreservesInv == ProcessingInv /\ [Next]_vars => ProcessingInv'
  <1> SUFFICES ASSUME ProcessingInv, [Next]_vars
               PROVE  ProcessingInv'
    OBVIOUS
  <1> USE ConstantsAssumption DEF ProcessingInv, TypeOK, FirstIsAHit, PassesAreSeparate,
      VisitedIsJudged, ScannedIsExported, LastScanIsComplete, PassIsComplete,
      ResultFollowsFirst, Validators, Results, PCs, Polling, FailureIsExcused, NewTests
  <1>1. CASE ProcNext /\ UNCHANGED <<cfg, env>>
    <2> USE <1>1 DEF env
    <2>1. CASE Call
      BY <2>1 DEF Call
    <2>2. CASE StartReplay
      BY <2>2 DEF StartReplay, BeginPass, ReplayDue
    <2>3. CASE StartExecution
      BY <2>3 DEF StartExecution, BeginPass, ExecutionDue, ReplayDue
    <2>4. CASE StartCollecting
      BY <2>4 DEF StartCollecting, BeginPass, CollectDue, ReplayDue, ExecutionDue
    <2>5. CASE Return
      BY <2>5 DEF Return
    <2>6. CASE PollReady
      BY <2>6 DEF PollReady
    <2>7. CASE PollStop
      BY <2>7 DEF PollStop
    <2>8. CASE Recheck
      BY <2>8 DEF Recheck
    <2>9. CASE Scan
      <3> USE <2>9 DEF Scan
      <3>1. TypeOK'
        OBVIOUS
      <3>2. FirstIsAHit' /\ PassesAreSeparate'
        OBVIOUS
      <3>3. VisitedIsJudged'
        OBVIOUS
      <3>4. ScannedIsExported' /\ LastScanIsComplete'
        OBVIOUS
      <3>5. PassIsComplete' /\ ResultFollowsFirst'
        OBVIOUS
      <3> QED
        BY <3>1, <3>2, <3>3, <3>4, <3>5
    <2>10. ASSUME NEW t \in Tests, Judge(t)
           PROVE  ProcessingInv'
      BY <2>10 DEF Judge
    <2>11. CASE FailToCompile
      BY <2>11 DEF FailToCompile
    <2>12. CASE HangInRun
      BY <2>12 DEF HangInRun
    <2>13. CASE EndBatch
      BY <2>13 DEF EndBatch
    <2>14. CASE Decide
      BY <2>14 DEF Decide, decide_final_verdict
    <2>15. CASE ScanRaises
      BY <2>15 DEF ScanRaises
    <2>16. CASE RunRaises
      BY <2>16 DEF RunRaises
    <2>17. CASE CoverageRaises
      BY <2>17 DEF CoverageRaises
    <2> QED
      BY <2>1, <2>2, <2>3, <2>4, <2>5, <2>6, <2>7, <2>8, <2>9, <2>10, <2>11, <2>12,
         <2>13, <2>14, <2>15, <2>16, <2>17 DEF ProcNext
  <1>2. CASE EnvNext /\ UNCHANGED <<cfg, proc>>
    <2> USE <1>2 DEF proc
    <2>1. ASSUME NEW t \in Tests, CreateTest(t)
          PROVE  ProcessingInv'
      BY <2>1 DEF CreateTest
    <2>2. CASE GeneratorReturns
      BY <2>2 DEF GeneratorReturns
    <2>3. CASE StopAll
      BY <2>3 DEF StopAll
    <2> QED
      BY <2>1, <2>2, <2>3 DEF EnvNext
  <1>3. CASE UNCHANGED vars
    BY <1>3 DEF vars, env, proc
  <1> QED
    BY <1>1, <1>2, <1>3 DEF Next

\* The inductive invariant, type correctness included, holds in every reachable state
\* of process_inputs.
THEOREM ProcessingCorrect == Spec => []ProcessingInv
  <1>1. Init => ProcessingInv
    BY InitImpliesInv
  <1>2. ProcessingInv /\ [Next]_vars => ProcessingInv'
    BY NextPreservesInv
  <1> QED
    BY <1>1, <1>2, PTL DEF Spec

-----------------------------------------------------------------------------
(* The safety properties *)

\* A FALSE verdict comes with the harness of a test that a validator saw calling the
\* error method (process_inputs, decide_final_verdict).
THEOREM FalseWitnessed == Spec => []FalseIsWitnessed
  <1>1. ProcessingInv => FalseIsWitnessed
    BY DEF ProcessingInv, TypeOK, FalseIsWitnessed, ResultFollowsFirst, FirstIsAHit,
           Validators, Results, PCs
  <1> QED
    BY <1>1, ProcessingCorrect, PTL

\* A positive run reaches the caller as FALSE, also over two passes, and is not lost in an
\* exception but for the three of FailureIsExcused (verdicts, result, process_inputs).
THEOREM PositiveReported == Spec => []NoPositiveLost
  <1>1. ProcessingInv => NoPositiveLost
    BY DEF ProcessingInv, NoPositiveLost, ResultFollowsFirst, FirstIsAHit,
           PassesAreSeparate, Validators, TypeOK
  <1> QED
    BY <1>1, ProcessingCorrect, PTL

\* Unless there was a stop or an accepted success, every test of the directory was run
\* and exported when process_inputs returns (_perform_processing).
THEOREM TestsAllHandled == Spec => []NoTestMissed
  <1>1. ProcessingInv => NoTestMissed
    BY DEF ProcessingInv, TypeOK, NoTestMissed, PassIsComplete, ResultFollowsFirst,
           PassesAreSeparate, FirstIsAHit, Validators
  <1> QED
    BY <1>1, ProcessingCorrect, PTL

\* No validator runs a test twice in a pass (visited_tests).
THEOREM TestsJudgedOnce == Spec => JudgedAtMostOnce
  <1>1. ProcessingInv =>
          \A t \in Tests : (t \in pending /\ t \notin pending') => t \notin judged
    BY DEF ProcessingInv, VisitedIsJudged
  <1> QED
    BY <1>1, ProcessingCorrect, PTL DEF JudgedAtMostOnce

-----------------------------------------------------------------------------
(* Refinement *)

\* The initial states are initial states of the abstract service.
LEMMA InitRefines == Init => Service!Init
  BY ConstantsAssumption DEF Init, EnvInit, ProcInit, Service!Init, Validators

\* Every step is a step of the abstract service or changes nothing it sees.
LEMMA NextRefines == ProcessingInv /\ [Next]_vars => [Service!Next]_(Service!vars)
  <1> SUFFICES ASSUME ProcessingInv, [Next]_vars
               PROVE  [Service!Next]_(Service!vars)
    OBVIOUS
  <1> USE DEF ProcessingInv, Service!Next, Service!vars, Validators
  <1>1. CASE ProcNext /\ UNCHANGED <<cfg, env>>
    <2> USE <1>1 DEF env
    <2>1. CASE Call \/ PollReady \/ PollStop \/ Recheck \/ Scan \/ ScanRaises \/ RunRaises
               \/ FailToCompile \/ HangInRun \/ EndBatch \/ Decide \/ CoverageRaises
      BY <2>1 DEF Call, PollReady, PollStop, Recheck, Scan, ScanRaises, RunRaises,
                  FailToCompile, HangInRun, EndBatch, Decide, CoverageRaises
    <2>2. CASE StartReplay \/ StartExecution \/ StartCollecting
      <3>1. verdict = "none" /\ verdict' = "none"
        BY <2>2 DEF StartReplay, StartExecution, StartCollecting, BeginPass,
                    ResultFollowsFirst
      <3>2. judged' = {} /\ UNCHANGED <<created, ready, stop, hits>>
        BY <2>2 DEF StartReplay, StartExecution, StartCollecting, BeginPass
      <3>3. hits = {}
        BY <2>2 DEF StartReplay, StartExecution, StartCollecting, ReplayDue,
                    ExecutionDue, CollectDue, ResultFollowsFirst, FirstIsAHit,
                    PassesAreSeparate, TypeOK
      <3>4. Service!Restart
        BY <3>1, <3>2, <3>3 DEF Service!Restart
      <3> QED
        BY <3>4
    <2>3. CASE Return
      <3>1. CASE pass \in Validators
        <4>1. verdict = "none" /\ pass' = pass /\ UNCHANGED <<created, ready, stop, judged, hits>>
          BY <2>3 DEF Return, ResultFollowsFirst
        <4>2. verdict' = result /\ result \in {"FALSE", "TRUE", "UNKNOWN"}
          BY <2>3, <3>1 DEF Return, ResultFollowsFirst, TypeOK, Results
        <4>3. result = "FALSE" <=> hits # {}
          BY <2>3, <3>1 DEF Return, ResultFollowsFirst, FirstIsAHit
        <4>4. hits = {} => (ready /\ created \subseteq judged) \/ stop
          BY <2>3, <3>1 DEF Return, PassIsComplete, FirstIsAHit
        <4>5. Service!Announce
          BY <3>1, <4>1, <4>2, <4>3, <4>4 DEF Service!Announce, Service!Complete
        <4> QED
          BY <4>5
      <3>2. CASE pass \notin Validators
        BY <2>3, <3>2 DEF Return
      <3> QED
        BY <3>1, <3>2
    <2>4. ASSUME NEW t \in Tests, Judge(t)
          PROVE  Service!Examine(t)
      <3>1. verdict = "none" /\ verdict' = "none" /\ UNCHANGED <<created, ready, stop>>
        BY <2>4 DEF Judge, ResultFollowsFirst
      <3>2. t \in created \ judged
        BY <2>4 DEF Judge, VisitedIsJudged
      <3>3. judged' = judged \cup {t} /\ hits' \in {hits, hits \cup {t}}
        BY <2>4 DEF Judge
      <3> QED
        BY <3>1, <3>2, <3>3 DEF Service!Examine
    <2> QED
      BY <2>1, <2>2, <2>3, <2>4 DEF ProcNext
  <1>2. CASE EnvNext /\ UNCHANGED <<cfg, proc>>
    BY <1>2 DEF EnvNext, CreateTest, GeneratorReturns, StopAll, proc, Service!Publish,
                Service!Close, Service!Cancel
  <1>3. CASE UNCHANGED vars
    BY <1>3 DEF vars, env, proc
  <1> QED
    BY <1>1, <1>2, <1>3 DEF Next

\* The thread implements the abstract verdict service (process_inputs and all it calls).
THEOREM Implements == Spec => ImplementsService
  <1>1. Init => Service!Init
    BY InitRefines
  <1>2. ProcessingInv /\ [Next]_vars => [Service!Next]_(Service!vars)
    BY NextRefines
  <1> QED
    BY <1>1, <1>2, ProcessingCorrect, PTL DEF Spec, ImplementsService, Service!Spec
=============================================================================
