------------------------------- MODULE TbfRun -------------------------------
(***************************************************************************)
(* tbf/__init__.py: one call of TBF.  multiprocessing.dummy makes every    *)
(* "process" a thread of one Python process:                               *)
(*   - the main thread (main) polls the time limit, sets the stop event    *)
(*     and joins the run thread for 5 s,                                   *)
(*   - the run thread (run) sets up the work directory, starts the input   *)
(*     generator, calls process_inputs (TestProcessing), waits 3 s for the *)
(*     generator, exports the result and prints the verdict,               *)
(*   - the worker of generator_pool (BaseInputGenerator.generate_input)    *)
(*     prepares the program and runs the commands of the tool one by one,  *)
(*     each watched by the waiter thread of utils.execute,                 *)
(*   - the timer of set_stop_timer ends input generation.                  *)
(* The tool is a process of its own; it creates the tests.                 *)
(*                                                                         *)
(* Durations are not modelled: a time limit expires at any moment.  Of the *)
(* files there are the copy of the successful test and, as stray, what the *)
(* generator leaves outside of the work directory: the current directory   *)
(* belongs to the process, and the run thread changes it.                  *)
(* Workers of the pool are daemon threads, the run thread and the timer    *)
(* are not.                                                                *)
(***************************************************************************)
EXTENDS Naturals

CONSTANTS Tests, NoTest, Reaching, Undecodable, Malformed, Configs,  \* see TestProcessing
          Args,     \* the command-line arguments of run() that are considered
          NumCmds   \* the number of commands of the tool; the last one creates the tests

ASSUME ArgsAssumption ==
    /\ Args \subseteq [run_parallel : BOOLEAN, existing_tests_dir : BOOLEAN,
                       timelimit : BOOLEAN, ig_timelimit : BOOLEAN, use_error_method : BOOLEAN]
    /\ NumCmds \in Nat \ {0}

VARIABLES
    \* TestProcessing, called by the run thread
    cfg, created, ready, stop, pc, pass, result, last, visited, batch, pending, first,
    judged, hits, xml, harness, verdict,
    args,
    main_pc,    \* main: where the main thread is
    time_up,    \* main: timeout_watch is past --timelimit
    run_pc,     \* run: where the run thread is
    outcome,    \* run: processing_result
    generation_done,  \* run: get_generation_result did not time out
    cwd,        \* the current directory: where TBF was called, or the work directory
    exported,   \* the test copied to the output directory, with harness.c
    printed,    \* the verdict on stdout and in Statistics.txt
    worker,     \* where generate_input is
    cmd,        \* the number of the tool command it runs
    gen_result, \* what its call ended with
    tool,       \* the process of that command: "none", "running" or what it ended with
    orphans,    \* it has ended, and left processes behind that hold its pipe
    stray,      \* history: the worker wrote a file or started a command in the old directory
    timer,      \* the threading.Timer of --ig-timelimit
    stop_ig     \* stop_input_generator_event.val

P == INSTANCE TestProcessing

ASSUME ProcessingAssumption == P!ConstantsAssumption

procVars == <<pc, pass, result, last, visited, batch, pending, first, judged, hits, xml,
              harness, verdict>>
processing == <<cfg, created, ready, stop, procVars>>
runVars == <<run_pc, outcome, generation_done, cwd, exported, printed>>
genVars == <<worker, cmd, gen_result, tool, orphans, stray>>
vars == <<processing, args, main_pc, time_up, runVars, genVars, timer, stop_ig>>

\* The run thread has the arguments of the processing configuration, too.
is_processing_necessary == cfg.use_execution \/ cfg.use_klee_replay \/ cfg.write_xml
Parallel == args.run_parallel /\ is_processing_necessary /\ ~args.existing_tests_dir

\* Mutants of IgStopIsSet: StopEvent does not ask its parent; the generator is given
\* stop_all_event.
IgStopIgnoresParent == stop_ig
IgStopIsParent      == stop

\* StopEvent.is_set of the event that stop_all_event is the parent of.
IgStopIsSet == stop_ig \/ stop

\* execute is told to stop by the event of the generator.  ProcessExecution implements this.
Tool == INSTANCE ToolProcess WITH told <- IgStopIsSet, result <- "none"

\* The Python process ends with its last thread that is not a daemon.
Exited == main_pc = "over" /\ run_pc = "over" /\ timer # "armed"

\* Every variable of this module stays in its domain.
TypeOK ==
    /\ P!TypeOK
    /\ args \in Args
    /\ main_pc \in {"poll", "stopping", "joining", "over"}
    /\ time_up \in BOOLEAN
    /\ run_pc \in {"setup", "assert", "launch", "generating", "check_stop", "process",
                   "get", "export", "finally", "over"}
    /\ outcome \in {"FALSE", "TRUE", "UNKNOWN"}
    /\ generation_done \in BOOLEAN
    /\ cwd \in {"old", "work"}
    /\ exported \in Tests \cup {NoTest}
    /\ printed \in {"none", "DONE", "FALSE", "TRUE", "UNKNOWN"}
    /\ worker \in {"off", "prepare", "execute", "communicate", "returned"}
    /\ cmd \in 1..NumCmds
    /\ gen_result \in {"none", "success", "failure", "raised"}
    /\ tool \in {"none", "running", "ok", "error"}
    /\ orphans \in BOOLEAN
    /\ stray \in BOOLEAN
    /\ timer \in {"off", "armed", "fired"}
    /\ stop_ig \in BOOLEAN

Init ==
    /\ P!Init
    /\ args \in Args
    /\ ready = args.existing_tests_dir
    /\ main_pc = "poll" /\ time_up = FALSE
    /\ run_pc = "setup" /\ outcome = "UNKNOWN"
    /\ generation_done = FALSE /\ cwd = "old" /\ exported = NoTest /\ printed = "none"
    /\ worker = "off" /\ cmd = 1 /\ gen_result = "none" /\ tool = "none" /\ orphans = FALSE /\ stray = FALSE
    /\ timer = "off" /\ stop_ig = FALSE

-----------------------------------------------------------------------------
(* The main thread *)

TimeIsUp ==
    /\ args.timelimit /\ ~time_up
    /\ main_pc = "poll"
    /\ time_up' = TRUE
    /\ UNCHANGED <<processing, args, main_pc, runVars, genVars, timer, stop_ig>>

\* Mutant of LeaveLoop: main does not look at main_run.is_alive().
LeaveLoopAtLimit ==
    /\ main_pc = "poll"
    /\ time_up
    /\ main_pc' = "stopping"
    /\ UNCHANGED <<processing, args, time_up, runVars, genVars, timer, stop_ig>>

LeaveLoop ==
    /\ main_pc = "poll"
    /\ run_pc = "over" \/ time_up
    /\ main_pc' = "stopping"
    /\ UNCHANGED <<processing, args, time_up, runVars, genVars, timer, stop_ig>>

MainStopsAll ==
    /\ main_pc = "stopping"
    /\ main_pc' = IF run_pc = "over" THEN "over" ELSE "joining"
    /\ stop' = TRUE
    /\ UNCHANGED <<cfg, created, ready, procVars, args, time_up, runVars, genVars, timer, stop_ig>>

\* join(5) returns after 5 s even if the run thread is alive, and raises nothing.
JoinReturns ==
    /\ main_pc = "joining"
    /\ main_pc' = "over"
    /\ UNCHANGED <<processing, args, time_up, runVars, genVars, timer, stop_ig>>

MainNext == LeaveLoop \/ MainStopsAll \/ JoinReturns

-----------------------------------------------------------------------------
(* The run thread *)

\* Work directory and preparation; parsing the program may fail.
SetUp ==
    /\ run_pc = "setup"
    /\ run_pc' \in {"assert", "finally"}
    /\ cwd' = "work"
    /\ UNCHANGED <<processing, args, main_pc, time_up, outcome, generation_done, exported,
                   printed, genVars, timer, stop_ig>>

\* "Stop event is already set before starting input generation"
AssertNotStopped ==
    /\ run_pc = "assert"
    /\ run_pc' = IF stop THEN "finally" ELSE "launch"
    /\ UNCHANGED <<processing, args, main_pc, time_up, outcome, generation_done, cwd, exported,
                   printed, genVars, timer, stop_ig>>

LaunchGenerator ==
    /\ run_pc = "launch"
    /\ IF args.existing_tests_dir
       THEN run_pc' = "check_stop" /\ UNCHANGED <<timer, worker>>
       ELSE /\ timer' = IF args.ig_timelimit THEN "armed" ELSE timer
            /\ worker' = "prepare"
            /\ run_pc' = IF Parallel THEN "check_stop" ELSE "generating"
    /\ UNCHANGED <<processing, args, main_pc, time_up, outcome, generation_done, cwd, exported,
                   printed, cmd, gen_result, tool, orphans, stray, stop_ig>>

\* generator_pool.apply returns, or raises what the worker raised.
ApplyReturns ==
    /\ run_pc = "generating"
    /\ worker = "returned"
    /\ run_pc' = IF gen_result = "raised" THEN "finally" ELSE "check_stop"
    /\ UNCHANGED <<processing, args, main_pc, time_up, outcome, generation_done, cwd, exported,
                   printed, genVars, timer, stop_ig>>

\* The early return once everything is to stop.
CheckStop ==
    /\ run_pc = "check_stop"
    /\ run_pc' = IF stop THEN "finally" ELSE "process"
    /\ stop_ig' = (stop_ig \/ stop)
    /\ UNCHANGED <<processing, args, main_pc, time_up, outcome, generation_done, cwd, exported,
                   printed, genVars, timer>>

\* A step of process_inputs.
Process ==
    /\ run_pc = "process"
    /\ P!ProcNext
    /\ UNCHANGED <<cfg, created, ready, stop, args, main_pc, time_up, runVars, genVars, timer, stop_ig>>

\* Mutant of ProcessingReturns: back to the old directory before the generator is awaited.
ProcessingReturnsToOldDir ==
    /\ run_pc = "process"
    /\ pc = "done"
    /\ outcome' = verdict
    /\ stop_ig' = TRUE
    /\ stop' = TRUE
    /\ run_pc' = "get"
    /\ cwd' = "old"
    /\ UNCHANGED <<cfg, created, ready, procVars, args, main_pc, time_up, generation_done,
                   exported, printed, genVars, timer>>

\* process_inputs returned: the generator and everything else are told to stop.
ProcessingReturns ==
    /\ run_pc = "process"
    /\ pc = "done"
    /\ outcome' = verdict
    /\ stop_ig' = TRUE
    /\ stop' = TRUE
    /\ run_pc' = "get"
    /\ UNCHANGED <<cfg, created, ready, procVars, args, main_pc, time_up, generation_done,
                   cwd, exported, printed, genVars, timer>>

\* process_inputs raised: no stop event is set, and what is not caught leaves run after its
\* finally clause.
ProcessingRaises ==
    /\ run_pc = "process"
    /\ pc = "failed"
    /\ run_pc' = "finally"
    /\ UNCHANGED <<processing, args, main_pc, time_up, outcome, generation_done, cwd, exported,
                   printed, genVars, timer, stop_ig>>

\* res.get(3), or the value itself if there is no AsyncResult.
GetGenerationResult ==
    /\ run_pc = "get"
    /\ ready
    /\ IF Parallel /\ gen_result = "raised"
       THEN run_pc' = "finally" /\ UNCHANGED generation_done
       ELSE run_pc' = "export" /\ generation_done' = TRUE
    /\ UNCHANGED <<processing, args, main_pc, time_up, outcome, cwd, exported, printed, genVars,
                   timer, stop_ig>>

\* TimeoutError after 3 s.  terminate() ends the pool's handlers, not the worker.
GetTimesOut ==
    /\ run_pc = "get"
    /\ Parallel /\ ~ready
    /\ run_pc' = "export"
    /\ generation_done' = FALSE
    /\ UNCHANGED <<processing, args, main_pc, time_up, outcome, cwd, exported, printed, genVars,
                   timer, stop_ig>>

\* Mutant of TestToExport: nothing is copied if the generator had to be abandoned.
TestOfFinishedRun == IF outcome = "FALSE" /\ generation_done THEN harness ELSE exported

TestToExport == IF outcome = "FALSE" THEN harness ELSE exported

\* Mutant of FinalOutcome: the verdict stays although the generator was abandoned.
OutcomeAnyway == outcome

FinalOutcome == IF outcome # "FALSE" /\ ~generation_done THEN "UNKNOWN" ELSE outcome

\* Back to the old directory; copy the test and its harness.  A CompileError of the
\* final a.out changes nothing that is modelled.
Export ==
    /\ run_pc = "export"
    /\ run_pc' = "finally"
    /\ cwd' = "old"
    /\ exported' = TestToExport
    /\ outcome' = FinalOutcome
    /\ UNCHANGED <<processing, args, main_pc, time_up, generation_done, printed, genVars, timer,
                   stop_ig>>

Finally ==
    /\ run_pc = "finally"
    /\ printed' = IF args.use_error_method THEN outcome ELSE "DONE"
    /\ run_pc' = "over"
    /\ cwd' = "old"
    /\ UNCHANGED <<processing, args, main_pc, time_up, outcome, generation_done, exported, genVars,
                   timer, stop_ig>>

RunNext ==
    \/ SetUp \/ AssertNotStopped \/ LaunchGenerator \/ ApplyReturns \/ CheckStop
    \/ Process \/ ProcessingReturns \/ ProcessingRaises
    \/ GetGenerationResult \/ GetTimesOut \/ Export \/ Finally

-----------------------------------------------------------------------------
(* The worker of the generator pool, and the tool *)

WorkerReturns(r) == worker' = "returned" /\ gen_result' = r /\ ready' = TRUE

\* Relative names are those of the directory the process is in now.
Astray == stray \/ cwd = "old"

\* Preprocessor and create_input_generation_cmds.  A parse error is a failed result,
\* any other error an exception of the call.  The prepared file has a relative name and is not
\* written if there is one already, as there may be in the old directory.
Prepare ==
    /\ worker = "prepare"
    /\ ~Exited
    /\ stray' \in {stray, Astray}
    /\ \/ worker' = "execute" /\ UNCHANGED <<gen_result, ready>>
       \/ \E r \in {"failure", "raised"} : WorkerReturns(r)
    /\ UNCHANGED <<cfg, created, stop, procVars, args, main_pc, time_up, runVars, cmd, tool,
                   orphans, timer, stop_ig>>

\* Popen in the current directory, which raises FileNotFoundError if the command does not exist.
Execute ==
    /\ worker = "execute"
    /\ ~Exited
    /\ \/ /\ worker' = "communicate"
          /\ tool' = "running"
          /\ stray' = Astray
          /\ UNCHANGED <<gen_result, ready>>
       \/ WorkerReturns("raised") /\ UNCHANGED <<tool, stray>>
    /\ UNCHANGED <<cfg, created, stop, procVars, args, main_pc, time_up, runVars, cmd, orphans,
                   timer, stop_ig>>

\* Mutant of CommandReturned: the worker does not wait for the tool.
CommandStarted == tool # "none"

\* p.communicate() has returned.
CommandReturned == Tool!Returnable

\* Mutant of IsLastCmd: one command too many.
IsBeyondLastCmd == cmd > NumCmds

IsLastCmd == cmd = NumCmds

\* communicate() has returned: the next command, unless this one failed by itself.
\* After a stop the remaining commands are started all the same.
CommandDone ==
    /\ worker = "communicate"
    /\ CommandReturned
    /\ ~Exited
    /\ UNCHANGED <<tool, orphans, stray>>
    /\ IF tool = "error" /\ ~IgStopIsSet
       THEN WorkerReturns("failure") /\ UNCHANGED cmd
       ELSE IF IsLastCmd
            THEN WorkerReturns("success") /\ UNCHANGED cmd
            ELSE cmd' = cmd + 1 /\ worker' = "execute" /\ UNCHANGED <<gen_result, ready>>
    /\ UNCHANGED <<cfg, created, stop, procVars, args, main_pc, time_up, runVars, timer,
                   stop_ig>>

WorkerNext == Prepare \/ Execute \/ CommandDone

\* wait_and_terminate kills the process it started.  Processes which that one started
\* live on and keep its output open, so that communicate() goes on waiting.
KillTool ==
    /\ ~Exited
    /\ UNCHANGED <<processing, args, main_pc, time_up, runVars, worker, cmd, gen_result, stray,
                   timer, stop_ig>>
    /\ Tool!Kill

\* The same may be left of a process that ends by itself; then nobody is killed any more.
ToolEnds ==
    /\ UNCHANGED <<processing, args, main_pc, time_up, runVars, worker, cmd, gen_result, stray,
                   timer, stop_ig>>
    /\ Tool!EndsItself \/ Tool!OrphansEnd

\* In the test directory, below the directory it was started in.
ToolCreatesTest ==
    /\ ~stray
    /\ tool = "running" \/ orphans
    /\ cmd = NumCmds
    /\ \E t \in Tests \ created : created' = created \cup {t}
    /\ UNCHANGED <<cfg, ready, stop, procVars, args, main_pc, time_up, runVars, genVars, timer,
                   stop_ig>>

\* Mutant of TimerFires: the timer is given stop_all_event.
TimerStopsAll ==
    /\ timer = "armed"
    /\ timer' = "fired"
    /\ stop' = TRUE
    /\ UNCHANGED <<cfg, created, ready, procVars, args, main_pc, time_up, runVars, genVars,
                   stop_ig>>

TimerFires ==
    /\ timer = "armed"
    /\ timer' = "fired"
    /\ stop_ig' = TRUE
    /\ UNCHANGED <<processing, args, main_pc, time_up, runVars, genVars>>

Next == TimeIsUp \/ MainNext \/ RunNext \/ WorkerNext \/ KillTool \/ ToolEnds
        \/ ToolCreatesTest \/ TimerFires

Spec == Init /\ [][Next]_vars

\* The threads of the process are scheduled and time passes.  The tool and what it
\* leaves behind owe nothing.
FairSpec ==
    /\ Spec
    /\ WF_vars(TimeIsUp) /\ WF_vars(TimerFires)
    /\ WF_vars(MainNext) /\ WF_vars(RunNext) /\ WF_vars(WorkerNext) /\ WF_vars(KillTool)

-----------------------------------------------------------------------------
(* Properties *)

\* The run thread, the generator and the stop events are an environment that
\* TestProcessing assumes: what is proved of it holds of every run of TBF.
RefinesProcessing == P!Spec

\* A printed FALSE comes with the copy of a test that a validator saw calling the error
\* method, also when the generator timed out, failed or raised (run, 426-451).
FalseIsExported == printed = "FALSE" => exported \in hits \cap Reaching[pass]

\* TRUE is never printed of a generator that may still create tests (run, 430-454).
TrueAfterGeneration == printed = "TRUE" => ready /\ hits = {}

\* The run thread leaves the work directory while the generator may still prepare the
\* program or start a command.  If it got the generator's result, the generator left
\* nothing outside (run: all created files are put in one directory; generate_input).
NothingStray == generation_done => ~stray

\* Documented of --ig-timelimit: after this limit, input generation stops and analysis
\* is performed with the inputs generated up to this point.  As long as --timelimit has
\* not expired, processing ends with every test handled or with a success, whether the
\* timer fired before, between or after the scans.
AnalysisAfterIgLimit ==
    (run_pc = "get" /\ ~time_up /\ pass \in P!Validators /\ hits = {}) => created \subseteq judged

\* --timelimit ends the run thread and prints a verdict, unless a run of a test hangs or
\* processes that the tool left behind keep the generator waiting.
TimelimitEndsRun == time_up ~> (run_pc = "over" \/ pc = "hung" \/ orphans)

\* --ig-timelimit ends input generation, with the same exception.
IgLimitEndsGeneration == timer = "fired" ~> (ready \/ orphans \/ Exited)

\* After the verdict, the process ends.
VerdictEndsProcess == printed # "none" ~> Exited

\* The message of main: a run that does not end within the limit of join is killed.
OverdueRunIsKilled == main_pc = "over" ~> Exited

-----------------------------------------------------------------------------
(* The inductive invariant *)

Ended == {"finally", "over"}

\* What the worker of the generator does tells what there can be of the tool and of tests;
\* no test is created once the generator has returned.
GeneratorIsOrderly ==
    /\ args.existing_tests_dir \/ run_pc \in {"setup", "assert", "launch"} => worker = "off"
    /\ ready <=> args.existing_tests_dir \/ worker = "returned"
    /\ worker \in {"off", "prepare"} => tool = "none"
    /\ worker # "communicate" => tool # "running" /\ ~orphans
    /\ gen_result = "raised" => worker = "returned"
    /\ ~args.existing_tests_dir /\ created # {} =>
           worker \in {"communicate", "returned"} /\ cmd = NumCmds /\ gen_result # "raised"

\* Before the run thread has called process_inputs, nobody asks it to stop but for the
\* time limit.
StopIsJustified ==
    /\ main_pc # "poll" => time_up \/ run_pc = "over"
    /\ stop => time_up \/ run_pc \in {"get", "export"} \cup Ended

\* The current directory is the old one only at the beginning and at the end.
WorkDirectory ==
    /\ run_pc \notin {"setup"} \cup Ended => cwd = "work"
    /\ stray => run_pc \in Ended

\* What is printed goes back to the verdict of process_inputs, at each step of the way.
OutcomeIsVerdict ==
    /\ run_pc \in {"setup", "assert", "launch", "generating", "check_stop", "process"} =>
           outcome = "UNKNOWN" /\ ~generation_done
    /\ run_pc \in {"get", "export"} => pc = "done" /\ outcome = verdict
    /\ run_pc = "get" => ~generation_done
    /\ generation_done => ready /\ ~stray
    /\ run_pc \in Ended /\ outcome = "FALSE" => pc = "done" /\ verdict = "FALSE" /\ exported = harness
    /\ run_pc \in Ended /\ outcome = "TRUE" => pc = "done" /\ verdict = "TRUE" /\ ready
    /\ printed # "none" => run_pc = "over" /\ printed \in {"DONE", outcome}

\* As AnalysisAfterIgLimit; the generator has returned, so that it stays true.
AnalysisIsComplete ==
    run_pc = "get" /\ ~time_up /\ pass \in P!Validators /\ hits = {} =>
        ready /\ created \subseteq judged

\* The conjunction that every step preserves (TbfRunProofs).
RunInv ==
    /\ TypeOK
    /\ P!ProcessingInv
    /\ GeneratorIsOrderly /\ StopIsJustified /\ WorkDirectory
    /\ OutcomeIsVerdict /\ AnalysisIsComplete
=============================================================================
