--------------------------- MODULE ProcessExecution ---------------------------
(***************************************************************************)
(* tbf/utils.py: one call of execute.  The caller starts the process and   *)
(* a waiter thread (wait_and_terminate), and reads the output until its    *)
(* end.  The waiter polls the process, the stop flag and a stopwatch, and  *)
(* kills the process.  Processes that the process starts inherit its pipe: *)
(* as long as one of them lives, the output has no end.                    *)
(*                                                                         *)
(* Time advances in ticks.  The waiter sleeps for a millisecond: it looks  *)
(* at the stopwatch at least once per tick.  What the process writes is    *)
(* left out.                                                               *)
(***************************************************************************)
EXTENDS Naturals

CONSTANTS
    Limits,          \* the time limits in seconds; 0 is none
    TicksPerSecond,
    MaxTicks,        \* bound on the time that is looked at
    MaxChildren      \* bound on the processes that live beside the one that is started

ASSUME ExecutionAssumption ==
    /\ Limits \subseteq Nat
    /\ TicksPerSecond \in Nat \ {0}
    /\ MaxTicks \in Nat /\ MaxChildren \in Nat

VARIABLES
    timelimit,  \* argument
    has_flag,   \* argument stop_flag is given
    stop,       \* stop_flag.is_set()
    caller,     \* where execute is
    waiter,     \* where wait_and_terminate is
    process,    \* the process: "none", "running" or its return code
    children,   \* the number of other processes that hold the pipe
    ticks,      \* the time on the stopwatch
    looked,     \* the waiter has completed an iteration since the last tick
    killed_at,  \* history: the time of a kill by the waiter; 0 if there was none
    returned    \* ExecutionResult.returncode

vars == <<timelimit, has_flag, stop, caller, waiter, process, children, ticks, looked,
          killed_at, returned>>

\* Every variable stays in its domain.
TypeOK ==
    /\ timelimit \in Limits
    /\ has_flag \in BOOLEAN
    /\ stop \in BOOLEAN
    /\ caller \in {"start", "started", "communicate", "returned", "raised"}
    /\ waiter \in {"off", "poll", "check", "kill", "over"}
    /\ process \in {"none", "running", "ok", "error"}
    /\ children \in 0..MaxChildren
    /\ ticks \in 0..MaxTicks
    /\ looked \in BOOLEAN
    /\ killed_at \in 0..MaxTicks
    /\ returned \in {"none", "ok", "error"}

Init ==
    /\ timelimit \in Limits
    /\ has_flag \in BOOLEAN
    /\ stop \in BOOLEAN
    /\ caller = "start" /\ waiter = "off" /\ process = "none" /\ children = 0
    /\ ticks = 0 /\ looked = FALSE /\ killed_at = 0 /\ returned = "none"

-----------------------------------------------------------------------------
(* execute *)

\* Popen raises FileNotFoundError if the command does not exist.
Popen ==
    /\ caller = "start"
    /\ \/ caller' = "started" /\ process' = "running"
       \/ caller' = "raised" /\ UNCHANGED process
    /\ UNCHANGED <<timelimit, has_flag, stop, waiter, children, ticks, looked, killed_at, returned>>

\* waiter.start(); from here on the stopwatch runs.
StartWaiter ==
    /\ caller = "started"
    /\ caller' = "communicate"
    /\ waiter' = "poll"
    /\ UNCHANGED <<timelimit, has_flag, stop, process, children, ticks, looked, killed_at, returned>>

\* Mutant of OutputEnds: the return code is asked for without waiting for the process.
OutputIsClosed == children = 0

\* Mutant of OutputEnds: communicate does not wait for the processes left behind.
ProcessEnds == process \notin {"none", "running"}

\* communicate reads until the pipe is closed by everybody, and waits for the process.
OutputEnds == process \notin {"none", "running"} /\ children = 0

Return ==
    /\ caller = "communicate"
    /\ OutputEnds
    /\ caller' = "returned"
    /\ returned' = process
    /\ UNCHANGED <<timelimit, has_flag, stop, waiter, process, children, ticks, looked, killed_at>>

-----------------------------------------------------------------------------
(* wait_and_terminate *)

\* Mutant of Poll: returncode is not assigned in the loop.
PollForgotten ==
    /\ waiter = "poll"
    /\ waiter' = "check"
    /\ UNCHANGED <<timelimit, has_flag, stop, caller, process, children, ticks, looked,
                   killed_at, returned>>

\* process.poll() and the loop condition.
Poll ==
    /\ waiter = "poll"
    /\ waiter' = IF process = "running" THEN "check" ELSE "over"
    /\ UNCHANGED <<timelimit, has_flag, stop, caller, process, children, ticks, looked,
                   killed_at, returned>>

\* Stopwatch.curr_s: whole seconds, rounded down.
curr_s == ticks \div TicksPerSecond

TimeIsOver == timelimit # 0 /\ curr_s > timelimit

\* Mutant of ToldToStop: the time limit is only for calls without a stop flag.
FlagOrTime == IF has_flag THEN stop ELSE TimeIsOver

ToldToStop == (has_flag /\ stop) \/ TimeIsOver

Check ==
    /\ waiter = "check"
    /\ waiter' = IF ToldToStop THEN "kill" ELSE "poll"
    /\ looked' = ~ToldToStop
    /\ UNCHANGED <<timelimit, has_flag, stop, caller, process, children, ticks, killed_at, returned>>

\* shut_down.  The process may have ended since it was polled; killing it is then nothing.
ShutDown ==
    /\ waiter = "kill"
    /\ waiter' = "over"
    /\ looked' = TRUE
    /\ IF process = "running"
       THEN process' = "error" /\ killed_at' = ticks
       ELSE UNCHANGED <<process, killed_at>>
    /\ UNCHANGED <<timelimit, has_flag, stop, caller, children, ticks, returned>>

-----------------------------------------------------------------------------
(* The world *)

\* Time only matters to a call with a time limit.
Tick ==
    /\ timelimit # 0
    /\ ticks < MaxTicks
    /\ looked
    /\ ticks' = ticks + 1
    /\ looked' = (waiter = "over")
    /\ UNCHANGED <<timelimit, has_flag, stop, caller, waiter, process, children, killed_at, returned>>

SetStop ==
    /\ ~stop
    /\ stop' = TRUE
    /\ UNCHANGED <<timelimit, has_flag, caller, waiter, process, children, ticks, looked,
                   killed_at, returned>>

ProcessExits ==
    /\ process = "running"
    /\ process' \in {"ok", "error"}
    /\ UNCHANGED <<timelimit, has_flag, stop, caller, waiter, children, ticks, looked,
                   killed_at, returned>>

Fork ==
    /\ process = "running" \/ children > 0
    /\ children < MaxChildren
    /\ children' = children + 1
    /\ UNCHANGED <<timelimit, has_flag, stop, caller, waiter, process, ticks, looked,
                   killed_at, returned>>

\* A child ends, or closes what it inherited.
ChildExits ==
    /\ children > 0
    /\ children' = children - 1
    /\ UNCHANGED <<timelimit, has_flag, stop, caller, waiter, process, ticks, looked,
                   killed_at, returned>>

CallerNext == Popen \/ StartWaiter \/ Return
WaiterNext == Poll \/ Check \/ ShutDown
WorldNext  == Tick \/ SetStop \/ ProcessExits \/ Fork \/ ChildExits

Next == CallerNext \/ WaiterNext \/ WorldNext

Spec == Init /\ [][Next]_vars

\* Both threads are scheduled; processes and the stop flag owe nothing.
FairSpec == Spec /\ WF_vars(CallerNext) /\ WF_vars(WaiterNext) /\ WF_vars(Tick)

-----------------------------------------------------------------------------
(* Properties *)

\* What TbfRun takes the call for.
Call == INSTANCE ToolProcess WITH
    told    <- ToldToStop,
    tool    <- process,
    orphans <- process \notin {"none", "running"} /\ children > 0,
    result  <- IF caller = "raised" THEN "raised" ELSE returned

\* A call is one of the abstract process, whatever the order in which the process ends,
\* the stop flag is set, the time is over, the waiter polls and children end; a process
\* that is to be killed does not live on (execute, wait_and_terminate).
ImplementsCall == Call!FairSpec

\* A process gets its whole time limit, and does not live on when one second more is over;
\* it is only killed earlier if the caller's stop flag is set (wait_and_terminate, curr_s).
LimitIsKept ==
    timelimit # 0 =>
        /\ process = "running" => ticks <= (timelimit + 1) * TicksPerSecond
        /\ killed_at # 0 /\ ~(has_flag /\ stop) => killed_at >= timelimit * TicksPerSecond

\* No waiter thread lives on after the call: it would keep TBF from exiting
\* (wait_and_terminate).
WaiterEnds == caller = "returned" ~> waiter = "over"

-----------------------------------------------------------------------------
(* The inductive invariant *)

\* How far the caller is tells what there can be: a process, a waiter, a result.
CallIsOrderly ==
    /\ process = "none" <=> caller \in {"start", "raised"}
    /\ process = "none" => children = 0
    /\ waiter = "off" <=> caller \in {"start", "started", "raised"}
    /\ returned # "none" <=> caller = "returned"
    /\ caller = "returned" => process # "running" /\ children = 0

\* The waiter gives up a running process only for a reason, which does not go away.
WaiterIsJustified ==
    /\ waiter = "kill" => ToldToStop
    /\ waiter = "over" => process # "running"

\* Time goes on only where the waiter has seen that the limit is not reached.
TimeIsWatched ==
    /\ waiter = "off" => ticks = 0 /\ ~looked
    /\ looked => waiter = "over" \/ ~TimeIsOver

\* The conjunction that every step preserves (ProcessExecutionProofs).
ExecutionInv ==
    /\ TypeOK
    /\ CallIsOrderly /\ WaiterIsJustified /\ TimeIsWatched
    /\ LimitIsKept
=============================================================================
