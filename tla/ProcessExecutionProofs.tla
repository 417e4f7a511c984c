----------------------- MODULE ProcessExecutionProofs -----------------------
(* Proofs about ProcessExecution, for every set of time limits, every      *)
(* length of a second and every bound on time and on processes.            *)
EXTENDS ProcessExecution, TLAPS

-----------------------------------------------------------------------------
(* Lemmas about time *)

\* Rounding down to whole seconds: a time is later than second k iff it has reached k + 1.
LEMMA WholeSeconds ==
  ASSUME NEW n \in Nat, NEW d \in Nat \ {0}, NEW k \in Nat
  PROVE  n \div d > k <=> n >= (k + 1) * d
  <1> DEFINE q == n \div d
             r == n % d
  <1>1. q \in Nat /\ r \in Nat /\ r < d /\ n = d * q + r
    OBVIOUS
  <1> HIDE DEF q, r
  <1>2. CASE q > k
    <2>1. q - (k + 1) \in Nat
      BY <1>1, <1>2
    <2>2. (q - (k + 1)) * d >= 0
      BY <2>1
    <2>3. (q - (k + 1)) * d = d * q - (k + 1) * d
      BY <1>1
    <2> QED
      BY <1>1, <1>2, <2>2, <2>3 DEF q
  <1>3. CASE ~(q > k)
    <2>1. k - q \in Nat
      BY <1>1, <1>3
    <2>2. (k - q) * d >= 0
      BY <2>1
    <2>3. (k - q) * d = (k + 1) * d - d * q - d
      BY <1>1
    <2> QED
      BY <1>1, <1>3, <2>2, <2>3 DEF q
  <1> QED
    BY <1>2, <1>3

\* The stopwatch is over the limit when a second more than the limit has passed.
LEMMA TimeIsOverIffSecondMore ==
  ASSUME TypeOK
  PROVE  TimeIsOver <=> timelimit # 0 /\ ticks >= (timelimit + 1) * TicksPerSecond
  BY WholeSeconds, ExecutionAssumption DEF TypeOK, TimeIsOver, curr_s

\* Once a waiter has been told to stop, it stays told: flags are not cleared and time does
\* not run backwards.
LEMMA ToldForGood == TypeOK /\ TypeOK' /\ [Next]_vars /\ ToldToStop => ToldToStop'
  <1> SUFFICES ASSUME TypeOK, TypeOK', [Next]_vars, ToldToStop
               PROVE  ToldToStop'
    OBVIOUS
  <1>1. /\ timelimit' = timelimit /\ has_flag' = has_flag /\ (stop => stop')
        /\ ticks' >= ticks
    BY ExecutionAssumption
    DEF TypeOK, Next, CallerNext, WaiterNext, WorldNext, Popen, StartWaiter, Return, Poll,
        Check, ShutDown, Tick, SetStop, ProcessExits, Fork, ChildExits, vars
  <1>2. TimeIsOver => TimeIsOver'
    <2>1. TimeIsOver' <=> timelimit' # 0 /\ ticks' >= (timelimit' + 1) * TicksPerSecond
      <3>1. ticks' \in Nat /\ timelimit' \in Nat
        BY ExecutionAssumption DEF TypeOK
      <3>2. ticks' \div TicksPerSecond > timelimit' <=>
              ticks' >= (timelimit' + 1) * TicksPerSecond
        BY <3>1, WholeSeconds, ExecutionAssumption
      <3> QED
        BY <3>2 DEF TimeIsOver, curr_s
    <2> DEFINE limit == (timelimit + 1) * TicksPerSecond
    <2>2. limit \in Nat /\ ticks \in Nat /\ ticks' \in Nat
      BY ExecutionAssumption DEF TypeOK
    <2> HIDE DEF limit
    <2> QED
      BY <1>1, <2>1, <2>2, TimeIsOverIffSecondMore DEF limit
  <1> QED
    BY <1>1, <1>2 DEF ToldToStop

-----------------------------------------------------------------------------
(* The inductive invariant *)

\* The initial states satisfy it.
LEMMA InitImpliesInv == Init => ExecutionInv
  <1> SUFFICES ASSUME Init
               PROVE  ExecutionInv
    OBVIOUS
  <1>1. TypeOK
    <2>1. 0 \in 0..MaxTicks /\ 0 \in 0..MaxChildren
      BY ExecutionAssumption
    <2> QED
      BY <2>1 DEF Init, TypeOK
  <1>2. CallIsOrderly /\ WaiterIsJustified /\ TimeIsWatched
    BY DEF Init, CallIsOrderly, WaiterIsJustified, TimeIsWatched
  <1>3. LimitIsKept
    BY DEF Init, LimitIsKept
  <1> QED
    BY <1>1, <1>2, <1>3 DEF ExecutionInv

\* Every step of the two threads, of time and of processes preserves type correctness.
LEMMA NextPreservesType == TypeOK /\ [Next]_vars => TypeOK'
  <1> SUFFICES ASSUME TypeOK, [Next]_vars
               PROVE  TypeOK'
    OBVIOUS
  <1> USE ExecutionAssumption DEF TypeOK
  <1>1. CASE CallerNext
    BY <1>1 DEF CallerNext, Popen, StartWaiter, Return, OutputEnds
  <1>2. CASE Poll \/ Check
    BY <1>2 DEF Poll, Check
  <1>3. CASE ShutDown
    BY <1>3 DEF ShutDown
  <1>4. CASE Tick
    BY <1>4 DEF Tick
  <1>5. CASE SetStop \/ ProcessExits
    BY <1>5, ZenonT(30) DEF SetStop, ProcessExits
  <1>6. CASE Fork \/ ChildExits
    BY <1>6 DEF Fork, ChildExits
  <1>7. CASE UNCHANGED vars
    BY <1>7 DEF vars
  <1> QED
    BY <1>1, <1>2, <1>3, <1>4, <1>5, <1>6, <1>7 DEF Next, WaiterNext, WorldNext

\* They preserve the inductive invariant.
LEMMA NextPreservesInv == ExecutionInv /\ [Next]_vars => ExecutionInv'
  <1> SUFFICES ASSUME ExecutionInv, [Next]_vars
               PROVE  ExecutionInv'
    OBVIOUS
  <1>1. TypeOK /\ TypeOK'
    BY NextPreservesType DEF ExecutionInv
  <1>2. CallIsOrderly'
    BY <1>1, ExecutionAssumption
    DEF ExecutionInv, TypeOK, CallIsOrderly, Next, CallerNext, WaiterNext, WorldNext, Popen,
        StartWaiter, Return, OutputEnds, Poll, Check, ShutDown, Tick, SetStop, ProcessExits,
        Fork, ChildExits, vars
  <1>3. WaiterIsJustified'
    <2>1. waiter' = "kill" => ToldToStop
      BY <1>1
      DEF ExecutionInv, WaiterIsJustified, Next, CallerNext, WaiterNext, WorldNext, Popen,
          StartWaiter, Return, Poll, Check, ShutDown, Tick, SetStop, ProcessExits, Fork,
          ChildExits, vars
    <2>2. ToldToStop => ToldToStop'
      BY <1>1, ToldForGood
    <2>3. waiter' = "over" => process' # "running"
      BY <1>1
      DEF ExecutionInv, WaiterIsJustified, CallIsOrderly, Next, CallerNext, WaiterNext,
          WorldNext, Popen, StartWaiter, Return, Poll, Check, ShutDown, Tick, SetStop,
          ProcessExits, Fork, ChildExits, vars
    <2> QED
      BY <2>1, <2>2, <2>3 DEF WaiterIsJustified
  <1>4. TimeIsWatched'
    <2>1. CASE Check
      <3>1. UNCHANGED <<timelimit, ticks>> /\ waiter = "check" /\ waiter' # "off"
        BY <2>1 DEF Check
      <3>2. TimeIsOver' = TimeIsOver
        BY <3>1 DEF TimeIsOver, curr_s
      <3>3. looked' => ~TimeIsOver
        BY <2>1 DEF Check, ToldToStop
      <3> QED
        BY <3>1, <3>2, <3>3 DEF TimeIsWatched
    <2>2. CASE Tick
      BY <2>2 DEF ExecutionInv, Tick, TimeIsWatched
    <2>3. CASE ShutDown
      BY <2>3 DEF ShutDown, TimeIsWatched
    <2>4. CASE Popen \/ StartWaiter \/ Return \/ Poll \/ SetStop \/ ProcessExits \/ Fork
                \/ ChildExits \/ UNCHANGED vars
      <3>1. UNCHANGED <<timelimit, ticks, looked>>
        BY <2>4 DEF Popen, StartWaiter, Return, Poll, SetStop, ProcessExits, Fork, ChildExits,
                    vars
      <3>2. TimeIsOver' = TimeIsOver
        BY <3>1 DEF TimeIsOver, curr_s
      <3>3. waiter' = "off" => waiter = "off"
        BY <2>4 DEF Popen, StartWaiter, Return, Poll, SetStop, ProcessExits, Fork, ChildExits,
                    vars
      <3>4. waiter = "over" => waiter' = "over"
        BY <2>4 DEF ExecutionInv, CallIsOrderly, Popen, StartWaiter, Return, Poll, SetStop,
                    ProcessExits, Fork, ChildExits, vars
      <3> QED
        BY <3>1, <3>2, <3>3, <3>4 DEF ExecutionInv, TimeIsWatched
    <2> QED
      BY <2>1, <2>2, <2>3, <2>4 DEF Next, CallerNext, WaiterNext, WorldNext
  <1>5. LimitIsKept'
    <2> DEFINE over  == (timelimit + 1) * TicksPerSecond
               limit == timelimit * TicksPerSecond
    <2>1. over \in Nat /\ limit \in Nat /\ over > limit
      BY <1>1, ExecutionAssumption DEF TypeOK
    <2>2. TimeIsOver <=> timelimit # 0 /\ ticks >= over
      BY <1>1, TimeIsOverIffSecondMore
    <2>3. ticks \in Nat /\ killed_at \in Nat
      BY <1>1, ExecutionAssumption DEF TypeOK
    <2>4. timelimit' = timelimit /\ has_flag' = has_flag /\ (stop => stop')
      BY <1>1
      DEF TypeOK, Next, CallerNext, WaiterNext, WorldNext, Popen, StartWaiter, Return, Poll,
          Check, ShutDown, Tick, SetStop, ProcessExits, Fork, ChildExits, vars
    <2>5. LimitIsKept <=> (timelimit # 0 =>
                             /\ process = "running" => ticks <= over
                             /\ killed_at # 0 /\ ~(has_flag /\ stop) => killed_at >= limit)
      BY DEF LimitIsKept
    <2>6. LimitIsKept' <=> (timelimit # 0 =>
                              /\ process' = "running" => ticks' <= over
                              /\ killed_at' # 0 /\ ~(has_flag /\ stop') => killed_at' >= limit)
      BY <2>4 DEF LimitIsKept
    <2> HIDE DEF over, limit
    <2>7. CASE Tick
      <3>1. timelimit # 0 /\ process = "running" => ticks < over
        BY <1>1, <2>1, <2>2, <2>3, <2>7
        DEF ExecutionInv, TimeIsWatched, WaiterIsJustified, Tick
      <3> QED
        BY <2>1, <2>3, <2>5, <2>6, <2>7, <3>1 DEF ExecutionInv, Tick
    <2>8. CASE ShutDown
      <3>1. ~(has_flag /\ stop) => ticks >= limit
        BY <2>1, <2>2, <2>3, <2>8
        DEF ExecutionInv, WaiterIsJustified, ToldToStop, ShutDown
      <3> QED
        BY <2>1, <2>3, <2>5, <2>6, <2>8, <3>1 DEF ExecutionInv, ShutDown
    <2>9. CASE Popen
      <3>1. ticks = 0
        BY <2>9 DEF ExecutionInv, CallIsOrderly, TimeIsWatched, Popen
      <3> QED
        BY <2>1, <2>3, <2>5, <2>6, <2>9, <3>1 DEF ExecutionInv, Popen
    <2>10. CASE StartWaiter \/ Return \/ Poll \/ Check \/ SetStop \/ ProcessExits \/ Fork
                \/ ChildExits \/ UNCHANGED vars
      BY <2>4, <2>5, <2>6, <2>10
      DEF ExecutionInv, StartWaiter, Return, Poll, Check, SetStop, ProcessExits, Fork,
          ChildExits, vars
    <2> QED
      BY <2>7, <2>8, <2>9, <2>10 DEF Next, CallerNext, WaiterNext, WorldNext
  <1> QED
    BY <1>1, <1>2, <1>3, <1>4, <1>5 DEF ExecutionInv

\* The inductive invariant, type correctness included, holds in whatever order the waiter
\* polls, the process and its children end, and the flag is set.
THEOREM ExecutionCorrect == Spec => []ExecutionInv
  <1>1. Init => ExecutionInv
    BY InitImpliesInv
  <1>2. ExecutionInv /\ [Next]_vars => ExecutionInv'
    BY NextPreservesInv
  <1> QED
    BY <1>1, <1>2, PTL DEF Spec

\* A process gets its whole time limit and does not live on when one second more is over,
\* unless the stop flag is set (wait_and_terminate, Stopwatch.curr_s).
THEOREM LimitKept == Spec => []LimitIsKept
  <1>1. ExecutionInv => LimitIsKept
    BY DEF ExecutionInv
  <1> QED
    BY <1>1, ExecutionCorrect, PTL

-----------------------------------------------------------------------------
(* Refinement *)

\* The initial states are initial states of the abstract call.
LEMMA InitRefines == Init => Call!Init
  BY DEF Init, Call!Init, ToldToStop, TimeIsOver

\* Every step is a step of the abstract call or changes nothing it sees.
LEMMA NextRefines == ExecutionInv /\ [Next]_vars => [Call!Next]_(Call!vars)
  <1> SUFFICES ASSUME ExecutionInv, [Next]_vars
               PROVE  [Call!Next]_(Call!vars)
    OBVIOUS
  <1>0. TypeOK /\ TypeOK'
    BY NextPreservesType DEF ExecutionInv
  <1> DEFINE Left == process \notin {"none", "running"} /\ children > 0
             Result == IF caller = "raised" THEN "raised" ELSE returned
  <1>1. ASSUME UNCHANGED <<timelimit, has_flag, stop, ticks>>
        PROVE  ToldToStop' = ToldToStop
    BY <1>1 DEF ToldToStop, TimeIsOver, curr_s
  <1>2. CASE Popen
    <2>1. ToldToStop' = ToldToStop
      BY <1>1, <1>2 DEF Popen
    <2>2. process = "none" /\ Result = "none"
      BY <1>2 DEF ExecutionInv, CallIsOrderly, Popen
    <2>3. CASE caller' = "started" /\ process' = "running"
      <3>1. Left' = Left /\ Result' = Result
        BY <1>2, <2>2, <2>3 DEF Popen
      <3>2. Call!Start
        BY <2>1, <2>2, <2>3, <3>1 DEF Call!Start
      <3> QED
        BY <3>2 DEF Call!Next
    <2>4. CASE caller' = "raised" /\ UNCHANGED process
      <3>1. Left' = Left /\ Result' = "raised"
        BY <1>2, <2>4 DEF Popen
      <3>2. Call!CannotStart
        BY <2>1, <2>2, <2>4, <3>1 DEF Call!CannotStart
      <3> QED
        BY <3>2 DEF Call!Next
    <2> QED
      BY <1>2, <2>3, <2>4 DEF Popen
  <1>3. CASE StartWaiter \/ Poll \/ Check
    <2>1. ToldToStop' = ToldToStop
      BY <1>1, <1>3 DEF StartWaiter, Poll, Check
    <2>2. UNCHANGED <<process, children>> /\ Result' = Result
      BY <1>3 DEF StartWaiter, Poll, Check
    <2> QED
      BY <2>1, <2>2 DEF Call!vars
  <1>4. CASE Return
    <2>1. ToldToStop' = ToldToStop
      BY <1>1, <1>4 DEF Return
    <2>2. process \in {"ok", "error"} /\ ~Left /\ Left' = Left /\ process' = process
      BY <1>0, <1>4 DEF TypeOK, Return, OutputEnds
    <2>3. Result = "none" /\ Result' = process
      BY <1>4 DEF ExecutionInv, CallIsOrderly, Return
    <2>4. Call!Return
      BY <2>1, <2>2, <2>3 DEF Call!Return, Call!Returnable
    <2> QED
      BY <2>4 DEF Call!Next
  <1>5. CASE ShutDown
    <2>1. ToldToStop' = ToldToStop
      BY <1>1, <1>5 DEF ShutDown
    <2>2. ToldToStop
      BY <1>5 DEF ExecutionInv, WaiterIsJustified, ShutDown
    <2>3. Result' = Result /\ UNCHANGED children
      BY <1>5 DEF ShutDown
    <2>4. CASE process = "running"
      <3>1. process' = "error" /\ Left' \in BOOLEAN
        BY <1>5, <2>4 DEF ShutDown
      <3>2. Call!Kill
        BY <2>1, <2>2, <2>3, <2>4, <3>1 DEF Call!Kill
      <3> QED
        BY <3>2 DEF Call!Next
    <2>5. CASE process # "running"
      <3>1. UNCHANGED process
        BY <1>5, <2>5 DEF ShutDown
      <3> QED
        BY <2>1, <2>3, <3>1 DEF Call!vars
    <2> QED
      BY <2>4, <2>5
  <1>6. CASE Tick \/ SetStop
    <2>1. UNCHANGED <<process, children>> /\ Result' = Result
      BY <1>6 DEF Tick, SetStop
    <2>2. CASE ToldToStop'
      <3>1. Call!Tell
        BY <2>1, <2>2 DEF Call!Tell
      <3> QED
        BY <3>1 DEF Call!Next
    <2>3. CASE ~ToldToStop'
      <3>1. ~ToldToStop
        BY <1>0, <2>3, ToldForGood
      <3>2. ToldToStop' = ToldToStop
        BY <2>3, <3>1 DEF ToldToStop
      <3> QED
        BY <2>1, <3>2 DEF Call!vars
    <2> QED
      BY <2>2, <2>3
  <1>7. CASE ProcessExits
    <2>1. ToldToStop' = ToldToStop
      BY <1>1, <1>7 DEF ProcessExits
    <2>2. /\ process = "running" /\ process' \in {"ok", "error"}
          /\ Left' \in BOOLEAN /\ Result' = Result
      BY <1>7 DEF ProcessExits
    <2>3. Call!EndsItself
      BY <2>1, <2>2 DEF Call!EndsItself
    <2> QED
      BY <2>3 DEF Call!Next
  <1>8. CASE Fork
    <2>1. ToldToStop' = ToldToStop
      BY <1>1, <1>8 DEF Fork
    <2>2. UNCHANGED process /\ Result' = Result /\ Left' = Left
      BY <1>0, <1>8 DEF TypeOK, Fork
    <2> QED
      BY <2>1, <2>2 DEF Call!vars
  <1>9. CASE ChildExits
    <2>1. ToldToStop' = ToldToStop
      BY <1>1, <1>9 DEF ChildExits
    <2>2. UNCHANGED process /\ Result' = Result
      BY <1>9 DEF ChildExits
    <2>3. CASE Left /\ ~Left'
      <3>1. Call!OrphansEnd
        BY <2>1, <2>2, <2>3 DEF Call!OrphansEnd
      <3> QED
        BY <3>1 DEF Call!Next
    <2>4. CASE Left' = Left
      BY <2>1, <2>2, <2>4 DEF Call!vars
    <2>5. Left' => Left
      BY <1>0, <1>9 DEF TypeOK, ChildExits
    <2> QED
      BY <2>3, <2>4, <2>5
  <1>10. CASE UNCHANGED vars
    <2>1. ToldToStop' = ToldToStop
      BY <1>1, <1>10 DEF vars
    <2> QED
      BY <1>10, <2>1 DEF vars, Call!vars
  <1> QED
    BY <1>2, <1>3, <1>4, <1>5, <1>6, <1>7, <1>8, <1>9, <1>10
    DEF Next, CallerNext, WaiterNext, WorldNext

\* A call of execute is one of the abstract process: what it returns is what the process
\* ended with, once nobody holds its pipe, and the process is only killed after somebody
\* said so (execute, wait_and_terminate).
THEOREM ImplementsSafely == Spec => Call!Spec
  <1>1. Init => Call!Init
    BY InitRefines
  <1>2. ExecutionInv /\ [Next]_vars => [Call!Next]_(Call!vars)
    BY NextRefines
  <1> QED
    BY <1>1, <1>2, ExecutionCorrect, PTL DEF Spec, Call!Spec
=============================================================================
