----------------------------- MODULE ToolProcess -----------------------------
(***************************************************************************)
(* What a call of utils.execute promises to its caller, without the waiter *)
(* thread, its polling and its clock: a process runs until it ends by      *)
(* itself or, after somebody said so, is killed; the call returns what the *)
(* process ended with, once nobody holds the pipe of its output any more.  *)
(* TbfRun uses these actions for the commands of a tool, ProcessExecution  *)
(* implements them.                                                        *)
(***************************************************************************)

VARIABLES
    told,     \* the process is to be killed: stop flag or time limit
    tool,     \* "none", "running", or what the process ended with
    orphans,  \* it has ended, and left processes behind that hold its pipe
    result    \* what the call returned

vars == <<told, tool, orphans, result>>

Init ==
    /\ told \in BOOLEAN
    /\ tool = "none"
    /\ orphans = FALSE
    /\ result = "none"

Tell == told' = TRUE /\ UNCHANGED <<tool, orphans, result>>

Start ==
    /\ tool = "none"
    /\ tool' = "running"
    /\ UNCHANGED <<told, orphans, result>>

\* There is no such command.
CannotStart ==
    /\ tool = "none"
    /\ result = "none"
    /\ result' = "raised"
    /\ UNCHANGED <<told, tool, orphans>>

EndsItself ==
    /\ tool = "running"
    /\ tool' \in {"ok", "error"}
    /\ orphans' \in BOOLEAN
    /\ UNCHANGED <<told, result>>

\* Only the process itself is killed.
Kill ==
    /\ told
    /\ tool = "running"
    /\ tool' = "error"
    /\ orphans' \in BOOLEAN
    /\ UNCHANGED <<told, result>>

OrphansEnd ==
    /\ orphans
    /\ orphans' = FALSE
    /\ UNCHANGED <<told, tool, result>>

Returnable == tool \in {"ok", "error"} /\ ~orphans

Return ==
    /\ Returnable
    /\ result = "none"
    /\ result' = tool
    /\ UNCHANGED <<told, tool, orphans>>

Next == Tell \/ Start \/ CannotStart \/ EndsItself \/ Kill \/ OrphansEnd \/ Return

Spec == Init /\ [][Next]_vars

\* Who is told to kill does so, and the call returns.  The process and what it leaves
\* behind owe nothing.
FairSpec == Spec /\ WF_vars(Kill) /\ WF_vars(Return)
=============================================================================
