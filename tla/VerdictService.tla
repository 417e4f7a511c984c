--------------------------- MODULE VerdictService ---------------------------
(***************************************************************************)
(* What a pass over the test cases promises to the caller of               *)
(* process_inputs, without polling, batches or the visited set: tests are  *)
(* published until the publisher closes or somebody cancels, each is       *)
(* examined at most once per round, and one verdict is announced that the  *)
(* examinations justify.                                                   *)
(***************************************************************************)

CONSTANT Tests

VARIABLES
    published,  \* tests that exist
    closed,     \* no more tests will be published
    cancelled,  \* somebody asked for an end
    examined,   \* tests examined in this round
    positive,   \* tests found to reach the error method
    verdict     \* "none" until one is announced

vars == <<published, closed, cancelled, examined, positive, verdict>>

Init ==
    /\ published \in SUBSET Tests
    /\ closed \in BOOLEAN
    /\ cancelled = FALSE
    /\ examined = {}
    /\ positive = {}
    /\ verdict = "none"

Publish(t) ==
    /\ ~closed
    /\ published' = published \cup {t}
    /\ UNCHANGED <<closed, cancelled, examined, positive, verdict>>

Close ==
    /\ closed' = TRUE
    /\ UNCHANGED <<published, cancelled, examined, positive, verdict>>

Cancel ==
    /\ cancelled' = TRUE
    /\ UNCHANGED <<published, closed, examined, positive, verdict>>

Examine(t) ==
    /\ verdict = "none"
    /\ t \in published \ examined
    /\ examined' = examined \cup {t}
    /\ positive' \in {positive, positive \cup {t}}
    /\ UNCHANGED <<published, closed, cancelled, verdict>>

\* A second validator starts over, but only if the first one found nothing.
Restart ==
    /\ verdict = "none"
    /\ positive = {}
    /\ examined' = {}
    /\ UNCHANGED <<published, closed, cancelled, positive, verdict>>

Complete == closed /\ published \subseteq examined

Announce ==
    /\ verdict = "none"
    /\ \/ positive # {} /\ verdict' = "FALSE"
       \/ positive = {} /\ (Complete \/ cancelled) /\ verdict' \in {"TRUE", "UNKNOWN"}
    /\ UNCHANGED <<published, closed, cancelled, examined, positive>>

Next ==
    \/ \E t \in Tests : Publish(t) \/ Examine(t)
    \/ Close \/ Cancel \/ Restart \/ Announce

Spec == Init /\ [][Next]_vars
=============================================================================
