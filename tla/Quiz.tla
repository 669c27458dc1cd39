-------------------------------- MODULE Quiz --------------------------------
(***************************************************************************)
(* What the verification of one topic promises, with no attempts, no       *)
(* question generator and no database: the slots are resolved one after    *)
(* the other, none is skipped or taken back, and the topic is completed    *)
(* only after the last one.  Verification.tla implements this.             *)
(***************************************************************************)
EXTENDS Naturals

CONSTANT NumQuestions   \* question slots of a topic

VARIABLES
    resolved,   \* how many slots are resolved
    status      \* the topic's status

quizVars == <<resolved, status>>

Completed == {"completed", "completed_test_out"}

Init == resolved = 0 /\ status = "not_started"

Resolve ==
    /\ resolved < NumQuestions
    /\ resolved' = resolved + 1
    /\ UNCHANGED status

Complete ==
    /\ resolved = NumQuestions
    /\ status = "not_started"
    /\ status' \in Completed
    /\ UNCHANGED resolved

Next == Resolve \/ Complete

Spec == Init /\ [][Next]_quizVars
=============================================================================
