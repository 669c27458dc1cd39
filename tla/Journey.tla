------------------------------ MODULE Journey ------------------------------
(***************************************************************************)
(* What coaching promises the learner, with no pages, no pace, no market   *)
(* updates and no failures: the topics of the outline are completed one    *)
(* after the other, none is taken back, and the goal is reached exactly    *)
(* when all of them are.  Coaching.tla implements this.                    *)
(***************************************************************************)
EXTENDS Naturals

CONSTANT NumTopics      \* core topics of the outline

VARIABLES
    completed,      \* the topics completed, by hierarchy position
    reached         \* whether the closing note can be seen

journeyVars == <<completed, reached>>

Init == completed = {} /\ reached = FALSE

\* The first topic that is not completed is completed.
Complete ==
    \E t \in (1..NumTopics) \ completed :
        /\ 1..(t - 1) \subseteq completed
        /\ completed' = completed \cup {t}
        /\ UNCHANGED reached

Reach ==
    /\ completed = 1..NumTopics
    /\ reached' = TRUE
    /\ UNCHANGED completed

Next == Complete \/ Reach

Spec == Init /\ [][Next]_journeyVars
=============================================================================
