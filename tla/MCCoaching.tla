----------------------------- MODULE MCCoaching -----------------------------
(* Two days are expected of each topic.  A topic with half credit          *)
(* throughout is "behind", one with full credit "ahead", and three with a  *)
(* score of 0.7 lie exactly on the threshold.                              *)
EXTENDS Coaching, Hierarchy, TLC

CONSTANTS r1, r2

MCRuns == {r1, r2}

\* The runs are interchangeable; used where no liveness is checked.
RunSymmetry == Permutations(MCRuns)

Poor == [score |-> 5, days |-> 2]
Good == [score |-> 10, days |-> 1]
Edge == [score |-> 7, days |-> 2]

PoorAndGood == {Poor, Good}
AllOutcomes == {Poor, Good, Edge}

\* The outlines of up to three of four topics.
SmallOutlines ==
    {o \in UNION {[1..n -> 1..4] : n \in 0..3} :
        \A i, j \in DOMAIN o : o[i] = o[j] => i = j}

\* In each of them, a new topic with any set of its topics as prerequisites is
\* inserted without an error, soundly, and ids stay unique; naming a topic that
\* is not there, or inserting one that is, raises.
ASSUME InsertionChecked ==
    \A o \in SmallOutlines : \A prerequisites \in SUBSET (1..4) :
        LET ids == {o[i] : i \in DOMAIN o}
            result == InsertNewTopic(o, 0, prerequisites)
        IN  /\ \A id \in ids : InsertRaises(o, id, {})
            /\ IF prerequisites \subseteq ids
               THEN /\ ~InsertRaises(o, 0, prerequisites)
                    /\ InsertionSound(o, 0, prerequisites, result)
                    /\ \A i, j \in DOMAIN result : result[i] = result[j] => i = j
               ELSE InsertRaises(o, 0, prerequisites)
=============================================================================
