----------------------------- MODULE Hierarchy -----------------------------
(***************************************************************************)
(* Where a new topic goes in an outline: hierarchy.insert_new_topic, as    *)
(* insert_new_outline_topic stores it.  An outline is the sequence of its  *)
(* topics' ids by hierarchy_position; positions are 1, 2, ... as every     *)
(* writer of them leaves them, so a topic's position is its index.         *)
(***************************************************************************)
EXTENDS Integers, Sequences

\* An outline over a set of ids: no id twice.
Outlines(Ids) ==
    {o \in Seq(Ids) : \A i, j \in 1..Len(o) : o[i] = o[j] => i = j}

Holds(o, id) == \E i \in 1..Len(o) : o[i] = id

\* The two ValueErrors: the id is taken, or a prerequisite is not there.
InsertRaises(o, new, prerequisites) ==
    Holds(o, new) \/ \E p \in prerequisites : ~Holds(o, p)

\* Right after the latest prerequisite; at the front when there is none.
InsertIndex(o, prerequisites) ==
    IF prerequisites = {} THEN 1
    ELSE CHOOSE k \in 2..Len(o) + 1 :
            /\ o[k - 1] \in prerequisites
            /\ \A i \in k..Len(o) : o[i] \notin prerequisites

\* The renumbered outline.
InsertNewTopic(o, new, prerequisites) ==
    LET k == InsertIndex(o, prerequisites)
    IN  [i \in 1..Len(o) + 1 |->
            IF i < k THEN o[i] ELSE IF i = k THEN new ELSE o[i - 1]]

-----------------------------------------------------------------------------
(* What an insertion owes the learner                                      *)

\* Id a comes before id b.
Before(o, a, b) ==
    \E i, j \in 1..Len(o) : i < j /\ o[i] = a /\ o[j] = b

\* Every topic stays, in its order; the new one comes after its prerequisites
\* and no later than that: what comes before it is a prerequisite or comes
\* before one.
InsertionSound(o, new, prerequisites, result) ==
    /\ Len(result) = Len(o) + 1
    /\ \A a, b \in {o[i] : i \in 1..Len(o)} : Before(o, a, b) => Before(result, a, b)
    /\ \A p \in prerequisites : Before(result, p, new)
    /\ \A i \in 1..Len(result) :
          Before(result, result[i], new) =>
              \E p \in prerequisites : result[i] = p \/ Before(result, result[i], p)
=============================================================================
