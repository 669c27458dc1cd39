--------------------------- MODULE MCRolesRefresh ---------------------------
(***************************************************************************)
(* Instances of RolesRefresh for TLC: two roles, two skills that together  *)
(* clear the trust threshold, and sources that may say anything of them.   *)
(***************************************************************************)
EXTENDS RolesRefresh, TLC

CONSTANTS a, b, t1, t2

MCSkills == {a, b}
MCTopics == {t1, t2}
MCSkillOf == [t \in MCTopics |-> a]

\* Of the first role the sources may say anything: enough listings on topic or
\* not, with neither skill or with one; Tavily both skills or none.  The second
\* role is known to Tavily alone.
MCAnswers ==
    <<[count : {5}, relevant : {2, 3}, himalayas : {{}, {a}, {b}},
       tavily : {{}, MCSkills}],
      [count : {0}, relevant : {0}, himalayas : {{}}, tavily : {MCSkills}]>>

TopicSymmetry == Permutations(MCTopics)
=============================================================================
