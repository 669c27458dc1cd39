---------------------------- MODULE LearningPlan ----------------------------
(***************************************************************************)
(* What onboarding promises of the stored plan, with no pages, no gate and *)
(* no review: a role is stored once, with the skills grounded for it; the  *)
(* plan covers these skills and at most one that was added; the learning   *)
(* begins on a stored plan.  From then on only a plan whose insertion was  *)
(* cut off before can still replace it, once, and after the first progress *)
(* nothing can.  Onboarding.tla implements this.                           *)
(***************************************************************************)
EXTENDS Naturals

CONSTANT Skills     \* what grounding can find, or the learner ask for

VARIABLES
    role,       \* the role of the learner, or "none"
    basis,      \* the skills grounded for the role
    plan,       \* the stored plan
    owed,       \* plans whose insertion was cut off and goes on
    phase       \* preparing, learning, progressed

planVars == <<role, basis, plan, owed, phase>>

NoPlan == [gen |-> 0, skills |-> {}]

\* The plans the basis allows: gen tells two over the same skills apart.
Plans ==
    IF basis = {} THEN {}
    ELSE [gen : Nat, skills : {basis} \cup {basis \cup {s} : s \in Skills}]

Init ==
    /\ role = "none"
    /\ basis = {}
    /\ plan = NoPlan
    /\ owed = {}
    /\ phase = "preparing"

Resolve ==
    /\ role = "none"
    /\ role' \in {"stated", "named", "guess"}
    /\ basis' \in SUBSET Skills
    /\ UNCHANGED <<plan, owed, phase>>

Store ==
    /\ phase = "preparing"
    /\ plan' \in Plans
    /\ UNCHANGED <<role, basis, owed, phase>>

CutOff ==
    /\ phase = "preparing"
    /\ \E o \in owed' : o \in Plans /\ owed' = owed \cup {o}
    /\ UNCHANGED <<role, basis, plan, phase>>

Land ==
    \E o \in owed :
        /\ owed' = owed \ {o}
        /\ plan' = IF phase = "progressed" THEN plan ELSE o
        /\ UNCHANGED <<role, basis, phase>>

Begin ==
    /\ phase = "preparing"
    /\ plan # NoPlan
    /\ phase' = "learning"
    /\ UNCHANGED <<role, basis, plan, owed>>

Progress ==
    /\ phase = "learning"
    /\ phase' = "progressed"
    /\ UNCHANGED <<role, basis, plan, owed>>

Next == Resolve \/ Store \/ CutOff \/ Land \/ Begin \/ Progress

Spec == Init /\ [][Next]_planVars
=============================================================================
