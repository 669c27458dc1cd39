----------------------------- MODULE Onboarding -----------------------------
(***************************************************************************)
(* From the stated goal to the first day of coaching: main's Intake,       *)
(* Clarify Gate, Research & Market Grounding, Outline Creation and Outline *)
(* Confirmation pages, with the state machines of security/input_gate.py   *)
(* and the Research & Outline Agent behind them.                           *)
(*                                                                         *)
(* What the learner means, what the market offers and what the language    *)
(* model answers are choices.  A call of the model or of a source that     *)
(* raises leaves the page as it is, and is a stuttering step.  An outline  *)
(* is the set of skills its topics cover; gen tells two outlines over the  *)
(* same skills apart, as their rows have other ids.                        *)
(*                                                                         *)
(* The run that stores an outline commits the rows before it writes the    *)
(* session.  A database error ends it before the commit; a click on the    *)
(* busy page stops it at its next use of the session, and the insertion it *)
(* was in commits all the same, at some later time.                        *)
(***************************************************************************)
EXTENDS Naturals, FiniteSets

CONSTANTS
    Skills,         \* what grounding can find, or the learner ask for
    MaxFaults       \* bound: failed and stopped runs

MaxNarrowingRounds == 2     \* MAX_NARROWING_ROUNDS
MaxReviewRounds == 2        \* MAX_OUTLINE_CONFIRMATION_ROUNDS

ASSUME OnboardingAssumption == IsFiniteSet(Skills) /\ MaxFaults \in Nat

VARIABLES
    stage,          \* st.session_state.current_stage
    gate,           \* the clarify_turn: stage, narrowing rounds, resolved role
    grounding,      \* st.session_state.grounding_result
    storedRole,     \* users.resolved_role
    outline,        \* the outline the page shows
    review,         \* the outline_confirmation_turn: stage, rounds
    rows,           \* outline_topics
    progressed,     \* some row is past not_started
    run,            \* the script run that stores an outline
    late,           \* outlines of stopped runs whose insertion goes on
    made,           \* outlines generated so far
    asked,          \* the skills of all grounded additions
    faults,         \* runs a database error ended
    stops           \* runs a click stopped

session == <<stage, gate, grounding, outline, review>>
stored == <<storedRole, rows, progressed>>
vars == <<stage, gate, grounding, storedRole, outline, review, rows, progressed,
          run, late, made, asked, faults, stops>>

NoOutline == [gen |-> 0, skills |-> {}]
NoGrounding == [kind |-> "none", skills |-> {}]
Floor == [kind |-> "floor", skills |-> {}]

\* What ground_role may return: sources that answer, the cached row, or the
\* floor when there is neither.  A source that fails counts as one without
\* signal, so the same role may be grounded one time and not the next.
Groundings == [kind : {"live", "cached"}, skills : SUBSET Skills] \cup {Floor}

IdleRun == [at |-> "idle", topics |-> NoOutline,
            review |-> [at |-> "none", rounds |-> 0]]

Init ==
    /\ stage = "intake"
    /\ gate = [at |-> "none", rounds |-> 0, role |-> "none"]
    /\ grounding = NoGrounding
    /\ storedRole = "none"
    /\ outline = NoOutline
    /\ review = [at |-> "none", rounds |-> 0]
    /\ rows = NoOutline
    /\ progressed = FALSE
    /\ run = IdleRun
    /\ late = {}
    /\ made = 0
    /\ asked = {}
    /\ faults = 0
    /\ stops = 0

Intake ==
    /\ stage = "intake"
    /\ stage' = "clarify"
    /\ UNCHANGED <<gate, grounding, outline, review, stored, run, late, made, asked,
                   faults, stops>>

-----------------------------------------------------------------------------
(* The Clarify Gate                                                        *)

GateStep(next) ==
    /\ stage = "clarify"
    /\ gate' = next
    /\ UNCHANGED <<stage, grounding, outline, review, stored, run, late, made, asked,
                   faults, stops>>

ResolvedAs(role) == [gate EXCEPT !.at = "RESOLVED", !.role = role]

\* classify_stated_goal: a real role resolves as stated; nonsense and vague
\* goals start the narrowing.
BeginGate ==
    /\ gate.at = "none"
    /\ \/ GateStep(ResolvedAs("stated"))
       \/ GateStep([gate EXCEPT !.at = "NARROWING"])

NarrowingResolves ==
    /\ gate.at = "NARROWING"
    /\ GateStep(ResolvedAs("named"))

NarrowingRound ==
    /\ gate.at = "NARROWING"
    /\ GateStep([gate EXCEPT
          !.rounds = gate.rounds + 1,
          !.at = IF gate.rounds + 1 >= MaxNarrowingRounds
                 THEN "PROPOSE_BEST_GUESS" ELSE "NARROWING"])

Accept ==
    /\ gate.at \in {"PROPOSE_BEST_GUESS", "EXPLAIN_ROLE"}
    /\ GateStep(ResolvedAs("guess"))

DeclineProposal ==
    /\ gate.at = "PROPOSE_BEST_GUESS"
    /\ GateStep([gate EXCEPT !.at = "EXPLAIN_ROLE"])

\* Mutated form of DeclineExplanation: without a signal the gate starts over.
NoSignalRestarts ==
    /\ gate.at = "EXPLAIN_ROLE"
    /\ \E g \in Groundings :
          IF g = Floor
          THEN GateStep([gate EXCEPT !.at = "NARROWING", !.rounds = 0])
          ELSE GateStep(ResolvedAs("stated"))

\* The stated goal is taken as it is if grounding finds anything for it.
DeclineExplanation ==
    /\ gate.at = "EXPLAIN_ROLE"
    /\ \E g \in Groundings :
          IF g = Floor
          THEN GateStep([gate EXCEPT !.at = "EXITED"])
          ELSE GateStep(ResolvedAs("stated"))

\* _render_clarify_gate goes on to grounding from both ends of the gate.
LeaveGate ==
    /\ stage = "clarify"
    /\ gate.at \in {"RESOLVED", "EXITED"}
    /\ stage' = "grounding"
    /\ UNCHANGED <<gate, grounding, outline, review, stored, run, late, made, asked,
                   faults, stops>>

\* st.session_state.resolved_role
ResolvedRole == IF gate.at = "EXITED" THEN "stated" ELSE gate.role

-----------------------------------------------------------------------------
(* Research & Market Grounding                                             *)

Ground ==
    /\ stage = "grounding"
    /\ grounding = NoGrounding
    /\ grounding' \in Groundings
    /\ UNCHANGED <<stage, gate, outline, review, stored, run, late, made, asked,
                   faults, stops>>

\* The floor is a dead end; anything else stores the role and goes on.
StoreRole ==
    /\ stage = "grounding"
    /\ grounding \notin {NoGrounding, Floor}
    /\ storedRole' = ResolvedRole
    /\ stage' = "creation"
    /\ UNCHANGED <<gate, grounding, outline, review, rows, progressed, run, late,
                   made, asked, faults, stops>>

-----------------------------------------------------------------------------
(* Creating and storing an outline                                         *)

Idle == run.at = "idle"

\* create_initial_outline raises when it is given no skill; it covers every
\* skill it is given, or raises as well.
Generate(skills, nextReview) ==
    /\ Idle
    /\ skills # {}
    /\ made' = made + 1
    /\ run' = [at |-> "insert", topics |-> [gen |-> made + 1, skills |-> skills],
               review |-> nextReview]

CreateOutline ==
    /\ stage = "creation"
    /\ outline = NoOutline
    /\ Generate(grounding.skills, review)
    /\ UNCHANGED <<session, stored, late, asked, faults, stops>>

\* insert_outline_topics replaces all rows in one transaction, unless one of
\* them has progressed.
InsertRows ==
    /\ run.at = "insert"
    /\ ~progressed
    /\ rows' = run.topics
    /\ run' = [run EXCEPT !.at = "show"]
    /\ UNCHANGED <<session, storedRole, progressed, late, made, asked, faults, stops>>

ShowOutline ==
    /\ run.at = "show"
    /\ outline' = run.topics
    /\ review' = run.review
    /\ run' = IdleRun
    /\ UNCHANGED <<stage, gate, grounding, stored, late, made, asked, faults, stops>>

ContinueToConfirmation ==
    /\ stage = "creation"
    /\ Idle
    /\ outline # NoOutline
    /\ stage' = "confirmation"
    /\ UNCHANGED <<gate, grounding, outline, review, stored, run, late, made, asked,
                   faults, stops>>

-----------------------------------------------------------------------------
(* Outline Confirmation                                                    *)

ReviewStep(next) ==
    /\ stage = "confirmation"
    /\ Idle
    /\ review' = next
    /\ UNCHANGED <<stage, gate, grounding, outline, stored, run, late, made, asked,
                   faults, stops>>

BeginReview ==
    /\ review.at = "none"
    /\ ReviewStep([at |-> "REVIEWING", rounds |-> 0])

Reviewing == stage = "confirmation" /\ review.at = "REVIEWING"

Confirm ==
    /\ Reviewing
    /\ ReviewStep([review EXCEPT !.at = "CONFIRMED"])

\* Mutated form of NextRound: one round too many.
NextRoundPastBound ==
    [at |-> IF review.rounds + 1 > MaxReviewRounds
            THEN "BOUND_REACHED" ELSE "REVIEWING",
     rounds |-> review.rounds + 1]

\* advance_after_review_turn for a concern or an addition.  A question costs
\* no round and changes nothing.
NextRound ==
    [at |-> IF review.rounds + 1 >= MaxReviewRounds
            THEN "BOUND_REACHED" ELSE "REVIEWING",
     rounds |-> review.rounds + 1]

\* A concern, or an addition that finds no source, fails, or asks for a skill
\* the grounding already has: the outline stays as it is.
RoundWithoutChange ==
    /\ Reviewing
    /\ ReviewStep(NextRound)

\* Mutated form of AddSkill: the outline is made of the addition alone.
AddToNothing ==
    /\ Reviewing
    /\ \E s \in Skills \ grounding.skills :
          /\ asked' = asked \cup {s}
          /\ Generate({s}, NextRound)
    /\ UNCHANGED <<session, stored, late, faults, stops>>

\* A grounded addition regenerates the outline from the grounding it was first
\* made of and this addition.
AddSkill ==
    /\ Reviewing
    /\ \E s \in Skills \ grounding.skills :
          /\ asked' = asked \cup {s}
          /\ Generate(grounding.skills \cup {s}, NextRound)
    /\ UNCHANGED <<session, stored, late, faults, stops>>

\* Mutated form of AdvanceToDayOne: a review that met its bound does not lead on.
AdvanceWhenConfirmed ==
    /\ stage = "confirmation"
    /\ Idle
    /\ review.at = "CONFIRMED"
    /\ rows # NoOutline
    /\ stage' = "coaching"
    /\ UNCHANGED <<gate, grounding, outline, review, stored, run, late, made, asked,
                   faults, stops>>

\* Mutated form of AdvanceToDayOne: it does not wait for a run that stores.
AdvanceWhileStoring ==
    /\ stage = "confirmation"
    /\ review.at \in {"CONFIRMED", "BOUND_REACHED"} \/ ~Idle
    /\ rows # NoOutline
    /\ stage' = "coaching"
    /\ UNCHANGED <<gate, grounding, outline, review, stored, run, late, made, asked,
                   faults, stops>>

\* "Continue to Day 1".
AdvanceToDayOne ==
    /\ stage = "confirmation"
    /\ Idle
    /\ review.at \in {"CONFIRMED", "BOUND_REACHED"}
    /\ rows # NoOutline
    /\ stage' = "coaching"
    /\ UNCHANGED <<gate, grounding, outline, review, stored, run, late, made, asked,
                   faults, stops>>

\* The first topic is completed.
Progress ==
    /\ stage = "coaching"
    /\ progressed' = TRUE
    /\ UNCHANGED <<session, storedRole, rows, run, late, made, asked, faults, stops>>

-----------------------------------------------------------------------------
(* Failures                                                                *)

\* Mutated form of InsertFails: the outline is shown before it is stored.
FailureShowsOutline ==
    /\ faults + stops < MaxFaults
    /\ run.at = "insert"
    /\ outline' = run.topics
    /\ run' = IdleRun
    /\ faults' = faults + 1
    /\ UNCHANGED <<stage, gate, grounding, review, stored, late, made, asked, stops>>

\* A database error before the commit.  It is not among the exceptions the
\* page catches: the turn is not stored, and the round not counted.
InsertFails ==
    /\ faults + stops < MaxFaults
    /\ run.at = "insert"
    /\ run' = IdleRun
    /\ faults' = faults + 1
    /\ UNCHANGED <<session, stored, late, made, asked, stops>>

\* A click on the busy page.  What the stopped run was inserting is committed
\* later, or, as the next run closes its database session, never.
StopRun ==
    /\ faults + stops < MaxFaults
    /\ ~Idle
    /\ late' = late \cup (IF run.at = "insert" THEN {run.topics} ELSE {})
    /\ run' = IdleRun
    /\ stops' = stops + 1
    /\ UNCHANGED <<session, stored, made, asked, faults>>

\* Mutated form of LateInsert: progressed rows are replaced as well.
OverwriteLate ==
    \E o \in late :
        /\ late' = late \ {o}
        /\ rows' = o
        /\ UNCHANGED <<session, storedRole, progressed, run, made, asked, faults,
                       stops>>

LateInsert ==
    \E o \in late :
        /\ late' = late \ {o}
        /\ rows' = IF progressed THEN rows ELSE o
        /\ UNCHANGED <<session, storedRole, progressed, run, made, asked, faults,
                       stops>>

-----------------------------------------------------------------------------
Answer ==
    \/ BeginGate
    \/ NarrowingResolves
    \/ NarrowingRound
    \/ Accept
    \/ DeclineProposal
    \/ DeclineExplanation

Next ==
    \/ Intake
    \/ Answer
    \/ LeaveGate
    \/ Ground
    \/ StoreRole
    \/ CreateOutline
    \/ InsertRows
    \/ ShowOutline
    \/ ContinueToConfirmation
    \/ BeginReview
    \/ Confirm
    \/ RoundWithoutChange
    \/ AddSkill
    \/ AdvanceToDayOne
    \/ Progress
    \/ InsertFails
    \/ StopRun
    \/ LateInsert

Spec == Init /\ [][Next]_vars

\* The learner answers the gate, goes on, and in the end confirms; calls that
\* raise are repeated until one does not; a run that is neither failed nor
\* stopped ends.
Fairness ==
    /\ WF_vars(Intake)
    /\ WF_vars(Answer)
    /\ WF_vars(LeaveGate)
    /\ WF_vars(Ground)
    /\ WF_vars(StoreRole)
    /\ WF_vars(CreateOutline)
    /\ WF_vars(InsertRows \/ ShowOutline)
    /\ WF_vars(ContinueToConfirmation)
    /\ WF_vars(BeginReview)
    /\ WF_vars(Confirm)
    /\ WF_vars(AdvanceToDayOne)

FairSpec == Spec /\ Fairness

-----------------------------------------------------------------------------
(* Properties                                                              *)

Stages == {"intake", "clarify", "grounding", "creation", "confirmation", "coaching"}
GateStages == {"none", "NARROWING", "PROPOSE_BEST_GUESS", "EXPLAIN_ROLE",
               "RESOLVED", "EXITED"}
Roles == {"none", "stated", "named", "guess"}
Outlines == [gen : Nat, skills : SUBSET Skills]
Reviews == [at : {"none", "REVIEWING", "CONFIRMED", "BOUND_REACHED"},
            rounds : 0..MaxReviewRounds]

\* Every variable has its type; in particular neither loop outgrows its bound.
TypeOK ==
    /\ stage \in Stages
    /\ gate \in [at : GateStages, rounds : 0..MaxNarrowingRounds, role : Roles]
    /\ grounding \in Groundings \cup {NoGrounding}
    /\ storedRole \in Roles
    /\ outline \in Outlines
    /\ review \in Reviews
    /\ rows \in Outlines
    /\ progressed \in BOOLEAN
    /\ run \in [at : {"idle", "insert", "show"}, topics : Outlines, review : Reviews]
    /\ late \subseteq Outlines
    /\ made \in Nat
    /\ asked \subseteq Skills
    /\ faults \in Nat
    /\ stops \in Nat

\* "nothing ungrounded is ever written" (README.md:29) and nothing grounded is
\* left out: whichever run wrote the rows last, they cover all the role's
\* grounded skills and else only additions asked for, under a resolved role.
RowsGrounded ==
    rows # NoOutline =>
        /\ storedRole # "none"
        /\ grounding.kind \in {"live", "cached"}
        /\ grounding.skills # {}
        /\ grounding.skills \subseteq rows.skills
        /\ rows.skills \subseteq grounding.skills \cup asked

\* "The user sees the outline" (README.md:31): unless a run was stopped, the
\* outline the page shows is the one stored, whatever additions failed.
ShownIsStored ==
    (stops = 0 /\ run.at # "show") => outline = rows

\* "no further outline edits are accepted once Day 1 begins" (README.md:31):
\* from then on nothing but the late insertion of a stopped run changes the
\* rows, and once a topic is completed not even that ("outline content is never
\* overwritten once started or completed", data/outline_topics.py:154).
OutlineFrozen ==
    [][stage = "coaching" /\ (stops = 0 \/ progressed) => rows' = rows]_vars

Promise == INSTANCE LearningPlan WITH
    role <- storedRole,
    basis <- IF storedRole = "none" THEN {} ELSE grounding.skills,
    plan <- rows,
    owed <- late,
    phase <- IF progressed THEN "progressed"
             ELSE IF stage = "coaching" THEN "learning" ELSE "preparing"

\* Onboarding keeps the promise of LearningPlan.tla: one role, a plan over its
\* grounded skills and at most one addition, and from day one on no other plan
\* than those whose insertion a click had cut off before, each once at most.
PlanPromise == Promise!Spec

\* The gate is bounded (README.md:28): a learner who answers leaves it.
GateEnds == <>(stage \notin {"intake", "clarify"})

\* A role with grounded skills gets an outline and reaches the first day,
\* whatever is asked for in the review and finitely many runs fail or stop.
PlanReached ==
    (grounding.kind \in {"live", "cached"} /\ grounding.skills # {})
        ~> stage = "coaching"

\* "zero signal exits plainly, with no outline built" (README.md:28); the page
\* says "no learning plan will be built for this"
\* (research_outline_agent.py:416).
ExitBuildsNothing ==
    gate.at = "EXITED" => rows = NoOutline

\* "Additive only: content is never removed" (README.md:30).
AdditiveOnly ==
    [][rows.skills \subseteq rows'.skills]_vars
=============================================================================
