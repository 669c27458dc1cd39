-------------------------- MODULE OnboardingProofs --------------------------
(***************************************************************************)
(* What Onboarding.tla does for any set of skills and any number of failed *)
(* and stopped runs, proved.                                               *)
(***************************************************************************)
EXTENDS Onboarding, TLAPS

-----------------------------------------------------------------------------
(* Types                                                                   *)

LEMMA TypeOfOutlines ==
    /\ NoOutline \in Outlines
    /\ IdleRun \in [at : {"idle", "insert", "show"}, topics : Outlines, review : Reviews]
BY DEF NoOutline, Outlines, IdleRun, Reviews, MaxReviewRounds

LEMMA TypeInit == Init => TypeOK
<1> SUFFICES ASSUME Init
             PROVE  TypeOK
    OBVIOUS
<1>1. /\ gate \in [at : GateStages, rounds : 0..MaxNarrowingRounds, role : Roles]
      /\ review \in Reviews
    BY DEF Init, GateStages, Roles, Reviews, MaxNarrowingRounds, MaxReviewRounds
<1>2. QED
    BY <1>1, TypeOfOutlines DEF Init, TypeOK, Stages, Roles

\* Neither loop outgrows its bound: the stage is left when the bound is met.
BoundInv ==
    /\ gate.at \in {"none", "NARROWING"} => gate.rounds < MaxNarrowingRounds
    /\ review.at = "REVIEWING" => review.rounds < MaxReviewRounds
    /\ run.at # "idle" /\ run.review.at = "REVIEWING"
          => run.review.rounds < MaxReviewRounds

Types == TypeOK /\ BoundInv

LEMMA TypesInit == Init => Types
BY TypeInit DEF Types, BoundInv, Init, IdleRun, MaxNarrowingRounds, MaxReviewRounds

LEMMA NextRoundType ==
    ASSUME Types, Reviewing
    PROVE  /\ NextRound \in Reviews
           /\ NextRound.at = "REVIEWING" => NextRound.rounds < MaxReviewRounds
BY DEF Types, TypeOK, BoundInv, Reviewing, NextRound, Reviews, MaxReviewRounds

LEMMA AnswerTypes == Types /\ Answer => Types'
<1> SUFFICES ASSUME Types, Answer
             PROVE  Types'
    OBVIOUS
<1>1. /\ UNCHANGED <<stage, grounding, outline, review, stored, run, late, made,
                     asked, faults, stops>>
      /\ gate' \in [at : GateStages, rounds : 0..MaxNarrowingRounds, role : Roles]
      /\ gate'.at \in {"none", "NARROWING"} => gate'.rounds < MaxNarrowingRounds
    <2> USE DEF Types, TypeOK, BoundInv, GateStep, ResolvedAs, GateStages, Roles,
            MaxNarrowingRounds
    <2>1. CASE BeginGate
        BY <2>1 DEF BeginGate
    <2>2. CASE NarrowingResolves
        BY <2>2 DEF NarrowingResolves
    <2>3. CASE NarrowingRound
        <3>1. gate.rounds \in 0..1 /\ gate.role \in Roles
            BY <2>3 DEF NarrowingRound
        <3>2. UNCHANGED <<stage, grounding, outline, review, stored, run, late, made,
                          asked, faults, stops>>
            BY <2>3 DEF NarrowingRound
        <3>3. \/ gate' = [at |-> "NARROWING", rounds |-> 1, role |-> gate.role]
              \/ gate' = [at |-> "PROPOSE_BEST_GUESS", rounds |-> 2,
                          role |-> gate.role]
            <4>1. CASE gate.rounds = 0
                <5>1. gate' = [gate EXCEPT !.rounds = 1, !.at = "NARROWING"]
                    BY <2>3, <4>1 DEF NarrowingRound
                <5>2. QED
                    BY <5>1
            <4>2. CASE gate.rounds = 1
                <5>1. gate' = [gate EXCEPT !.rounds = 2, !.at = "PROPOSE_BEST_GUESS"]
                    BY <2>3, <4>2 DEF NarrowingRound
                <5>2. QED
                    BY <5>1
            <4>3. QED
                BY <3>1, <4>1, <4>2
        <3>4. QED
            BY <3>1, <3>2, <3>3
    <2>4. CASE Accept
        BY <2>4 DEF Accept
    <2>5. CASE DeclineProposal
        BY <2>5 DEF DeclineProposal
    <2>6. CASE DeclineExplanation
        BY <2>6 DEF DeclineExplanation
    <2>7. QED
        BY <2>1, <2>2, <2>3, <2>4, <2>5, <2>6 DEF Answer
<1>2. QED
    BY <1>1 DEF Types, TypeOK, BoundInv, stored

LEMMA TypesStep == Types /\ [Next]_vars => Types'
<1> SUFFICES ASSUME Types, [Next]_vars
             PROVE  Types'
    OBVIOUS
<1> USE DEF session, stored
<1>1. CASE Intake
    BY <1>1 DEF Types, TypeOK, BoundInv, Intake, Stages
<1>2. CASE Answer
    BY <1>2, AnswerTypes
<1>3. CASE LeaveGate
    BY <1>3 DEF Types, TypeOK, BoundInv, LeaveGate, Stages
<1>4. CASE Ground
    BY <1>4 DEF Types, TypeOK, BoundInv, Ground
<1>5. CASE StoreRole
    <2>1. ResolvedRole \in Roles
        BY DEF Types, TypeOK, ResolvedRole, Roles
    <2>2. QED
        BY <1>5, <2>1 DEF Types, TypeOK, BoundInv, StoreRole, Stages
<1>6. CASE CreateOutline
    <2>1. grounding.skills \subseteq Skills
        BY DEF Types, TypeOK, Groundings, NoGrounding, Floor
    <2>2. run'.review = review /\ run' \in [at : {"idle", "insert", "show"},
                                            topics : Outlines, review : Reviews]
        BY <1>6, <2>1 DEF Types, TypeOK, CreateOutline, Generate, Outlines
    <2>3. UNCHANGED <<session, stored, late, asked, faults, stops>> /\ made' \in Nat
        BY <1>6 DEF CreateOutline, Generate, Types, TypeOK
    <2>4. QED
        BY <2>2, <2>3 DEF Types, TypeOK, BoundInv
<1>7. CASE InsertRows
    BY <1>7 DEF Types, TypeOK, BoundInv, InsertRows
<1>8. CASE ShowOutline
    BY <1>8, TypeOfOutlines DEF Types, TypeOK, BoundInv, ShowOutline, IdleRun
<1>9. CASE ContinueToConfirmation
    BY <1>9 DEF Types, TypeOK, BoundInv, ContinueToConfirmation, Stages
<1>10. CASE BeginReview
    BY <1>10 DEF Types, TypeOK, BoundInv, BeginReview, ReviewStep, Reviews,
       MaxReviewRounds
<1>11. CASE Confirm
    BY <1>11 DEF Types, TypeOK, BoundInv, Confirm, ReviewStep, Reviews,
       MaxReviewRounds
<1>12. CASE RoundWithoutChange
    <2>1. Reviewing /\ review' = NextRound
        BY <1>12 DEF RoundWithoutChange, ReviewStep
    <2>2. UNCHANGED <<stage, gate, grounding, outline, stored, run, late, made,
                      asked, faults, stops>>
        BY <1>12 DEF RoundWithoutChange, ReviewStep
    <2>3. QED
        BY <2>1, <2>2, NextRoundType DEF Types, TypeOK, BoundInv
<1>13. CASE AddSkill
    <2>1. PICK s \in Skills : /\ asked' = asked \cup {s}
                              /\ Generate(grounding.skills \cup {s}, NextRound)
        BY <1>13 DEF AddSkill
    <2>2. /\ NextRound \in Reviews
          /\ NextRound.at = "REVIEWING" => NextRound.rounds < MaxReviewRounds
        BY <1>13, NextRoundType DEF AddSkill
    <2>3. grounding.skills \cup {s} \subseteq Skills /\ asked \cup {s} \subseteq Skills
        BY DEF Types, TypeOK, Groundings, NoGrounding, Floor
    <2>4. /\ run'.review = NextRound
          /\ run' \in [at : {"idle", "insert", "show"}, topics : Outlines,
                       review : Reviews]
          /\ made' \in Nat
        BY <2>1, <2>2, <2>3 DEF Types, TypeOK, Generate, Outlines
    <2>5. UNCHANGED <<session, stored, late, faults, stops>>
        BY <1>13 DEF AddSkill
    <2>6. QED
        BY <2>1, <2>2, <2>3, <2>4, <2>5 DEF Types, TypeOK, BoundInv
<1>14. CASE AdvanceToDayOne
    BY <1>14 DEF Types, TypeOK, BoundInv, AdvanceToDayOne, Stages
<1>15. CASE Progress
    BY <1>15 DEF Types, TypeOK, BoundInv, Progress
<1>16. CASE InsertFails
    BY <1>16, TypeOfOutlines DEF Types, TypeOK, BoundInv, InsertFails, IdleRun
<1>17. CASE StopRun
    <2>1. late' \subseteq Outlines
        BY <1>17 DEF StopRun, Types, TypeOK
    <2>2. QED
        BY <1>17, <2>1, TypeOfOutlines DEF Types, TypeOK, BoundInv, StopRun, IdleRun
<1>18. CASE LateInsert
    <2>1. rows' \in Outlines /\ late' \subseteq Outlines
        BY <1>18 DEF LateInsert, Types, TypeOK
    <2>2. UNCHANGED <<session, storedRole, progressed, run, made, asked, faults, stops>>
        BY <1>18 DEF LateInsert
    <2>3. QED
        BY <2>1, <2>2 DEF Types, TypeOK, BoundInv
<1>19. CASE UNCHANGED vars
    BY <1>19 DEF vars, Types, TypeOK, BoundInv
<1>20. QED
    BY <1>1, <1>2, <1>3, <1>4, <1>5, <1>6, <1>7, <1>8, <1>9, <1>10, <1>11, <1>12,
       <1>13, <1>14, <1>15, <1>16, <1>17, <1>18, <1>19 DEF Next

LEMMA TypesInvariant == Spec => []Types
BY TypesInit, TypesStep, PTL DEF Spec

\* Every variable keeps its type, and the two bounded loops their bounds.
THEOREM TypeCorrect == Spec => []TypeOK
BY TypesInvariant, PTL DEF Types

-----------------------------------------------------------------------------
(* What is stored                                                          *)

Grounded == grounding.kind \in {"live", "cached"}
Building == stage \in {"creation", "confirmation", "coaching"}

\* An outline that may be stored: all the role's skills, and asked ones.
Covers(o) ==
    /\ grounding.skills # {}
    /\ grounding.skills \subseteq o.skills
    /\ o.skills \subseteq grounding.skills \cup asked

\* The strengthening of RowsGrounded: every outline on its way to the rows
\* covers too, and none is on its way before the role is stored.
PlanInv ==
    /\ gate.at = "RESOLVED" => gate.role # "none"
    /\ stage = "grounding" => gate.at \in {"RESOLVED", "EXITED"}
    /\ Building => Grounded /\ storedRole # "none"
    /\ outline # NoOutline => Building /\ grounding.skills # {}
    /\ stage \in {"confirmation", "coaching"} => grounding.skills # {}
    /\ run.at # "idle" => Building /\ Covers(run.topics)
    /\ late # {} => Building
    /\ \A o \in late : Covers(o)
    /\ rows # NoOutline => Building /\ Covers(rows)

LEMMA PlanInit == Init => PlanInv
BY DEF Init, PlanInv, Building, IdleRun

\* A step that leaves the grounding and the outlines alone, and the stage
\* where it was or among the later ones, leaves the invariant alone.
LEMMA PlanKept ==
    ASSUME PlanInv,
           UNCHANGED <<gate, grounding, outline, storedRole, run, late, rows, asked>>,
           \/ stage' = stage
           \/ Building /\ Building' /\ grounding.skills # {}
    PROVE  PlanInv'
<1>1. Building => Building'
    BY DEF Building
<1>2. stage' = "grounding" => stage = "grounding"
    BY DEF Building
<1>3. Building' => Building
    BY DEF Building
<1>4. stage' \in {"confirmation", "coaching"} => grounding.skills # {}
    BY DEF PlanInv
<1>5. QED
    BY <1>1, <1>2, <1>3, <1>4, Zenon DEF PlanInv, Grounded, Covers

LEMMA PlanStep == Types /\ PlanInv /\ [Next]_vars => PlanInv'
<1> SUFFICES ASSUME Types, PlanInv, [Next]_vars
             PROVE  PlanInv'
    OBVIOUS
<1> USE DEF session, stored
<1>1. CASE Intake \/ ContinueToConfirmation \/ BeginReview \/ Confirm
           \/ RoundWithoutChange \/ AdvanceToDayOne \/ Progress
    <2>1. CASE Intake
        <3>1. /\ UNCHANGED <<gate, grounding, outline, storedRole, run, late, rows, asked>>
              /\ stage = "intake" /\ stage' = "clarify"
            BY <2>1 DEF Intake
        <3>2. QED
            BY <3>1 DEF PlanInv, Building
    <2>2. CASE ContinueToConfirmation
        BY <2>2, PlanKept DEF ContinueToConfirmation, Building, PlanInv
    <2>3. CASE BeginReview
        BY <2>3, PlanKept DEF BeginReview, ReviewStep
    <2>4. CASE Confirm
        BY <2>4, PlanKept DEF Confirm, ReviewStep
    <2>5. CASE RoundWithoutChange
        BY <2>5, PlanKept DEF RoundWithoutChange, ReviewStep
    <2>6. CASE AdvanceToDayOne
        BY <2>6, PlanKept DEF AdvanceToDayOne, Building, PlanInv
    <2>7. CASE Progress
        BY <2>7, PlanKept DEF Progress
    <2>8. QED
        BY <1>1, <2>1, <2>2, <2>3, <2>4, <2>5, <2>6, <2>7
<1>2. CASE Answer
    <2>1. /\ stage = "clarify"
          /\ UNCHANGED <<stage, grounding, outline, storedRole, run, late, rows, asked>>
        BY <1>2 DEF Answer, BeginGate, NarrowingResolves, NarrowingRound, Accept,
           DeclineProposal, DeclineExplanation, GateStep
    <2>2. gate'.at = "RESOLVED" => gate'.role # "none"
        <3> USE DEF Types, TypeOK, GateStep, ResolvedAs
        <3>1. CASE BeginGate
            BY <3>1 DEF BeginGate
        <3>2. CASE NarrowingResolves
            BY <3>2 DEF NarrowingResolves
        <3>3. CASE NarrowingRound
            <4>1. gate'.at \in {"PROPOSE_BEST_GUESS", "NARROWING"}
                BY <3>3 DEF NarrowingRound
            <4>2. QED
                BY <4>1
        <3>4. CASE Accept
            BY <3>4 DEF Accept
        <3>5. CASE DeclineProposal
            BY <3>5 DEF DeclineProposal
        <3>6. CASE DeclineExplanation
            BY <3>6 DEF DeclineExplanation
        <3>7. QED
            BY <1>2, <3>1, <3>2, <3>3, <3>4, <3>5, <3>6 DEF Answer
    <2>3. QED
        BY <2>1, <2>2 DEF PlanInv, Building
<1>3. CASE LeaveGate
    <2>1. /\ stage = "clarify" /\ stage' = "grounding"
          /\ gate.at \in {"RESOLVED", "EXITED"}
          /\ UNCHANGED <<gate, grounding, outline, storedRole, run, late, rows, asked>>
        BY <1>3 DEF LeaveGate
    <2>2. QED
        BY <2>1 DEF PlanInv, Building
<1>4. CASE Ground
    <2>1. /\ stage = "grounding"
          /\ UNCHANGED <<stage, gate, outline, storedRole, run, late, rows, asked>>
        BY <1>4 DEF Ground
    <2>2. QED
        BY <2>1 DEF PlanInv, Building
<1>5. CASE StoreRole
    <2>1. /\ stage = "grounding" /\ stage' = "creation"
          /\ grounding \notin {NoGrounding, Floor}
          /\ storedRole' = ResolvedRole
          /\ UNCHANGED <<gate, grounding, outline, run, late, rows, asked>>
        BY <1>5 DEF StoreRole
    <2>2. Grounded'
        BY <2>1 DEF Grounded, Types, TypeOK, Groundings
    <2>3. storedRole' # "none"
        BY <2>1 DEF PlanInv, ResolvedRole
    <2>4. QED
        BY <2>1, <2>2, <2>3 DEF PlanInv, Building
<1>6. CASE CreateOutline
    <2>1. /\ stage = "creation"
          /\ grounding.skills # {}
          /\ run'.topics.skills = grounding.skills
          /\ UNCHANGED <<stage, gate, grounding, outline, storedRole, late, rows, asked>>
        BY <1>6 DEF CreateOutline, Generate
    <2>2. Building' /\ Covers(run.topics)'
        BY <2>1 DEF Building, Covers
    <2>3. QED
        BY <2>1, <2>2 DEF PlanInv, Building, Covers, Grounded
<1>7. CASE InsertRows
    <2>1. /\ run.at = "insert"
          /\ rows' = run.topics
          /\ run'.topics = run.topics
          /\ UNCHANGED <<stage, gate, grounding, outline, storedRole, late, asked>>
        BY <1>7 DEF InsertRows, Types, TypeOK
    <2>2. QED
        BY <2>1 DEF PlanInv, Building, Covers, Grounded
<1>8. CASE ShowOutline \/ InsertFails
    <2>1. /\ run.at # "idle" /\ run'.at = "idle"
          /\ outline' \in {outline, run.topics}
          /\ UNCHANGED <<stage, gate, grounding, storedRole, late, rows, asked>>
        BY <1>8 DEF ShowOutline, InsertFails, IdleRun
    <2>2. QED
        BY <2>1 DEF PlanInv, Building, Covers, Grounded
<1>9. CASE AddSkill
    <2>1. PICK s \in Skills : /\ asked' = asked \cup {s}
                              /\ Generate(grounding.skills \cup {s}, NextRound)
        BY <1>9 DEF AddSkill
    <2>2. /\ stage = "confirmation"
          /\ run'.topics.skills = grounding.skills \cup {s}
          /\ UNCHANGED <<stage, gate, grounding, outline, storedRole, late, rows>>
        BY <1>9, <2>1 DEF AddSkill, Reviewing, Generate
    <2>3. grounding.skills # {}
        BY <2>2 DEF PlanInv
    <2>4. QED
        BY <2>1, <2>2, <2>3 DEF PlanInv, Building, Covers, Grounded
<1>10. CASE StopRun
    <2>1. /\ run'.at = "idle"
          /\ run.at # "idle"
          /\ late' \subseteq late \cup {run.topics}
          /\ UNCHANGED <<stage, gate, grounding, outline, storedRole, rows, asked>>
        BY <1>10 DEF StopRun, Idle, IdleRun
    <2>2. QED
        BY <2>1 DEF PlanInv, Building, Covers, Grounded
<1>11. CASE LateInsert
    <2>1. PICK o \in late : /\ late' = late \ {o}
                            /\ rows' = IF progressed THEN rows ELSE o
        BY <1>11 DEF LateInsert
    <2>2. UNCHANGED <<stage, gate, grounding, outline, storedRole, run, asked>>
        BY <1>11 DEF LateInsert
    <2>3. QED
        BY <2>1, <2>2 DEF PlanInv, Building, Covers, Grounded
<1>12. CASE UNCHANGED vars
    BY <1>12, PlanKept DEF vars
<1>13. QED
    BY <1>1, <1>2, <1>3, <1>4, <1>5, <1>6, <1>7, <1>8, <1>9, <1>10, <1>11, <1>12
       DEF Next

LEMMA PlanInvariant == Spec => []PlanInv
BY PlanInit, PlanStep, TypesInvariant, PTL DEF Spec

\* Whichever run wrote the rows, they cover the role's grounded skills and no
\* skill that was neither grounded nor asked for.
THEOREM RowsAreGrounded == Spec => []RowsGrounded
<1>1. PlanInv => RowsGrounded
    BY DEF PlanInv, RowsGrounded, Grounded, Covers
<1>2. QED
    BY <1>1, PlanInvariant, PTL

-----------------------------------------------------------------------------
(* What is shown                                                           *)

\* The strengthening of ShownIsStored: what a run is about to show is stored.
ShownInv ==
    stops = 0 =>
        /\ late = {}
        /\ run.at = "show" => rows = run.topics
        /\ run.at # "show" => outline = rows

LEMMA ShownInit == Init => ShownInv
BY DEF Init, ShownInv, IdleRun

LEMMA ShownStep == Types /\ ShownInv /\ [Next]_vars => ShownInv'
<1> SUFFICES ASSUME Types, ShownInv, [Next]_vars, stops' = 0
             PROVE  /\ late' = {}
                    /\ run'.at = "show" => rows' = run'.topics
                    /\ run'.at # "show" => outline' = rows'
    BY DEF ShownInv
<1> USE DEF session, stored
<1>1. CASE Intake \/ LeaveGate \/ Ground \/ StoreRole \/ ContinueToConfirmation
           \/ AdvanceToDayOne \/ Progress
    BY <1>1 DEF ShownInv, Intake, LeaveGate, Ground, StoreRole,
       ContinueToConfirmation, AdvanceToDayOne, Progress
<1>2. CASE Answer
    <2>1. UNCHANGED <<outline, rows, run, late, stops>>
        BY <1>2 DEF Answer, BeginGate, NarrowingResolves, NarrowingRound, Accept,
           DeclineProposal, DeclineExplanation, GateStep
    <2>2. QED
        BY <2>1 DEF ShownInv
<1>3. CASE BeginReview \/ Confirm \/ RoundWithoutChange
    <2>1. UNCHANGED <<outline, rows, run, late, stops>>
        BY <1>3 DEF BeginReview, Confirm, RoundWithoutChange, ReviewStep
    <2>2. QED
        BY <2>1 DEF ShownInv
<1>4. CASE CreateOutline \/ AddSkill
    <2>1. /\ run.at = "idle" /\ run'.at = "insert"
          /\ UNCHANGED <<outline, rows, late, stops>>
        BY <1>4 DEF CreateOutline, AddSkill, Generate, Idle
    <2>2. QED
        BY <2>1 DEF ShownInv
<1>5. CASE InsertRows
    <2>1. /\ run'.at = "show" /\ rows' = run.topics /\ run'.topics = run.topics
          /\ UNCHANGED <<outline, late, stops>>
        BY <1>5 DEF InsertRows, Types, TypeOK
    <2>2. QED
        BY <2>1 DEF ShownInv
<1>6. CASE ShowOutline
    <2>1. /\ run.at = "show" /\ run'.at = "idle" /\ outline' = run.topics
          /\ UNCHANGED <<rows, late, stops>>
        BY <1>6 DEF ShowOutline, IdleRun
    <2>2. QED
        BY <2>1 DEF ShownInv
<1>7. CASE InsertFails
    <2>1. /\ run.at = "insert" /\ run'.at = "idle"
          /\ UNCHANGED <<outline, rows, late, stops>>
        BY <1>7 DEF InsertFails, IdleRun
    <2>2. QED
        BY <2>1 DEF ShownInv
<1>8. CASE StopRun
    <2>1. stops' = stops + 1 /\ stops \in Nat
        BY <1>8 DEF StopRun, Types, TypeOK
    <2>2. QED
        BY <2>1
<1>9. CASE LateInsert
    <2>1. late # {} /\ stops' = stops
        BY <1>9 DEF LateInsert
    <2>2. QED
        BY <2>1 DEF ShownInv
<1>10. CASE UNCHANGED vars
    BY <1>10 DEF vars, ShownInv
<1>11. QED
    BY <1>1, <1>2, <1>3, <1>4, <1>5, <1>6, <1>7, <1>8, <1>9, <1>10 DEF Next

LEMMA ShownInvariant == Spec => []ShownInv
BY ShownInit, ShownStep, TypesInvariant, PTL DEF Spec

\* Unless a run was stopped, what the learner reviews is what will be taught:
\* the outline shown is the one stored, whatever additions failed.
THEOREM StoredIsShown == Spec => []ShownIsStored
<1>1. ShownInv => ShownIsStored
    BY DEF ShownInv, ShownIsStored
<1>2. QED
    BY <1>1, ShownInvariant, PTL

-----------------------------------------------------------------------------
(* What is never overwritten                                               *)

\* No run is storing an outline when coaching begins, and none begins to.
FrozenInv ==
    /\ stage = "coaching" => run.at = "idle"
    /\ progressed => stage = "coaching"

LEMMA FrozenStep == FrozenInv /\ [Next]_vars => FrozenInv'
<1> SUFFICES ASSUME FrozenInv, [Next]_vars
             PROVE  FrozenInv'
    OBVIOUS
<1> USE DEF session, stored
<1>1. CASE Answer
    BY <1>1 DEF Answer, BeginGate, NarrowingResolves, NarrowingRound, Accept,
       DeclineProposal, DeclineExplanation, GateStep, FrozenInv
<1>2. CASE Intake \/ LeaveGate \/ Ground \/ StoreRole
    BY <1>2 DEF Intake, LeaveGate, Ground, StoreRole, FrozenInv
<1>3. CASE CreateOutline \/ AddSkill
    <2>1. stage # "coaching" /\ UNCHANGED <<stage, progressed>>
        BY <1>3 DEF CreateOutline, AddSkill, Reviewing
    <2>2. QED
        BY <2>1 DEF FrozenInv
<1>4. CASE InsertRows
    BY <1>4 DEF InsertRows, FrozenInv
<1>5. CASE ShowOutline \/ InsertFails \/ StopRun
    <2>1. run'.at = "idle" /\ UNCHANGED <<stage, progressed>>
        BY <1>5 DEF ShowOutline, InsertFails, StopRun, IdleRun
    <2>2. QED
        BY <2>1 DEF FrozenInv
<1>6. CASE ContinueToConfirmation \/ AdvanceToDayOne \/ Progress
    BY <1>6 DEF ContinueToConfirmation, AdvanceToDayOne, Progress, Idle, FrozenInv
<1>7. CASE BeginReview \/ Confirm \/ RoundWithoutChange
    BY <1>7 DEF BeginReview, Confirm, RoundWithoutChange, ReviewStep, FrozenInv
<1>8. CASE LateInsert
    BY <1>8 DEF LateInsert, FrozenInv
<1>9. CASE UNCHANGED vars
    BY <1>9 DEF vars, FrozenInv
<1>10. QED
    BY <1>1, <1>2, <1>3, <1>4, <1>5, <1>6, <1>7, <1>8, <1>9 DEF Next

LEMMA FrozenInvariant == Spec => []FrozenInv
<1>1. Init => FrozenInv
    BY DEF Init, FrozenInv
<1>2. QED
    BY <1>1, FrozenStep, PTL DEF Spec

\* Once coaching has begun only an insertion that a click cut off can still
\* reach the rows, and not even that once a topic is completed.
THEOREM OutlineIsFrozen == Spec => OutlineFrozen
<1>1. ShownInv /\ FrozenInv /\ [Next]_vars
        => (stage = "coaching" /\ (stops = 0 \/ progressed) => rows' = rows)
    <2> SUFFICES ASSUME ShownInv, FrozenInv, [Next]_vars, stage = "coaching",
                        stops = 0 \/ progressed
                 PROVE  rows' = rows
        OBVIOUS
    <2> USE DEF session, stored
    <2>1. CASE Answer
        BY <2>1 DEF Answer, BeginGate, NarrowingResolves, NarrowingRound, Accept,
           DeclineProposal, DeclineExplanation, GateStep
    <2>2. CASE LateInsert
        BY <2>2 DEF LateInsert, ShownInv
    <2>3. CASE InsertRows
        BY <2>3 DEF InsertRows, FrozenInv
    <2>4. CASE CreateOutline \/ ShowOutline \/ AddSkill \/ InsertFails \/ StopRun
        BY <2>4 DEF CreateOutline, ShowOutline, AddSkill, InsertFails, StopRun
    <2>5. CASE Intake \/ LeaveGate \/ Ground \/ StoreRole
        BY <2>5 DEF Intake, LeaveGate, Ground, StoreRole
    <2>6. CASE ContinueToConfirmation \/ AdvanceToDayOne \/ Progress
        BY <2>6 DEF ContinueToConfirmation, AdvanceToDayOne, Progress
    <2>7. CASE BeginReview \/ Confirm \/ RoundWithoutChange
        BY <2>7 DEF BeginReview, Confirm, RoundWithoutChange, ReviewStep
    <2>8. CASE UNCHANGED vars
        BY <2>8 DEF vars
    <2>9. QED
        BY <2>1, <2>2, <2>3, <2>4, <2>5, <2>6, <2>7, <2>8 DEF Next
<1>2. QED
    BY <1>1, ShownInvariant, FrozenInvariant, PTL DEF Spec, OutlineFrozen

-----------------------------------------------------------------------------
(* What is added                                                           *)

\* Grounded additions were asked for, if at all, of one skill only.
OneAsked == \A s, t \in asked : s = t

\* Additions are asked for in the review, and the run that stores one stores
\* what was asked for until then, as long as that is one skill.
AddInv ==
    /\ asked # {} => stage \in {"confirmation", "coaching"}
    /\ run.at = "insert" /\ OneAsked => asked \subseteq run.topics.skills

LEMMA AddStep == AddInv /\ [Next]_vars => AddInv'
<1> SUFFICES ASSUME AddInv, [Next]_vars
             PROVE  AddInv'
    OBVIOUS
<1> USE DEF session, stored
<1>1. CASE Answer
    BY <1>1 DEF Answer, BeginGate, NarrowingResolves, NarrowingRound, Accept,
       DeclineProposal, DeclineExplanation, GateStep, AddInv, OneAsked
<1>2. CASE Intake \/ LeaveGate \/ Ground \/ StoreRole
    BY <1>2 DEF Intake, LeaveGate, Ground, StoreRole, AddInv, OneAsked
<1>3. CASE CreateOutline
    BY <1>3 DEF CreateOutline, AddInv
<1>4. CASE AddSkill
    <2>1. PICK s \in Skills \ grounding.skills :
              /\ asked' = asked \cup {s}
              /\ run'.topics.skills = grounding.skills \cup {s}
        BY <1>4 DEF AddSkill, Generate
    <2>2. UNCHANGED stage /\ stage = "confirmation"
        BY <1>4 DEF AddSkill, Reviewing
    <2>3. OneAsked' => asked' \subseteq {s}
        BY <2>1 DEF OneAsked
    <2>4. QED
        BY <2>1, <2>2, <2>3 DEF AddInv
<1>5. CASE InsertRows \/ ShowOutline \/ InsertFails \/ StopRun
    <2>1. UNCHANGED <<stage, asked>>
        BY <1>5 DEF InsertRows, ShowOutline, InsertFails, StopRun
    <2>2. run'.at # "insert"
        <3>1. CASE InsertRows
            <4>1. run' = [run EXCEPT !.at = "show"]
                BY <3>1 DEF InsertRows
            <4>2. QED
                BY <4>1
        <3>2. CASE ShowOutline \/ InsertFails \/ StopRun
            BY <3>2 DEF ShowOutline, InsertFails, StopRun, IdleRun
        <3>3. QED
            BY <1>5, <3>1, <3>2
    <2>3. QED
        BY <2>1, <2>2 DEF AddInv
<1>6. CASE BeginReview \/ Confirm \/ RoundWithoutChange
    BY <1>6 DEF BeginReview, Confirm, RoundWithoutChange, ReviewStep, AddInv, OneAsked
<1>7. CASE ContinueToConfirmation \/ AdvanceToDayOne \/ Progress \/ LateInsert
    BY <1>7 DEF ContinueToConfirmation, AdvanceToDayOne, Progress, LateInsert, AddInv,
       OneAsked
<1>8. CASE UNCHANGED vars
    BY <1>8 DEF vars, AddInv, OneAsked
<1>9. QED
    BY <1>1, <1>2, <1>3, <1>4, <1>5, <1>6, <1>7, <1>8 DEF Next

LEMMA AddInvariant == Spec => []AddInv
<1>1. Init => AddInv
    BY DEF Init, AddInv, IdleRun
<1>2. QED
    BY <1>1, AddStep, PTL DEF Spec

\* "Additive only: content is never removed" (README.md:30) holds for a learner
\* who asks for one skill, however often and whatever insertions fail, as long as
\* no run is stopped: it takes a second skill, or a late insertion, to lose one.
THEOREM OneAdditionIsKept ==
    Spec => [][OneAsked' /\ stops' = 0 => rows.skills \subseteq rows'.skills]_vars
<1>1. ASSUME PlanInv, ShownInv, AddInv, [Next]_vars, OneAsked', stops' = 0
      PROVE  rows.skills \subseteq rows'.skills
    <2> USE DEF session, stored
    <2>1. CASE InsertRows
        <3>1. /\ run.at = "insert" /\ rows' = run.topics
              /\ OneAsked
            BY <1>1, <2>1 DEF InsertRows, OneAsked
        <3>2. /\ grounding.skills \subseteq run.topics.skills
              /\ asked \subseteq run.topics.skills
            BY <1>1, <3>1 DEF PlanInv, Covers, AddInv
        <3>3. rows.skills \subseteq grounding.skills \cup asked
            BY <1>1 DEF PlanInv, Covers, NoOutline
        <3>4. QED
            BY <3>1, <3>2, <3>3
    <2>2. CASE LateInsert
        <3>1. late # {} /\ UNCHANGED stops
            BY <2>2 DEF LateInsert
        <3>2. QED
            BY <1>1, <3>1 DEF ShownInv
    <2>3. CASE Answer
        BY <2>3 DEF Answer, BeginGate, NarrowingResolves, NarrowingRound, Accept,
           DeclineProposal, DeclineExplanation, GateStep
    <2>4. CASE Intake \/ LeaveGate \/ Ground \/ StoreRole \/ CreateOutline \/ AddSkill
               \/ ContinueToConfirmation \/ AdvanceToDayOne \/ Progress
        BY <2>4 DEF Intake, LeaveGate, Ground, StoreRole, CreateOutline, AddSkill,
           ContinueToConfirmation, AdvanceToDayOne, Progress
    <2>5. CASE ShowOutline \/ InsertFails \/ StopRun
        BY <2>5 DEF ShowOutline, InsertFails, StopRun
    <2>6. CASE BeginReview \/ Confirm \/ RoundWithoutChange
        BY <2>6 DEF BeginReview, Confirm, RoundWithoutChange, ReviewStep
    <2>7. CASE UNCHANGED vars
        BY <2>7 DEF vars
    <2>8. QED
        BY <1>1, <2>1, <2>2, <2>3, <2>4, <2>5, <2>6, <2>7 DEF Next
<1>2. PlanInv /\ ShownInv /\ AddInv /\ [Next]_vars
        => [OneAsked' /\ stops' = 0 => rows.skills \subseteq rows'.skills]_vars
    BY <1>1
<1>3. QED
    BY <1>2, AddInvariant, PlanInvariant, ShownInvariant, PTL DEF Spec

-----------------------------------------------------------------------------
(* Onboarding implements LearningPlan                                      *)

\* The role is stored on the way to creation and only there, and a run stores
\* the grounded skills with one addition at most.
LeanInv ==
    /\ Building \/ storedRole = "none"
    /\ run.at # "idle" => run.topics \in Promise!Plans

\* What the plans are made of depends on the stored role and the grounding alone.
LEMMA PlansKept ==
    ASSUME UNCHANGED <<storedRole, grounding>>
    PROVE  Promise!Plans' = Promise!Plans
BY DEF Promise!Plans

LEMMA PlansOfGrounding ==
    ASSUME PlanInv, Building, grounding.skills # {}
    PROVE  Promise!Plans = [gen : Nat, skills : {grounding.skills} \cup
                                {grounding.skills \cup {s} : s \in Skills}]
BY DEF Promise!Plans, PlanInv

LEMMA LeanStep == Types /\ PlanInv /\ LeanInv /\ [Next]_vars => LeanInv'
<1> SUFFICES ASSUME Types, PlanInv, LeanInv, [Next]_vars
             PROVE  LeanInv'
    OBVIOUS
<1> USE DEF session, stored
<1>1. CASE Intake \/ LeaveGate \/ ContinueToConfirmation \/ AdvanceToDayOne
           \/ Progress \/ LateInsert
    <2>1. /\ UNCHANGED <<run, storedRole, grounding>>
          /\ Building' <=> Building
        BY <1>1 DEF Intake, LeaveGate, ContinueToConfirmation, AdvanceToDayOne,
           Progress, LateInsert, Building
    <2>2. QED
        BY <2>1, PlansKept DEF LeanInv
<1>2. CASE Answer
    <2>1. UNCHANGED <<stage, run, storedRole, grounding>>
        BY <1>2 DEF Answer, BeginGate, NarrowingResolves, NarrowingRound, Accept,
           DeclineProposal, DeclineExplanation, GateStep
    <2>2. QED
        BY <2>1, PlansKept DEF LeanInv, Building
<1>3. CASE BeginReview \/ Confirm \/ RoundWithoutChange
    <2>1. UNCHANGED <<stage, run, storedRole, grounding>>
        BY <1>3 DEF BeginReview, Confirm, RoundWithoutChange, ReviewStep
    <2>2. QED
        BY <2>1, PlansKept DEF LeanInv, Building
<1>4. CASE Ground \/ StoreRole
    <2>1. /\ stage = "grounding" /\ run' = run
          /\ Building' \/ storedRole' = storedRole
        BY <1>4 DEF Ground, StoreRole, Building
    <2>2. run.at = "idle" /\ ~Building
        BY <2>1 DEF PlanInv, Building
    <2>3. QED
        BY <2>1, <2>2 DEF LeanInv
<1>5. CASE CreateOutline
    <2>1. /\ Building /\ Building' /\ grounding.skills # {}
          /\ run'.topics = [gen |-> made + 1, skills |-> grounding.skills]
          /\ UNCHANGED <<storedRole, grounding>>
        BY <1>5 DEF CreateOutline, Generate, Building
    <2>2. made + 1 \in Nat
        BY DEF Types, TypeOK
    <2>3. run'.topics \in Promise!Plans
        BY <2>1, <2>2, PlansOfGrounding
    <2>4. QED
        BY <2>1, <2>3, PlansKept DEF LeanInv
<1>6. CASE AddSkill
    <2>1. PICK s \in Skills : Generate(grounding.skills \cup {s}, NextRound)
        BY <1>6 DEF AddSkill
    <2>2. /\ stage = "confirmation" /\ Building /\ Building'
          /\ run'.topics = [gen |-> made + 1, skills |-> grounding.skills \cup {s}]
          /\ UNCHANGED <<storedRole, grounding>>
        BY <1>6, <2>1 DEF AddSkill, Reviewing, Generate, Building
    <2>3. made + 1 \in Nat /\ grounding.skills # {}
        BY <2>2 DEF Types, TypeOK, PlanInv
    <2>4. run'.topics \in Promise!Plans
        BY <2>2, <2>3, PlansOfGrounding
    <2>5. QED
        BY <2>2, <2>4, PlansKept DEF LeanInv
<1>7. CASE InsertRows
    <2>1. /\ run.at = "insert" /\ run'.topics = run.topics
          /\ UNCHANGED <<stage, storedRole, grounding>>
        BY <1>7 DEF InsertRows, Types, TypeOK
    <2>2. QED
        BY <2>1, PlansKept DEF LeanInv, Building
<1>8. CASE ShowOutline \/ InsertFails \/ StopRun
    <2>1. run'.at = "idle" /\ UNCHANGED <<stage, storedRole>>
        BY <1>8 DEF ShowOutline, InsertFails, StopRun, IdleRun
    <2>2. QED
        BY <2>1 DEF LeanInv, Building
<1>9. CASE UNCHANGED vars
    <2>1. UNCHANGED <<stage, run, storedRole, grounding>>
        BY <1>9 DEF vars
    <2>2. QED
        BY <2>1, PlansKept DEF LeanInv, Building
<1>10. QED
    BY <1>1, <1>2, <1>3, <1>4, <1>5, <1>6, <1>7, <1>8, <1>9 DEF Next

LEMMA LeanInvariant == Spec => []LeanInv
<1>1. Init => LeanInv
    BY DEF Init, LeanInv, IdleRun
<1>2. QED
    BY <1>1, LeanStep, TypesInvariant, PlanInvariant, PTL DEF Spec

LEMMA PromiseInit == Init => Promise!Init
BY DEF Init, Promise!Init, Promise!NoPlan, NoOutline

\* Pages that store nothing and do not start the learning are not seen by it.
LEMMA PromiseStutters ==
    ASSUME LeanInv, LeanInv', PlanInv,
           UNCHANGED <<storedRole, rows, late, progressed>>,
           stage' = "coaching" <=> stage = "coaching",
           storedRole # "none" => UNCHANGED grounding
    PROVE  UNCHANGED Promise!planVars
BY DEF Promise!planVars

LEMMA PromiseStep ==
    Types /\ PlanInv /\ LeanInv /\ LeanInv' /\ FrozenInv /\ [Next]_vars
        => [Promise!Next]_(Promise!planVars)
<1> SUFFICES ASSUME Types, PlanInv, LeanInv, LeanInv', FrozenInv, [Next]_vars
             PROVE  [Promise!Next]_(Promise!planVars)
    OBVIOUS
<1> USE DEF session, stored
<1>1. CASE Intake \/ LeaveGate \/ ContinueToConfirmation
    <2>1. /\ UNCHANGED <<storedRole, rows, late, progressed, grounding>>
          /\ stage # "coaching" /\ stage' # "coaching"
        BY <1>1 DEF Intake, LeaveGate, ContinueToConfirmation
    <2>2. QED
        BY <2>1, PromiseStutters
<1>2. CASE Answer
    <2>1. UNCHANGED <<stage, storedRole, rows, late, progressed, grounding>>
        BY <1>2 DEF Answer, BeginGate, NarrowingResolves, NarrowingRound, Accept,
           DeclineProposal, DeclineExplanation, GateStep
    <2>2. QED
        BY <2>1, PromiseStutters
<1>3. CASE BeginReview \/ Confirm \/ RoundWithoutChange
    <2>1. UNCHANGED <<stage, storedRole, rows, late, progressed, grounding>>
        BY <1>3 DEF BeginReview, Confirm, RoundWithoutChange, ReviewStep
    <2>2. QED
        BY <2>1, PromiseStutters
<1>4. CASE Ground
    <2>1. /\ stage = "grounding"
          /\ UNCHANGED <<stage, storedRole, rows, late, progressed>>
        BY <1>4 DEF Ground
    <2>2. storedRole = "none"
        BY <2>1 DEF LeanInv, Building
    <2>3. QED
        BY <2>1, <2>2, PromiseStutters
<1>5. CASE StoreRole
    <2>1. /\ stage = "grounding" /\ stage' = "creation"
          /\ storedRole' = ResolvedRole
          /\ UNCHANGED <<gate, grounding, rows, late, progressed>>
        BY <1>5 DEF StoreRole
    <2>2. storedRole = "none"
        BY <2>1 DEF LeanInv, Building
    <2>3. storedRole' \in {"stated", "named", "guess"}
        BY <2>1 DEF PlanInv, ResolvedRole, Types, TypeOK, Roles
    <2>4. grounding.skills \in SUBSET Skills
        BY DEF Types, TypeOK, Groundings, NoGrounding, Floor
    <2>5. Promise!Resolve
        BY <2>1, <2>2, <2>3, <2>4 DEF Promise!Resolve
    <2>6. QED
        BY <2>5 DEF Promise!Next
<1>6. CASE CreateOutline \/ AddSkill \/ ShowOutline \/ InsertFails
    <2>1. UNCHANGED <<stage, storedRole, rows, late, progressed, grounding>>
        BY <1>6 DEF CreateOutline, AddSkill, ShowOutline, InsertFails
    <2>2. QED
        BY <2>1, PromiseStutters
<1>7. CASE InsertRows
    <2>1. /\ run.at = "insert" /\ ~progressed /\ rows' = run.topics
          /\ UNCHANGED <<stage, storedRole, late, progressed, grounding>>
        BY <1>7 DEF InsertRows
    <2>2. stage # "coaching" /\ run.topics \in Promise!Plans
        BY <2>1 DEF FrozenInv, LeanInv
    <2>3. Promise!Store
        BY <2>1, <2>2 DEF Promise!Store
    <2>4. QED
        BY <2>3 DEF Promise!Next
<1>8. CASE StopRun
    <2>1. /\ run.at # "idle"
          /\ late' = late \cup (IF run.at = "insert" THEN {run.topics} ELSE {})
          /\ UNCHANGED <<stage, storedRole, rows, progressed, grounding>>
        BY <1>8 DEF StopRun, Idle
    <2>2. stage # "coaching" /\ ~progressed /\ run.topics \in Promise!Plans
        BY <2>1 DEF FrozenInv, LeanInv
    <2>3. CASE run.at = "insert"
        <3>1. late' = late \cup {run.topics}
            BY <2>1, <2>3
        <3>2. Promise!CutOff
            BY <2>1, <2>2, <3>1 DEF Promise!CutOff
        <3>3. QED
            BY <3>2 DEF Promise!Next
    <2>4. CASE run.at # "insert"
        BY <2>1, <2>4, PromiseStutters
    <2>5. QED
        BY <2>3, <2>4
<1>9. CASE LateInsert
    <2>1. PICK o \in late : /\ late' = late \ {o}
                            /\ rows' = IF progressed THEN rows ELSE o
        BY <1>9 DEF LateInsert
    <2>2. UNCHANGED <<stage, storedRole, progressed, grounding>>
        BY <1>9 DEF LateInsert
    <2>3. Promise!Land
        BY <2>1, <2>2 DEF Promise!Land
    <2>4. QED
        BY <2>3 DEF Promise!Next
<1>10. CASE AdvanceToDayOne
    <2>1. /\ stage = "confirmation" /\ stage' = "coaching" /\ rows # NoOutline
          /\ UNCHANGED <<storedRole, rows, late, progressed, grounding>>
        BY <1>10 DEF AdvanceToDayOne
    <2>2. ~progressed
        BY <2>1 DEF FrozenInv
    <2>3. Promise!Begin
        BY <2>1, <2>2 DEF Promise!Begin, Promise!NoPlan, NoOutline
    <2>4. QED
        BY <2>3 DEF Promise!Next
<1>11. CASE Progress
    <2>1. /\ stage = "coaching" /\ progressed'
          /\ UNCHANGED <<stage, storedRole, rows, late, grounding>>
        BY <1>11 DEF Progress
    <2>2. CASE progressed
        BY <2>1, <2>2 DEF Promise!planVars
    <2>3. CASE ~progressed
        <3>1. Promise!Progress
            BY <2>1, <2>3 DEF Promise!Progress
        <3>2. QED
            BY <3>1 DEF Promise!Next
    <2>4. QED
        BY <2>2, <2>3
<1>12. CASE UNCHANGED vars
    <2>1. UNCHANGED <<stage, storedRole, rows, late, progressed, grounding>>
        BY <1>12 DEF vars
    <2>2. QED
        BY <2>1, PromiseStutters
<1>13. QED
    BY <1>1, <1>2, <1>3, <1>4, <1>5, <1>6, <1>7, <1>8, <1>9, <1>10, <1>11, <1>12
       DEF Next

\* The pages as coded, with every run that fails or is stopped, keep the
\* promise of LearningPlan.tla: a role stored once, plans over its skills and
\* at most one addition, and none that lands late more than once.
THEOREM OnboardingKeepsPromise == Spec => PlanPromise
<1>1. Types /\ PlanInv /\ LeanInv /\ LeanInv' /\ FrozenInv /\ [Next]_vars
        => [Promise!Next]_(Promise!planVars)
    BY PromiseStep
<1>2. QED
    BY <1>1, PromiseInit, TypesInvariant, PlanInvariant, LeanInvariant,
       FrozenInvariant, PTL DEF Spec, PlanPromise, Promise!Spec
=============================================================================
