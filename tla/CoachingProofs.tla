--------------------------- MODULE CoachingProofs ---------------------------
(***************************************************************************)
(* For any outline, any number of overlapping script runs, failures and    *)
(* patch-notes: the types, that what is completed was measured and stays   *)
(* completed in its mode, that a delivered note reached its topic, and     *)
(* that coaching keeps the promise of Journey.tla.                         *)
(***************************************************************************)
EXTENDS Coaching, PaceMathProofs, SequenceTheorems, FiniteSetTheorems

NoteTypes == [origin : Topics, high : BOOLEAN, status : NoteStatuses]

TypeInv == TypeOK /\ Len(notes) <= MaxNotes

-----------------------------------------------------------------------------
(* The runs                                                                *)

\* What a step makes of a run: it goes on with its topic and mode, ends, or
\* takes a note that exists.
Succeeds(old, new) ==
    /\ new \in RunStates
    /\ new.at \in (CompletionSteps \ {"snapshot"}) \cup {"idle", "learned"}
    /\ new.at \in CompletionSteps =>
          /\ old.at \in CompletionSteps
          /\ new.topic = old.topic /\ new.testOut = old.testOut
          /\ new.at # "adapt" => old.at # "snapshot"
    /\ new.note <= Len(notes)
    /\ new.at \in {"augment", "deliver", "learned"} => new.note # 0

LEMMA IdleRunTypes == IdleRun \in RunStates
<1>1. 1 \in Topics /\ 0 \in 0..MaxNotes
    BY CoachingAssumption DEF Topics
<1>2. SignalUnit(Expected) \in Nat
    <2>1. Expected \in Nat /\ Expected * Expected \in Nat
        BY CoachingAssumption
    <2>2. QED
        BY <2>1 DEF SignalUnit
<1>3. 0 \in Signal01
    BY <1>2 DEF Signal01
<1>4. QED
    BY <1>1, <1>3 DEF IdleRun, RunStates

LEMMA RunStepShape ==
    ASSUME TypeInv, NEW r \in Runs, RunStep(r)
    PROVE  \E new \in RunStates :
              Succeeds(runs[r], new) /\ runs' = [runs EXCEPT ![r] = new]
<1>1. /\ runs \in [Runs -> RunStates] /\ runs[r] \in RunStates
      /\ runs[r].note <= Len(notes)
      /\ runs[r].at \in {"augment", "deliver"} \cup DecisionSteps => runs[r].note # 0
    BY DEF TypeInv, TypeOK
<1>2. Len(notes) \in Nat /\ Len(notes) <= MaxNotes /\ MaxNotes \in Nat
    BY CoachingAssumption DEF TypeInv, TypeOK
<1>3. ASSUME NEW n \in 0..Len(notes),
             NEW step \in (CompletionSteps \ {"snapshot"}) \cup {"learned"},
             n # 0 \/ step \notin {"augment", "deliver", "learned"},
             step \in CompletionSteps => runs[r].at \in CompletionSteps,
             step \in CompletionSteps /\ step # "adapt" => runs[r].at # "snapshot",
             runs' = [runs EXCEPT ![r] = [runs[r] EXCEPT !.at = step, !.note = n]]
      PROVE  \E new \in RunStates :
                Succeeds(runs[r], new) /\ runs' = [runs EXCEPT ![r] = new]
    <2> DEFINE new == [runs[r] EXCEPT !.at = step, !.note = n]
    <2>1. new \in RunStates
        <3>1. n \in 0..MaxNotes
            BY <1>2
        <3>2. step \in {"idle"} \cup CompletionSteps \cup DecisionSteps
            BY DEF DecisionSteps
        <3>3. QED
            BY <1>1, <3>1, <3>2 DEF RunStates
    <2>2. /\ new.at = step /\ new.note = n
          /\ new.topic = runs[r].topic /\ new.testOut = runs[r].testOut
        BY <1>1 DEF RunStates
    <2>3. n <= Len(notes)
        BY <1>2
    <2>4. Succeeds(runs[r], new)
        BY <1>3, <2>1, <2>2, <2>3 DEF Succeeds
    <2>5. QED
        BY <1>3, <2>1, <2>4
<1>4. ASSUME NEW step \in (CompletionSteps \ {"snapshot"}) \cup {"learned"},
             runs[r].note # 0 \/ step \notin {"augment", "deliver", "learned"},
             step \in CompletionSteps => runs[r].at \in CompletionSteps,
             step \in CompletionSteps /\ step # "adapt" => runs[r].at # "snapshot",
             Goto(r, step)
      PROVE  \E new \in RunStates :
                Succeeds(runs[r], new) /\ runs' = [runs EXCEPT ![r] = new]
    <2>1. runs[r].note \in 0..Len(notes)
        BY <1>1, <1>2 DEF RunStates
    <2>2. [runs[r] EXCEPT !.at = step] =
             [runs[r] EXCEPT !.at = step, !.note = runs[r].note]
        BY <1>1 DEF RunStates
    <2>3. runs' = [runs EXCEPT ![r] = [runs[r] EXCEPT !.at = step, !.note = runs[r].note]]
        BY <1>1, <1>4, <2>2 DEF Goto
    <2>4. QED
        BY <1>3, <1>4, <2>1, <2>3
<1>5. ASSUME End(r)
      PROVE  \E new \in RunStates :
                Succeeds(runs[r], new) /\ runs' = [runs EXCEPT ![r] = new]
    <2>1. Succeeds(runs[r], IdleRun)
        BY <1>2, IdleRunTypes DEF Succeeds, IdleRun, CompletionSteps
    <2>2. QED
        BY <1>5, <2>1, IdleRunTypes DEF End
<1>6. CASE WriteSnapshot(r)
    BY <1>4, <1>6 DEF WriteSnapshot, At, CompletionSteps
<1>7. CASE ExtendPacing(r)
    BY <1>4, <1>7 DEF ExtendPacing, At, CompletionSteps
<1>8. CASE KeepPace(r)
    BY <1>4, <1>8 DEF KeepPace, At, CompletionSteps
<1>9. CASE PickNone(r)
    BY <1>4, <1>9 DEF PickNone, At, CompletionSteps
<1>10. CASE AugmentHigh(r)
    BY <1>1, <1>4, <1>10 DEF AugmentHigh, At, CompletionSteps
<1>11. CASE AugmentLearned(r)
    BY <1>1, <1>4, <1>11 DEF AugmentLearned, At, CompletionSteps, DecisionSteps
<1>12. CASE EnrichmentRaises(r) \/ MarkCompleted(r) \/ ResolveDecision(r)
    BY <1>5, <1>12 DEF EnrichmentRaises, MarkCompleted, ResolveDecision
<1>13. CASE PickHigh(r)
    <2>1. PICK n \in 1..Len(notes) :
             runs' = [runs EXCEPT ![r].note = n, ![r].at = "augment"]
        BY <1>13 DEF PickHigh, FirstOf, HighPending, Pending
    <2>2. runs' = [runs EXCEPT ![r] = [runs[r] EXCEPT !.at = "augment", !.note = n]]
        BY <1>1, <2>1 DEF RunStates
    <2>3. n \in 0..Len(notes) /\ n # 0
        BY <1>2
    <2>4. QED
        BY <1>3, <1>13, <2>2, <2>3 DEF PickHigh, At, CompletionSteps
<1>14. CASE PickLow(r)
    <2>1. PICK n \in 1..Len(notes) :
             runs' = [runs EXCEPT ![r].note = n, ![r].at = "mark"]
        BY <1>14 DEF PickLow, FirstOf, Pending
    <2>2. runs' = [runs EXCEPT ![r] = [runs[r] EXCEPT !.at = "mark", !.note = n]]
        BY <1>1, <2>1 DEF RunStates
    <2>3. n \in 0..Len(notes) /\ n # 0
        BY <1>2
    <2>4. QED
        BY <1>3, <1>14, <2>2, <2>3 DEF PickLow, At, CompletionSteps
<1>15. CASE DeliverHigh(r)
    <2>1. PICK n \in 0..Len(notes) : n = 0
        BY <1>2
    <2>2. runs' = [runs EXCEPT ![r] = [runs[r] EXCEPT !.at = "mark", !.note = n]]
        BY <1>1, <1>15, <2>1 DEF DeliverHigh, RunStates
    <2>3. runs[r].at = "deliver"
        BY <1>15 DEF DeliverHigh, At
    <2>4. /\ "mark" \in (CompletionSteps \ {"snapshot"}) \cup {"learned"}
          /\ "mark" \notin {"augment", "deliver", "learned"}
          /\ runs[r].at \in CompletionSteps /\ runs[r].at # "snapshot"
        BY <2>3 DEF CompletionSteps
    <2>5. QED
        BY <1>3, <2>2, <2>4
<1>16. QED
    BY <1>6, <1>7, <1>8, <1>9, <1>10, <1>11, <1>12, <1>13, <1>14, <1>15 DEF RunStep

-----------------------------------------------------------------------------
(* Types                                                                   *)

\* Types of everything but the runs, and of what refers to notes.
RestTypes ==
    /\ status \in [Topics -> Statuses]
    /\ provenance \in [Topics -> 0..MaxNotes]
    /\ window \in Seq(Signal01) /\ Len(window) <= DriftWindow
    /\ measured \subseteq Topics
    /\ extension \in Nat
    /\ coldStart \in BOOLEAN
    /\ emerging \in BOOLEAN
    /\ notes \in Seq(NoteTypes) /\ Len(notes) <= MaxNotes
    /\ stage \in {"coaching", "verification", "goal"}
    /\ current \in Topics
    /\ signal \in Signal01
    /\ isTestOut \in BOOLEAN
    /\ done \in BOOLEAN
    /\ banner \in 0..Len(notes)
    /\ page \in Runs
    /\ faults \in Nat

RunTypes ==
    /\ runs \in [Runs -> RunStates]
    /\ \A r \in Runs :
          /\ runs[r].note <= Len(notes)
          /\ runs[r].at \in {"augment", "deliver"} \cup DecisionSteps
                => runs[r].note # 0

LEMMA TypeParts == TypeInv <=> RestTypes /\ RunTypes
BY DEF TypeInv, TypeOK, RestTypes, RunTypes, NoteTypes

LEMMA TrailingTypes ==
    ASSUME NEW rows \in Seq(Signal01), Len(rows) <= DriftWindow, NEW s \in Signal01
    PROVE  /\ Trailing(Append(rows, s)) \in Seq(Signal01)
           /\ Len(Trailing(Append(rows, s))) <= DriftWindow
<1>1. PICK all \in Seq(Signal01) : all = Append(rows, s) /\ Len(all) = Len(rows) + 1
    BY AppendProperties
<1>2. Len(rows) \in Nat /\ Len(all) \in Nat
    OBVIOUS
<1>3. CASE Len(all) <= DriftWindow
    BY <1>1, <1>3 DEF Trailing
<1>4. CASE ~(Len(all) <= DriftWindow)
    <2>1. Len(all) = 4
        BY <1>1, <1>2, <1>4 DEF DriftWindow
    <2>2. SubSeq(all, 2, 4) \in Seq(Signal01) /\ Len(SubSeq(all, 2, 4)) = 3
        <3>1. \A i \in 2..4 : all[i] \in Signal01
            <4>1. all \in [1..Len(all) -> Signal01]
                BY LenProperties
            <4>2. \A i \in 2..4 : i \in 1..Len(all)
                BY <2>1
            <4>3. QED
                BY <4>1, <4>2
        <3>2. QED
            BY <3>1, SubSeqProperties
    <2>3. QED
        BY <1>1, <1>4, <2>2 DEF Trailing, DriftWindow
<1>5. QED
    BY <1>3, <1>4

\* One run changes; the notes that exist stay.
LEMMA OneRunTypes ==
    ASSUME TypeInv, NEW r \in Runs, NEW new \in RunStates,
           runs' = [runs EXCEPT ![r] = new],
           new.note <= Len(notes),
           new.at \in {"augment", "deliver"} \cup DecisionSteps => new.note # 0,
           Len(notes') = Len(notes)
    PROVE  RunTypes'
BY DEF TypeInv, TypeOK, RunTypes

LEMMA ResolvedTypes ==
    ASSUME TypeInv, NEW r \in Runs, runs[r].note # 0, NEW s \in NoteStatuses
    PROVE  /\ Resolved(r, s) \in Seq(NoteTypes)
           /\ Len(Resolved(r, s)) = Len(notes)
<1>1. notes \in Seq(NoteTypes) /\ runs[r].note \in 1..Len(notes)
    BY DEF TypeInv, TypeOK, RunStates, NoteTypes
<1>2. PICK n \in 1..Len(notes) : n = runs[r].note
    BY <1>1
<1>3. [notes[n] EXCEPT !.status = s] \in NoteTypes
    <2>1. notes[n] \in NoteTypes
        BY <1>1
    <2>2. QED
        BY <2>1 DEF NoteTypes
<1>4. Resolved(r, s) = [notes EXCEPT ![n] = [notes[n] EXCEPT !.status = s]]
    BY <1>1, <1>2 DEF Resolved
<1>5. QED
    BY <1>1, <1>3, <1>4

LEMMA AugmentedTypes ==
    ASSUME TypeInv, NEW r \in Runs, runs[r].note # 0
    PROVE  /\ notes[runs[r].note].origin \in Topics
           /\ Augmented(r) \in [Topics -> 0..MaxNotes]
           /\ runs[r].note \in 1..Len(notes)
<1>1. /\ notes \in Seq(NoteTypes) /\ runs[r].note \in 1..Len(notes)
      /\ runs[r].note \in 0..MaxNotes
    BY DEF TypeInv, TypeOK, RunStates, NoteTypes
<1>2. notes[runs[r].note] \in NoteTypes
    BY <1>1
<1>3. notes[runs[r].note].origin \in Topics
    BY <1>2 DEF NoteTypes
<1>4. provenance \in [Topics -> 0..MaxNotes]
    BY DEF TypeInv, TypeOK
<1>5. QED
    BY <1>1, <1>3, <1>4 DEF Augmented

LEMMA RunStepTypes ==
    ASSUME TypeInv, NEW r \in Runs, RunStep(r)
    PROVE  TypeInv'
<1>1. PICK new \in RunStates : Succeeds(runs[r], new) /\ runs' = [runs EXCEPT ![r] = new]
    BY RunStepShape
<1>2. /\ new.note <= Len(notes)
      /\ new.at \in {"augment", "deliver"} \cup DecisionSteps => new.note # 0
    BY <1>1 DEF Succeeds, CompletionSteps, DecisionSteps
<1>3. /\ runs[r] \in RunStates /\ runs[r].note <= Len(notes)
      /\ runs[r].at \in {"augment", "deliver"} \cup DecisionSteps => runs[r].note # 0
    BY DEF TypeInv, TypeOK
<1>4. RestTypes
    BY TypeParts
<1>5. RestTypes' /\ Len(notes') = Len(notes)
    <2>1. CASE WriteSnapshot(r)
        <3>1. runs[r].signal \in Signal01 /\ runs[r].topic \in Topics
            BY <1>3 DEF RunStates
        <3>2. /\ window' \in Seq(Signal01) /\ Len(window') <= DriftWindow
              /\ measured' \subseteq Topics
            BY <1>4, <2>1, <3>1, TrailingTypes DEF WriteSnapshot, RestTypes
        <3>3. UNCHANGED <<status, provenance, extension, coldStart, emerging, notes, stage,
                          current, signal, isTestOut, done, banner, page, faults>>
            BY <2>1 DEF WriteSnapshot, market, place, shown
        <3>4. QED
            BY <1>4, <3>2, <3>3 DEF RestTypes
    <2>2. CASE ExtendPacing(r)
        <3>1. extension' \in Nat
            BY <1>4, <2>2 DEF ExtendPacing, RestTypes, ExtensionDays
        <3>2. UNCHANGED <<status, provenance, window, measured, coldStart, emerging, notes,
                          stage, current, signal, isTestOut, done, banner, page, faults>>
            BY <2>2 DEF ExtendPacing, market, place, shown
        <3>3. QED
            BY <1>4, <3>1, <3>2 DEF RestTypes
    <2>3. CASE EnrichmentRaises(r) \/ KeepPace(r) \/ PickHigh(r) \/ PickLow(r) \/ PickNone(r)
        <3>1. UNCHANGED <<status, provenance, window, measured, extension, coldStart,
                          emerging, notes, stage, current, signal, isTestOut, done, banner,
                          page, faults>>
            BY <2>3 DEF EnrichmentRaises, KeepPace, PickHigh, PickLow, PickNone, allButRuns,
                        pace, market, place, shown
        <3>2. QED
            BY <1>4, <3>1 DEF RestTypes
    <2>4. CASE AugmentHigh(r) \/ AugmentLearned(r)
        <3>1. runs[r].note # 0 /\ provenance' = Augmented(r)
            BY <1>3, <2>4 DEF AugmentHigh, AugmentLearned, At, DecisionSteps
        <3>2. provenance' \in [Topics -> 0..MaxNotes]
            BY <3>1, AugmentedTypes
        <3>3. UNCHANGED <<status, window, measured, extension, coldStart, emerging, notes,
                          stage, current, signal, isTestOut, done, banner, page, faults>>
            BY <2>4 DEF AugmentHigh, AugmentLearned, pace, market, place, shown
        <3>4. QED
            BY <1>4, <3>2, <3>3 DEF RestTypes
    <2>5. CASE DeliverHigh(r) \/ ResolveDecision(r)
        <3>1. PICK s \in NoteStatuses : runs[r].note # 0 /\ notes' = Resolved(r, s)
            BY <1>3, <2>5 DEF DeliverHigh, ResolveDecision, At, DecisionSteps, NoteStatuses
        <3>2. notes' \in Seq(NoteTypes) /\ Len(notes') = Len(notes)
            BY <3>1, ResolvedTypes
        <3>3. banner' \in {0, banner}
            BY <2>5 DEF DeliverHigh, ResolveDecision, shown
        <3>4. banner' \in 0..Len(notes')
            BY <1>4, <3>2, <3>3 DEF RestTypes
        <3>5. UNCHANGED <<status, provenance, window, measured, extension, coldStart,
                          emerging, stage, current, signal, isTestOut, done, page, faults>>
            BY <2>5 DEF DeliverHigh, ResolveDecision, pace, market, place, shown
        <3>6. QED
            BY <1>4, <3>2, <3>4, <3>5 DEF RestTypes
    <2>6. CASE MarkCompleted(r)
        <3>1. status' \in [Topics -> Statuses]
            BY <1>4, <2>6 DEF MarkCompleted, RestTypes, Statuses
        <3>2. done' \in BOOLEAN
            BY <2>6 DEF MarkCompleted
        <3>3. banner' \in 0..Len(notes)
            <4>1. runs[r].note \in 0..Len(notes)
                BY <1>3 DEF RunStates
            <4>2. QED
                BY <1>4, <2>6, <4>1 DEF MarkCompleted, RestTypes
        <3>4. UNCHANGED <<provenance, window, measured, extension, coldStart, emerging,
                          notes, stage, current, signal, isTestOut, page, faults>>
            BY <2>6 DEF MarkCompleted, pace, market, place
        <3>5. QED
            BY <1>4, <3>1, <3>2, <3>3, <3>4 DEF RestTypes
    <2>7. QED
        BY <2>1, <2>2, <2>3, <2>4, <2>5, <2>6 DEF RunStep
<1>6. RunTypes'
    BY <1>1, <1>2, <1>5, OneRunTypes
<1>7. QED
    BY <1>5, <1>6 DEF TypeInv, TypeOK, RestTypes, RunTypes, NoteTypes

\* What the learner does, and what happens around the page.
LEMMA AroundRunTypes ==
    ASSUME TypeInv, Learner \/ Environment
    PROVE  TypeInv'
<1>1. RestTypes /\ RunTypes
    BY TypeParts
<1>2. IdleRun \in RunStates
    BY IdleRunTypes
<1>3. page \in Runs /\ runs \in [Runs -> RunStates] /\ Len(notes) \in Nat
    BY <1>1 DEF RestTypes, RunTypes
<1>4. CASE FinishQuiz
    <2>1. signal' \in Signal01
        <3>1. PICK o \in Outcomes : signal' = Signal(Expected, o.score, o.days)
            BY <1>4 DEF FinishQuiz
        <3>2. Expected \in Pos /\ o.score \in Scores /\ o.days \in Nat
            BY CoachingAssumption DEF Pos
        <3>3. QED
            BY <3>1, <3>2, SignalRange DEF Signal01
    <2>2. isTestOut' \in BOOLEAN /\ stage' = "verification"
        BY <1>4 DEF FinishQuiz
    <2>3. UNCHANGED <<status, provenance, window, measured, extension, coldStart, emerging,
                      notes, current, done, banner, runs, page, faults>>
        BY <1>4 DEF FinishQuiz, pace, market, shown
    <2>4. QED
        BY <1>1, <2>1, <2>2, <2>3 DEF TypeInv, TypeOK, RestTypes, RunTypes, NoteTypes
<1>5. CASE StartCompletion
    <2> DEFINE new == [at |-> "snapshot", topic |-> current, signal |-> signal,
                       testOut |-> isTestOut, note |-> 0]
    <2>1. new \in RunStates
        BY <1>1, CoachingAssumption DEF RestTypes, RunStates, CompletionSteps
    <2>2. runs' = [runs EXCEPT ![page] = new] /\ UNCHANGED notes
        BY <1>5 DEF StartCompletion, allButRuns
    <2>3. /\ new.note <= Len(notes) /\ Len(notes') = Len(notes)
          /\ new.at \notin {"augment", "deliver"} \cup DecisionSteps
        BY <1>3, <2>2 DEF DecisionSteps
    <2>4. RunTypes'
        <3> HIDE DEF new
        <3>1. QED
            BY <1>3, <2>1, <2>2, <2>3, OneRunTypes
    <2>5. QED
        BY <1>1, <1>5, <2>4
           DEF StartCompletion, allButRuns, pace, market, place, shown, TypeInv, TypeOK,
               RestTypes, RunTypes, NoteTypes
<1>6. CASE ClickLearnNow \/ ClickDefer
    <2>1. PICK step \in {"learn", "defer"} : Decide(step)
        BY <1>6 DEF ClickLearnNow, ClickDefer
    <2> DEFINE new == [IdleRun EXCEPT !.at = step, !.note = banner]
    <2>2. new \in RunStates /\ new.note = banner /\ banner # 0 /\ banner <= Len(notes)
        <3>1. banner \in 0..MaxNotes /\ banner # 0 /\ banner <= Len(notes)
            BY <1>1, <1>3, <2>1, CoachingAssumption DEF RestTypes, Decide
        <3>2. QED
            BY <1>2, <3>1 DEF RunStates, DecisionSteps
    <2>3. runs' = [runs EXCEPT ![page] = new] /\ UNCHANGED notes
        BY <2>1 DEF Decide, allButRuns
    <2>4. RunTypes'
        BY <1>3, <2>2, <2>3, OneRunTypes
    <2>5. QED
        BY <1>1, <2>1, <2>4
           DEF Decide, allButRuns, pace, market, place, shown, TypeInv, TypeOK,
               RestTypes, RunTypes, NoteTypes
<1>7. CASE Continue
    <2>1. current' \in Topics
        BY <1>7 DEF Continue, NotStarted
    <2>2. signal' \in Signal01 /\ banner' \in 0..Len(notes)
        BY <1>2, <1>3, <1>7 DEF Continue, IdleRun, RunStates
    <2>3. QED
        BY <1>1, <1>7, <2>1, <2>2
           DEF Continue, pace, market, TypeInv, TypeOK, RestTypes, RunTypes, NoteTypes
<1>8. CASE ViewClosingNote
    BY <1>1, <1>8
       DEF ViewClosingNote, pace, market, shown, TypeInv, TypeOK, RestTypes, RunTypes,
           NoteTypes
<1>9. CASE Interrupt
    BY <1>1, <1>9
       DEF Interrupt, pace, market, place, shown, TypeInv, TypeOK, RestTypes, RunTypes,
           NoteTypes
<1>10. CASE NoteCreated
    <2>1. PICK note \in NoteTypes : notes' = Append(notes, note)
        BY <1>10 DEF NoteCreated, NoteTypes, NoteStatuses
    <2>2. notes' \in Seq(NoteTypes) /\ Len(notes') = Len(notes) + 1
        BY <1>1, <2>1, AppendProperties DEF RestTypes
    <2>3. Len(notes') <= MaxNotes
        BY <1>3, <1>10, <2>2, CoachingAssumption DEF NoteCreated
    <2>4. banner' \in 0..Len(notes')
        BY <1>1, <1>3, <1>10, <2>2 DEF NoteCreated, RestTypes, shown
    <2>5. RunTypes'
        <3>1. \A r \in Runs : runs[r].note \in Int
            BY <1>3 DEF RunStates
        <3>2. UNCHANGED runs
            BY <1>10 DEF NoteCreated
        <3>3. QED
            BY <1>1, <1>3, <2>2, <3>1, <3>2 DEF RunTypes
    <2>6. QED
        BY <1>1, <1>10, <2>2, <2>3, <2>4, <2>5
           DEF NoteCreated, pace, market, place, shown, TypeInv, TypeOK, RestTypes,
               RunTypes, NoteTypes
<1>11. CASE RoleRefreshed
    BY <1>1, <1>11
       DEF RoleRefreshed, pace, place, shown, TypeInv, TypeOK, RestTypes, RunTypes, NoteTypes
<1>12. CASE CalibrationEnds
    BY <1>1, <1>12
       DEF CalibrationEnds, pace, place, shown, TypeInv, TypeOK, RestTypes, RunTypes,
           NoteTypes
<1>13. ASSUME NEW r \in Runs, Fail(r)
       PROVE  TypeInv'
    <2>1. runs' = [runs EXCEPT ![r] = IdleRun] /\ UNCHANGED notes
        BY <1>13 DEF Fail, End
    <2>2. /\ IdleRun.note <= Len(notes) /\ Len(notes') = Len(notes)
          /\ IdleRun.at \notin {"augment", "deliver"} \cup DecisionSteps
        BY <1>3, <2>1 DEF IdleRun, DecisionSteps
    <2>3. RunTypes'
        BY <1>2, <2>1, <2>2, OneRunTypes
    <2>4. QED
        BY <1>1, <1>13, <2>3
           DEF Fail, pace, market, place, shown, TypeInv, TypeOK, RestTypes, RunTypes,
               NoteTypes
<1>14. QED
    BY <1>4, <1>5, <1>6, <1>7, <1>8, <1>9, <1>10, <1>11, <1>12, <1>13
       DEF Learner, Environment

LEMMA InitTypes == Init => TypeInv
<1> SUFFICES ASSUME Init
             PROVE  TypeInv
    OBVIOUS
<1>1. IdleRun \in RunStates
    BY IdleRunTypes
<1>2. 0 \in Signal01 /\ 1 \in Topics /\ 0 \in 0..MaxNotes
    BY <1>1 DEF IdleRun, RunStates
<1>3. RestTypes
    <2>1. /\ status \in [Topics -> Statuses]
          /\ provenance \in [Topics -> 0..MaxNotes]
        BY <1>2 DEF Init, Statuses
    <2>2. /\ window \in Seq(Signal01) /\ Len(window) = 0
          /\ notes \in Seq(NoteTypes) /\ Len(notes) = 0
        BY DEF Init
    <2>3. /\ Len(window) <= DriftWindow /\ Len(notes) <= MaxNotes /\ banner \in 0..Len(notes)
        BY <2>2, CoachingAssumption DEF Init, DriftWindow
    <2>4. coldStart \in BOOLEAN /\ emerging \in BOOLEAN
        BY DEF Init
    <2>5. QED
        BY <1>2, <2>1, <2>2, <2>3, <2>4 DEF Init, RestTypes
<1>4. RunTypes
    BY <1>1 DEF Init, RunTypes, IdleRun, DecisionSteps
<1>5. QED
    BY <1>3, <1>4, TypeParts

LEMMA StepTypes ==
    ASSUME TypeInv, [Next]_vars
    PROVE  TypeInv'
<1>1. CASE Learner \/ Environment
    BY <1>1, AroundRunTypes
<1>2. ASSUME NEW r \in Runs, RunStep(r)
      PROVE  TypeInv'
    BY <1>2, RunStepTypes
<1>3. CASE UNCHANGED vars
    BY <1>3 DEF vars, TypeInv, TypeOK
<1>4. QED
    BY <1>1, <1>2, <1>3 DEF Next

\* Every variable of coaching has its type, and every note a run or the banner
\* holds exists.
THEOREM CoachingTypes == Spec => []TypeOK
<1>1. Init => TypeInv
    BY InitTypes
<1>2. TypeInv /\ [Next]_vars => TypeInv'
    BY StepTypes
<1>3. TypeInv => TypeOK
    BY DEF TypeInv
<1>4. QED
    BY <1>1, <1>2, <1>3, PTL DEF Spec

-----------------------------------------------------------------------------
(* Order, modes and measurement                                            *)

Mode(testOut) == IF testOut THEN "completed_test_out" ELSE "completed"

\* The topics before the current one are completed, those after it are not
\* started, and the current one is completed in the mode of the session.
OrderInv ==
    /\ \A t \in Topics : /\ t < current => status[t] # "not_started"
                         /\ t > current => status[t] = "not_started"
    /\ stage = "coaching" => status[current] = "not_started"
    /\ done \/ stage = "goal" => status[current] # "not_started"
    /\ status[current] # "not_started" => status[current] = Mode(isTestOut)

\* A run that completes a topic: the current one, in the mode of the session,
\* or an earlier one, in the mode it was completed in.
RunFits(run) ==
    run.at \in CompletionSteps =>
       /\ run.topic <= current
       /\ run.topic = current => stage # "coaching" /\ run.testOut = isTestOut
       /\ run.topic < current => status[run.topic] = Mode(run.testOut)
       /\ run.at # "snapshot" => run.topic \in measured

RunsInv ==
    /\ \A r \in Runs : RunFits(runs[r])
    /\ runs[page].at \in CompletionSteps => runs[page].topic = current

CourseInv == OrderInv /\ RunsInv /\ CompletedMeasured

\* A step of a run, or the end of one, that leaves status and place alone.
LEMMA RunsFit ==
    ASSUME TypeInv, CourseInv, NEW r \in Runs, NEW new \in RunStates,
           runs' = [runs EXCEPT ![r] = new],
           new.at \in CompletionSteps =>
              /\ runs[r].at \in CompletionSteps
              /\ new.topic = runs[r].topic /\ new.testOut = runs[r].testOut
              /\ new.at # "snapshot" => new.topic \in measured',
           UNCHANGED <<status, stage, current, isTestOut, page>>,
           measured \subseteq measured', done' => status[current] # "not_started"
    PROVE  CourseInv'
<1>1. /\ runs \in [Runs -> RunStates] /\ runs'[r] = new
      /\ \A q \in Runs \ {r} : runs'[q] = runs[q]
    BY DEF TypeInv, TypeOK
<1>2. OrderInv'
    BY DEF CourseInv, OrderInv
<1>3. ASSUME NEW q \in Runs, runs'[q].at \in CompletionSteps
      PROVE  /\ runs'[q].topic <= current
             /\ runs'[q].topic = current => stage # "coaching" /\ runs'[q].testOut = isTestOut
             /\ runs'[q].topic < current => status[runs'[q].topic] = Mode(runs'[q].testOut)
             /\ runs'[q].at # "snapshot" => runs'[q].topic \in measured'
             /\ q = page => runs'[q].topic = current
    <2>1. CASE q = r
        <3>1. /\ runs[r].at \in CompletionSteps
              /\ runs'[q].topic = runs[r].topic /\ runs'[q].testOut = runs[r].testOut
              /\ runs'[q].at # "snapshot" => runs'[q].topic \in measured'
            BY <1>1, <1>3, <2>1
        <3>2. QED
            BY <2>1, <3>1 DEF CourseInv, RunsInv, RunFits
    <2>2. CASE q # r
        <3>1. runs'[q] = runs[q]
            BY <1>1, <2>2
        <3>2. QED
            BY <1>3, <3>1 DEF CourseInv, RunsInv, RunFits
    <2>3. QED
        BY <2>1, <2>2
<1>4. page \in Runs
    BY DEF TypeInv, TypeOK
<1>5. RunsInv'
    BY <1>3, <1>4 DEF RunsInv, RunFits
<1>6. CompletedMeasured'
    BY DEF CourseInv, CompletedMeasured, Completed, NotStarted
<1>7. QED
    BY <1>2, <1>5, <1>6 DEF CourseInv

\* What a run marks was measured, and is marked in its mode.
LEMMA MarkIsFit ==
    ASSUME TypeInv, CourseInv, NEW r \in Runs, MarkCompleted(r)
    PROVE  /\ runs[r].topic \in Topics /\ runs[r].topic \in measured
           /\ status' = [status EXCEPT ![runs[r].topic] = Mode(runs[r].testOut)]
           /\ runs[r].topic <= current
           /\ runs[r].topic = current => /\ stage # "coaching"
                                         /\ Mode(runs[r].testOut) = Mode(isTestOut)
           /\ runs[r].topic # current =>
                 status[runs[r].topic] = Mode(runs[r].testOut) /\ r # page
<1>1. runs[r].at = "mark" /\ runs[r].at \in CompletionSteps
    BY DEF MarkCompleted, At, CompletionSteps
<1>2. runs[r].topic \in Topics /\ current \in Topics
    BY DEF TypeInv, TypeOK, RunStates
<1>3. runs[r].topic \in Int /\ current \in Int
    BY <1>2 DEF Topics
<1>4. status' = [status EXCEPT ![runs[r].topic] = Mode(runs[r].testOut)]
    BY DEF MarkCompleted, Mode
<1>5. RunFits(runs[r]) /\ (r = page => runs[r].topic = current)
    BY <1>1 DEF CourseInv, RunsInv
<1>6. QED
    BY <1>1, <1>2, <1>3, <1>4, <1>5 DEF RunFits

LEMMA ModeIsCompleted == \A b \in BOOLEAN : Mode(b) # "not_started"
BY DEF Mode

LEMMA MarkKeepsCourse ==
    ASSUME TypeInv, CourseInv, NEW r \in Runs, MarkCompleted(r)
    PROVE  CourseInv'
<1>1. PICK t \in Topics, b \in BOOLEAN : t = runs[r].topic /\ b = runs[r].testOut
    BY DEF TypeInv, TypeOK, RunStates
<1>2. /\ t \in measured /\ t <= current
      /\ status' = [status EXCEPT ![t] = Mode(b)]
      /\ t = current => stage # "coaching" /\ Mode(b) = Mode(isTestOut)
      /\ t # current => status[t] = Mode(b) /\ r # page
    BY <1>1, MarkIsFit
<1>3. /\ runs' = [runs EXCEPT ![r] = IdleRun] /\ done' = (done \/ r = page)
      /\ UNCHANGED <<stage, current, isTestOut, measured, page>>
    BY DEF MarkCompleted, End, pace, place
<1>4. /\ status \in [Topics -> Statuses] /\ current \in Topics
      /\ runs \in [Runs -> RunStates] /\ page \in Runs
    BY DEF TypeInv, TypeOK
<1>5. /\ \A u \in Topics \ {t} : status'[u] = status[u]
      /\ status'[t] = Mode(b) /\ Mode(b) # "not_started"
      /\ t # current => status' = status
    <2>1. \A u \in Topics \ {t} : status'[u] = status[u]
        BY <1>2, <1>4
    <2>2. status'[t] = Mode(b) /\ Mode(b) # "not_started"
        BY <1>2, <1>4, ModeIsCompleted
    <2>3. t # current => status' = status
        BY <1>2, <1>4
    <2>4. QED
        BY <2>1, <2>2, <2>3
<1>6. OrderInv'
    <2>1. ASSUME NEW u \in Topics
          PROVE  /\ u < current => status'[u] # "not_started"
                 /\ u > current => status'[u] = "not_started"
        <3>1. u \in Int /\ current \in Int /\ t \in Int
            BY <1>4 DEF Topics
        <3>2. CASE u = t
            BY <1>2, <1>5, <3>1, <3>2
        <3>3. CASE u # t
            BY <1>5, <3>3 DEF CourseInv, OrderInv
        <3>4. QED
            BY <3>2, <3>3
    <2>2. stage = "coaching" => status'[current] = "not_started"
        BY <1>2, <1>5 DEF CourseInv, OrderInv
    <2>3. done' \/ stage = "goal" => status'[current] # "not_started"
        BY <1>2, <1>3, <1>4, <1>5 DEF CourseInv, OrderInv
    <2>4. status'[current] # "not_started" => status'[current] = Mode(isTestOut)
        BY <1>2, <1>4, <1>5 DEF CourseInv, OrderInv
    <2>5. QED
        BY <1>3, <2>1, <2>2, <2>3, <2>4 DEF OrderInv, Mode
<1>7. RunsInv'
    <2>1. IdleRun.at \notin CompletionSteps
        BY DEF IdleRun, CompletionSteps
    <2>2. runs'[r] = IdleRun /\ \A q \in Runs \ {r} : runs'[q] = runs[q]
        BY <1>3, <1>4
    <2>3. ASSUME NEW q \in Runs, runs'[q].at \in CompletionSteps
          PROVE  /\ runs[q].at \in CompletionSteps /\ runs'[q] = runs[q]
                 /\ runs[q].topic < current =>
                       status'[runs[q].topic] = Mode(runs[q].testOut)
        <3>1. q # r /\ runs'[q] = runs[q] /\ runs[q].at \in CompletionSteps
            BY <2>1, <2>2, <2>3
        <3>2. runs[q].topic \in Topics /\ current \in Int /\ runs[q].topic \in Int
            BY <1>4 DEF RunStates, Topics
        <3>3. ASSUME runs[q].topic < current
              PROVE  status'[runs[q].topic] = Mode(runs[q].testOut)
            <4>1. status[runs[q].topic] = Mode(runs[q].testOut)
                BY <3>1, <3>3 DEF CourseInv, RunsInv, RunFits
            <4>2. CASE t = current
                BY <1>5, <3>2, <3>3, <4>1, <4>2
            <4>3. CASE t # current
                BY <1>5, <4>1, <4>3
            <4>4. QED
                BY <4>2, <4>3
        <3>4. QED
            BY <3>1, <3>3
    <2>4. QED
        BY <1>3, <1>4, <2>3 DEF CourseInv, RunsInv, RunFits, Mode
<1>8. CompletedMeasured'
    BY <1>2, <1>3, <1>5 DEF CourseInv, CompletedMeasured, Completed, NotStarted
<1>9. QED
    BY <1>6, <1>7, <1>8 DEF CourseInv
LEMMA CourseUnchanged ==
    ASSUME CourseInv,
           UNCHANGED <<status, stage, measured, current, isTestOut, done, runs, page>>
    PROVE  CourseInv'
<1>1. OrderInv'
    BY DEF CourseInv, OrderInv, Mode
<1>2. RunsInv'
    BY DEF CourseInv, RunsInv, RunFits, Mode
<1>3. CompletedMeasured'
    BY DEF CourseInv, CompletedMeasured, Completed, NotStarted
<1>4. QED
    BY <1>1, <1>2, <1>3 DEF CourseInv

\* The next topic is the first one not started; what still runs belongs to
\* topics completed in the mode of the run.
LEMMA ContinueKeepsCourse ==
    ASSUME TypeInv, CourseInv, Continue
    PROVE  CourseInv'
<1>1. PICK t \in NotStarted : (\A u \in NotStarted : t <= u) /\ current' = t
    BY DEF Continue
<1>2. /\ done /\ Idle(page) /\ stage' = "coaching" /\ done' = FALSE
      /\ UNCHANGED <<status, measured, runs, page>>
    BY DEF Continue, pace
<1>3. /\ current \in Topics /\ t \in Topics /\ status[t] = "not_started"
      /\ runs \in [Runs -> RunStates] /\ page \in Runs
      /\ \A u \in Topics : u \in Int
    BY <1>1 DEF TypeInv, TypeOK, NotStarted, Topics
<1>4. status[current] # "not_started" /\ status[current] = Mode(isTestOut)
    BY <1>2 DEF CourseInv, OrderInv
<1>5. current < t
    BY <1>3, <1>4 DEF CourseInv, OrderInv
<1>6. OrderInv'
    <2>1. ASSUME NEW u \in Topics
          PROVE  /\ u < t => status[u] # "not_started"
                 /\ u > t => status[u] = "not_started"
        <3>1. u \in Int /\ t \in Int /\ current \in Int
            BY <1>3
        <3>2. ASSUME u < t, status[u] = "not_started"
              PROVE  FALSE
            BY <1>1, <3>1, <3>2 DEF NotStarted
        <3>3. ASSUME u > t
              PROVE  status[u] = "not_started"
            BY <1>5, <3>1, <3>3 DEF CourseInv, OrderInv
        <3>4. QED
            BY <3>2, <3>3
    <2>2. QED
        BY <1>1, <1>2, <1>3, <2>1 DEF OrderInv
<1>7. RunsInv'
    <2>1. ASSUME NEW q \in Runs, runs[q].at \in CompletionSteps
          PROVE  /\ runs[q].topic < t
                 /\ status[runs[q].topic] = Mode(runs[q].testOut)
                 /\ runs[q].at # "snapshot" => runs[q].topic \in measured
        <3>1. RunFits(runs[q]) /\ runs[q].topic \in Int /\ current \in Int /\ t \in Int
            <4>1. RunFits(runs[q])
                BY DEF CourseInv, RunsInv
            <4>2. runs[q].topic \in Topics
                BY <1>3 DEF RunStates
            <4>3. QED
                BY <1>3, <4>1, <4>2
        <3>2. CASE runs[q].topic = current
            BY <1>4, <1>5, <2>1, <3>1, <3>2 DEF RunFits
        <3>3. CASE runs[q].topic # current
            BY <1>5, <2>1, <3>1, <3>3 DEF RunFits
        <3>4. QED
            BY <3>2, <3>3
    <2>2. runs[page].at \notin CompletionSteps
        BY <1>2 DEF Idle, CompletionSteps
    <2>3. ASSUME NEW q \in Runs
          PROVE  RunFits(runs[q])'
        <3>1. t \in Int /\ (runs[q].at \in CompletionSteps => runs[q].topic \in Int)
            <4>1. runs[q].topic \in Topics
                BY <1>3 DEF RunStates
            <4>2. QED
                BY <1>3, <4>1
        <3>2. QED
            BY <1>1, <1>2, <2>1, <3>1 DEF RunFits, Mode
    <2>4. QED
        BY <1>2, <2>2, <2>3 DEF RunsInv
<1>8. CompletedMeasured'
    BY <1>2 DEF CourseInv, CompletedMeasured, Completed, NotStarted
<1>9. QED
    BY <1>6, <1>7, <1>8 DEF CourseInv

LEMMA RunStepKeepsCourse ==
    ASSUME TypeInv, CourseInv, NEW r \in Runs, RunStep(r)
    PROVE  CourseInv'
<1>1. PICK new \in RunStates : Succeeds(runs[r], new) /\ runs' = [runs EXCEPT ![r] = new]
    BY RunStepShape
<1>2. new.at \in CompletionSteps =>
         /\ runs[r].at \in CompletionSteps
         /\ new.topic = runs[r].topic /\ new.testOut = runs[r].testOut
    BY <1>1 DEF Succeeds
<1>3. done => status[current] # "not_started"
    BY DEF CourseInv, OrderInv
<1>4. CASE MarkCompleted(r)
    BY <1>4, MarkKeepsCourse
<1>5. CASE WriteSnapshot(r)
    <2>1. UNCHANGED <<status, stage, current, isTestOut, page, done>>
        BY <1>5 DEF WriteSnapshot, place, shown
    <2>2. measured' = measured \cup {runs[r].topic}
        BY <1>5 DEF WriteSnapshot
    <2>3. QED
        BY <1>1, <1>2, <1>3, <2>1, <2>2, RunsFit
<1>6. CASE ~MarkCompleted(r) /\ ~WriteSnapshot(r)
    <2>1. UNCHANGED <<status, stage, current, isTestOut, page, done, measured>>
        BY <1>6 DEF RunStep, ExtendPacing, EnrichmentRaises, KeepPace, PickHigh, PickLow,
                    PickNone, AugmentHigh, DeliverHigh, AugmentLearned, ResolveDecision,
                    allButRuns, pace, place, shown
    <2>2. runs[r].at # "snapshot"
        BY <1>6 DEF RunStep, ExtendPacing, EnrichmentRaises, KeepPace, PickHigh, PickLow,
                    PickNone, AugmentHigh, DeliverHigh, AugmentLearned, ResolveDecision, At
    <2>3. runs[r].at \in CompletionSteps => runs[r].topic \in measured
        BY <2>2 DEF CourseInv, RunsInv, RunFits
    <2>4. QED
        BY <1>1, <1>2, <1>3, <2>1, <2>3, RunsFit
<1>7. QED
    BY <1>4, <1>5, <1>6

LEMMA AroundRunKeepsCourse ==
    ASSUME TypeInv, CourseInv, Learner \/ Environment
    PROVE  CourseInv'
<1>1. /\ runs \in [Runs -> RunStates] /\ page \in Runs /\ current \in Topics
      /\ status \in [Topics -> Statuses] /\ IdleRun \in RunStates
    BY IdleRunTypes DEF TypeInv, TypeOK
<1>2. IdleRun.at \notin CompletionSteps
    BY DEF IdleRun, CompletionSteps
<1>3. done => status[current] # "not_started"
    BY DEF CourseInv, OrderInv
<1>4. CASE FinishQuiz
    <2>1. /\ stage = "coaching" /\ stage' = "verification"
          /\ UNCHANGED <<status, measured, current, done, runs, page>>
        BY <1>4 DEF FinishQuiz, pace, shown
    <2>2. status[current] = "not_started"
        BY <2>1 DEF CourseInv, OrderInv
    <2>3. OrderInv'
        BY <2>1, <2>2 DEF CourseInv, OrderInv
    <2>4. RunsInv'
        BY <2>1 DEF CourseInv, RunsInv, RunFits, Mode
    <2>5. CompletedMeasured'
        BY <2>1 DEF CourseInv, CompletedMeasured, Completed, NotStarted
    <2>6. QED
        BY <2>3, <2>4, <2>5 DEF CourseInv
<1>5. CASE StartCompletion
    <2> DEFINE new == [at |-> "snapshot", topic |-> current, signal |-> signal,
                       testOut |-> isTestOut, note |-> 0]
    <2>1. /\ stage = "verification" /\ runs' = [runs EXCEPT ![page] = new]
          /\ UNCHANGED <<status, stage, measured, current, isTestOut, done, page>>
        BY <1>5 DEF StartCompletion, allButRuns, pace, place, shown
    <2>2. OrderInv'
        BY <2>1 DEF CourseInv, OrderInv, Mode
    <2>3. runs'[page] = new /\ \A q \in Runs \ {page} : runs'[q] = runs[q]
        BY <1>1, <2>1
    <2>4. RunsInv'
        <3>1. \A q \in Runs \ {page} : RunFits(runs[q])'
            BY <2>1, <2>3 DEF CourseInv, RunsInv, RunFits, Mode
        <3>2. RunFits(runs[page])' /\ runs'[page].topic = current
            <4>1. current \in Int
                BY <1>1 DEF Topics
            <4>2. QED
                BY <2>1, <2>3, <4>1 DEF RunFits
        <3>3. QED
            BY <2>1, <3>1, <3>2 DEF RunsInv
    <2>5. CompletedMeasured'
        BY <2>1 DEF CourseInv, CompletedMeasured, Completed, NotStarted
    <2>6. QED
        BY <2>2, <2>4, <2>5 DEF CourseInv
<1>6. CASE ClickLearnNow \/ ClickDefer
    <2>1. PICK step \in {"learn", "defer"} : Decide(step)
        BY <1>6 DEF ClickLearnNow, ClickDefer
    <2> DEFINE new == [IdleRun EXCEPT !.at = step, !.note = banner]
    <2>2. new \in RunStates /\ new.at \notin CompletionSteps
        <3>1. banner \in 0..MaxNotes
            BY CoachingAssumption DEF TypeInv, TypeOK
        <3>2. QED
            BY <1>1, <3>1 DEF RunStates, IdleRun, DecisionSteps, CompletionSteps
    <2>3. runs' = [runs EXCEPT ![page] = new]
        BY <2>1 DEF Decide
    <2>4. UNCHANGED <<status, stage, measured, current, isTestOut, done, page>>
        BY <2>1 DEF Decide, allButRuns, pace, place, shown
    <2> HIDE DEF new
    <2>5. QED
        BY <1>1, <1>3, <2>2, <2>3, <2>4, RunsFit
<1>7. CASE Continue
    BY <1>7, ContinueKeepsCourse
<1>8. CASE ViewClosingNote
    <2>1. /\ done /\ stage = "verification" /\ stage' = "goal"
          /\ UNCHANGED <<status, measured, current, isTestOut, done, runs, page>>
        BY <1>8 DEF ViewClosingNote, pace, shown
    <2>2. OrderInv'
        BY <1>3, <2>1 DEF CourseInv, OrderInv, Mode
    <2>3. RunsInv'
        BY <2>1 DEF CourseInv, RunsInv, RunFits, Mode
    <2>4. CompletedMeasured'
        BY <2>1 DEF CourseInv, CompletedMeasured, Completed, NotStarted
    <2>5. QED
        BY <2>2, <2>3, <2>4 DEF CourseInv
<1>9. CASE Interrupt
    <2>1. /\ page' \in Runs /\ runs[page'].at = "idle"
          /\ UNCHANGED <<status, stage, measured, current, isTestOut, done, runs>>
        BY <1>9 DEF Interrupt, Idle, pace, place, shown
    <2>2. OrderInv'
        BY <2>1 DEF CourseInv, OrderInv, Mode
    <2>3. RunsInv'
        BY <2>1 DEF CourseInv, RunsInv, RunFits, Mode, CompletionSteps
    <2>4. CompletedMeasured'
        BY <2>1 DEF CourseInv, CompletedMeasured, Completed, NotStarted
    <2>5. QED
        BY <2>2, <2>3, <2>4 DEF CourseInv
<1>10. CASE NoteCreated \/ RoleRefreshed \/ CalibrationEnds
    <2>1. UNCHANGED <<status, stage, measured, current, isTestOut, done, runs, page>>
        BY <1>10 DEF NoteCreated, RoleRefreshed, CalibrationEnds, pace, place, shown
    <2>2. QED
        BY <2>1, CourseUnchanged
<1>11. ASSUME NEW r \in Runs, Fail(r)
       PROVE  CourseInv'
    <2>1. /\ runs' = [runs EXCEPT ![r] = IdleRun]
          /\ UNCHANGED <<status, stage, measured, current, isTestOut, done, page>>
        BY <1>11 DEF Fail, End, pace, place, shown
    <2>2. QED
        BY <1>1, <1>2, <1>3, <2>1, RunsFit
<1>12. QED
    BY <1>4, <1>5, <1>6, <1>7, <1>8, <1>9, <1>10, <1>11 DEF Learner, Environment

LEMMA InitCourse == Init => CourseInv
<1> SUFFICES ASSUME Init
             PROVE  CourseInv
    OBVIOUS
<1>1. 1 \in Topics
    BY CoachingAssumption DEF Topics
<1>2. OrderInv
    <2>1. \A t \in Topics : t >= 1
        BY DEF Topics
    <2>2. QED
        BY <1>1, <2>1 DEF Init, OrderInv, Topics
<1>3. RunsInv
    BY DEF Init, RunsInv, RunFits, IdleRun, CompletionSteps
<1>4. CompletedMeasured
    BY DEF Init, CompletedMeasured, Completed, NotStarted
<1>5. QED
    BY <1>2, <1>3, <1>4 DEF CourseInv

LEMMA StepKeepsCourse ==
    ASSUME TypeInv, CourseInv, [Next]_vars
    PROVE  CourseInv'
<1>1. ASSUME NEW r \in Runs, RunStep(r)
      PROVE  CourseInv'
    BY <1>1, RunStepKeepsCourse
<1>2. CASE UNCHANGED vars
    BY <1>2, CourseUnchanged DEF vars
<1>3. QED
    BY <1>1, <1>2, AroundRunKeepsCourse DEF Next

LEMMA CourseAlways == Spec => [](TypeInv /\ CourseInv)
<1>1. Init => TypeInv /\ CourseInv
    BY InitTypes, InitCourse
<1>2. TypeInv /\ CourseInv /\ [Next]_vars => (TypeInv /\ CourseInv)'
    BY StepTypes, StepKeepsCourse
<1>3. QED
    BY <1>1, <1>2, PTL DEF Spec

\* A completed topic has its row in pace_snapshots, whichever run completed it
\* and however runs failed and overlapped.
THEOREM CompletedIsMeasured == Spec => []CompletedMeasured
<1>1. TypeInv /\ CourseInv => CompletedMeasured
    BY DEF CourseInv
<1>2. QED
    BY <1>1, CourseAlways, PTL
\* The goal page is not left.
LEMMA GoalIsFinal ==
    ASSUME [Next]_vars, stage = "goal"
    PROVE  stage' = "goal"
<1>1. ASSUME NEW r \in Runs, RunStep(r)
      PROVE  UNCHANGED stage
    BY <1>1 DEF RunStep, WriteSnapshot, ExtendPacing, EnrichmentRaises, KeepPace, PickHigh,
                PickLow, PickNone, AugmentHigh, DeliverHigh, MarkCompleted, AugmentLearned,
                ResolveDecision, allButRuns, place
<1>2. CASE Learner
    BY <1>2 DEF Learner, FinishQuiz, StartCompletion, ClickLearnNow, ClickDefer, Decide,
                Continue, ViewClosingNote
<1>3. CASE Environment
    BY <1>3 DEF Environment, Interrupt, NoteCreated, RoleRefreshed, CalibrationEnds, Fail,
                place
<1>4. CASE UNCHANGED vars
    BY <1>4 DEF vars
<1>5. QED
    BY <1>1, <1>2, <1>3, <1>4 DEF Next

\* Only MarkCompleted changes a status, and only from not started.
LEMMA StatusSteps ==
    ASSUME TypeInv, CourseInv, [Next]_vars
    PROVE  \/ UNCHANGED <<status>> /\ ~(stage' = "goal" /\ stage # "goal")
           \/ /\ UNCHANGED <<status>>
              /\ NotStarted = {} /\ stage' = "goal"
           \/ /\ UNCHANGED <<stage>>
              /\ status[current] = "not_started"
              /\ status' = [status EXCEPT ![current] = Mode(isTestOut)]
<1>1. ASSUME NEW r \in Runs, MarkCompleted(r)
      PROVE  \/ UNCHANGED <<status, stage>>
             \/ /\ UNCHANGED <<stage>>
                /\ status[current] = "not_started"
                /\ status' = [status EXCEPT ![current] = Mode(isTestOut)]
    <2>1. PICK t \in Topics, b \in BOOLEAN : t = runs[r].topic /\ b = runs[r].testOut
        BY DEF TypeInv, TypeOK, RunStates
    <2>2. /\ status' = [status EXCEPT ![t] = Mode(b)]
          /\ t = current => Mode(b) = Mode(isTestOut)
          /\ t # current => status[t] = Mode(b)
        BY <1>1, <2>1, MarkIsFit
    <2>3. UNCHANGED <<stage>> /\ status \in [Topics -> Statuses]
        BY <1>1 DEF MarkCompleted, place, TypeInv, TypeOK
    <2>4. status[current] # "not_started" => status[current] = Mode(isTestOut)
        BY DEF CourseInv, OrderInv
    <2>5. CASE t = current
        BY <2>2, <2>3, <2>4, <2>5
    <2>6. CASE t # current
        BY <2>2, <2>3, <2>6
    <2>7. QED
        BY <2>5, <2>6
<1>2. ASSUME NEW r \in Runs, RunStep(r), ~MarkCompleted(r)
      PROVE  UNCHANGED <<status, stage>>
    BY <1>2 DEF RunStep, WriteSnapshot, ExtendPacing, EnrichmentRaises, KeepPace, PickHigh,
                PickLow, PickNone, AugmentHigh, DeliverHigh, AugmentLearned,
                ResolveDecision, allButRuns, place
<1>3. CASE ViewClosingNote
    BY <1>3 DEF ViewClosingNote
<1>4. CASE FinishQuiz \/ Continue
    BY <1>4 DEF FinishQuiz, Continue
<1>5. CASE StartCompletion \/ ClickLearnNow \/ ClickDefer
    BY <1>5 DEF StartCompletion, ClickLearnNow, ClickDefer, Decide, allButRuns, place
<1>6. CASE Environment
    BY <1>6 DEF Environment, Interrupt, NoteCreated, RoleRefreshed, CalibrationEnds, Fail,
                place
<1>7. CASE UNCHANGED vars
    BY <1>7 DEF vars
<1>8. QED
    BY <1>1, <1>2, <1>3, <1>4, <1>5, <1>6, <1>7 DEF Next, Learner

\* A completed topic keeps its status, and so the mode it was completed in.
THEOREM StatusIsFinal == Spec => NeverReopened
<1>1. ASSUME TypeInv, CourseInv, [Next]_vars, NEW t \in Topics, status[t] # "not_started"
      PROVE  status'[t] = status[t]
    <2>1. status \in [Topics -> Statuses]
        BY <1>1 DEF TypeInv, TypeOK
    <2>2. QED
        BY <1>1, <2>1, StatusSteps
<1>2. TypeInv /\ CourseInv /\ [Next]_vars =>
         [\A t \in Topics : status[t] # "not_started" => status'[t] = status[t]]_vars
    BY <1>1
<1>3. QED
    BY <1>2, CourseAlways, PTL DEF Spec, NeverReopened

\* Coaching implements Journey: topics are completed one after the other and
\* for good, and the goal is reached when all of them are.
THEOREM CoachingKeepsPromise == Spec => JourneyPromise
<1>1. Init => Promise!Init
    BY DEF Init, Promise!Init, Completed, NotStarted
<1>2. ASSUME TypeInv, CourseInv, [Next]_vars
      PROVE  [Promise!Next]_(Promise!journeyVars)
    <2>1. /\ status \in [Topics -> Statuses] /\ current \in Topics
          /\ Completed \subseteq Topics
        BY <1>2 DEF TypeInv, TypeOK, Completed
    <2>2. CASE UNCHANGED <<status>> /\ ~(stage' = "goal" /\ stage # "goal")
        <3>1. UNCHANGED Completed
            BY <2>2 DEF Completed, NotStarted
        <3>2. stage = "goal" => stage' = "goal"
            BY <1>2, GoalIsFinal
        <3>3. UNCHANGED (stage = "goal")
            BY <2>2, <3>2
        <3>4. QED
            BY <3>1, <3>3 DEF Promise!journeyVars
    <2>3. CASE UNCHANGED <<status>> /\ NotStarted = {} /\ stage' = "goal"
        <3>1. Completed = 1..NumTopics /\ UNCHANGED Completed
            BY <2>3 DEF Completed, NotStarted, Topics
        <3>2. Promise!Reach
            BY <2>3, <3>1 DEF Promise!Reach
        <3>3. QED
            BY <3>2 DEF Promise!Next
    <2>4. CASE /\ UNCHANGED <<stage>> /\ status[current] = "not_started"
               /\ status' = [status EXCEPT ![current] = Mode(isTestOut)]
        <3>1. current \in (1..NumTopics) \ Completed
            BY <2>1, <2>4 DEF Completed, NotStarted, Topics
        <3>2. 1..(current - 1) \subseteq Completed
            <4>1. \A u \in 1..(current - 1) : u \in Topics /\ u < current
                BY <2>1, CoachingAssumption DEF Topics
            <4>2. QED
                BY <1>2, <4>1 DEF CourseInv, OrderInv, Completed, NotStarted
        <3>3. Completed' = Completed \cup {current}
            <4>1. isTestOut \in BOOLEAN
                BY <1>2 DEF TypeInv, TypeOK
            <4>2. Mode(isTestOut) # "not_started"
                BY <4>1, ModeIsCompleted
            <4>3. QED
                BY <2>1, <2>4, <4>2 DEF Completed, NotStarted
        <3>4. UNCHANGED (stage = "goal")
            BY <2>4
        <3>5. Promise!Complete
            BY <3>1, <3>2, <3>3, <3>4 DEF Promise!Complete
        <3>6. QED
            BY <3>5 DEF Promise!Next
    <2>5. QED
        BY <1>2, <2>2, <2>3, <2>4, StatusSteps
<1>3. TypeInv /\ CourseInv /\ [Next]_vars => [Promise!Next]_(Promise!journeyVars)
    BY <1>2
<1>4. QED
    BY <1>1, <1>3, CourseAlways, PTL DEF Spec, JourneyPromise, Promise!Spec

-----------------------------------------------------------------------------
(* Patch-notes                                                             *)

\* What a topic was augmented from is a note about it.
ProvenanceInv ==
    \A t \in Topics :
        provenance[t] # 0 =>
           provenance[t] \in 1..Len(notes) /\ notes[provenance[t]].origin = t

\* A run about to call a note delivered has augmented the topic; one that may
\* park a note, or put it to the learner, holds a low one.
RunNote(run) ==
    /\ run.at \in {"snapshot", "adapt", "patch"} => run.note = 0
    /\ run.at \in {"deliver", "learned"} => provenance[notes[run.note].origin] # 0
    /\ run.at \in {"mark", "defer"} /\ run.note # 0 => ~notes[run.note].high

BannerInv == banner # 0 => ~notes[banner].high

NotesInv ==
    /\ ProvenanceInv
    /\ NotesSound
    /\ \A r \in Runs : RunNote(runs[r])
    /\ BannerInv

\* What no step does to a note that exists, or to a topic augmented before.
Kept ==
    /\ Len(notes') >= Len(notes)
    /\ \A n \in 1..Len(notes) :
          notes'[n].origin = notes[n].origin /\ notes'[n].high = notes[n].high
    /\ \A t \in Topics : provenance[t] # 0 => provenance'[t] # 0

Untouched == UNCHANGED <<notes, provenance>>

Augments(n) ==
    /\ provenance' = [provenance EXCEPT ![notes[n].origin] = n]
    /\ UNCHANGED notes

Resolves(n, s) ==
    /\ notes' = [notes EXCEPT ![n].status = s]
    /\ s = "delivered" => provenance[notes[n].origin] # 0
    /\ s = "deferred" => ~notes[n].high
    /\ UNCHANGED provenance

Creates(note) ==
    /\ notes' = Append(notes, note)
    /\ note.status = "pending"
    /\ UNCHANGED provenance

LEMMA NoteSteps ==
    ASSUME TypeInv, NotesInv, [Next]_vars
    PROVE  \/ Untouched
           \/ \E n \in 1..Len(notes) : Augments(n)
           \/ \E n \in 1..Len(notes), s \in NoteStatuses : Resolves(n, s)
           \/ \E note \in NoteTypes : Creates(note)
<1>1. ASSUME NEW r \in Runs, AugmentHigh(r) \/ AugmentLearned(r)
      PROVE  \E n \in 1..Len(notes) : Augments(n)
    <2>1. runs[r].note # 0
        BY <1>1 DEF AugmentHigh, AugmentLearned, At, DecisionSteps, TypeInv, TypeOK
    <2>2. runs[r].note \in 1..Len(notes)
        BY <2>1, AugmentedTypes
    <2>3. Augments(runs[r].note)
        BY <1>1 DEF AugmentHigh, AugmentLearned, Augmented, Augments
    <2>4. QED
        BY <2>2, <2>3
<1>2. ASSUME NEW r \in Runs, DeliverHigh(r) \/ ResolveDecision(r)
      PROVE  \E n \in 1..Len(notes), s \in NoteStatuses : Resolves(n, s)
    <2>1. runs[r].note # 0
        BY <1>2 DEF DeliverHigh, ResolveDecision, At, DecisionSteps, TypeInv, TypeOK
    <2>2. runs[r].note \in 1..Len(notes) /\ RunNote(runs[r])
        BY <2>1, AugmentedTypes DEF NotesInv
    <2>3. CASE DeliverHigh(r) \/ (ResolveDecision(r) /\ At(r, "learned"))
        <3>1. Resolves(runs[r].note, "delivered")
            BY <2>2, <2>3 DEF DeliverHigh, ResolveDecision, At, Resolved, Resolves, RunNote
        <3>2. QED
            BY <2>2, <3>1 DEF NoteStatuses
    <2>4. CASE ResolveDecision(r) /\ ~At(r, "learned")
        <3>1. Resolves(runs[r].note, "deferred")
            BY <2>1, <2>2, <2>4 DEF ResolveDecision, At, Resolved, Resolves, RunNote
        <3>2. QED
            BY <2>2, <3>1 DEF NoteStatuses
    <2>5. QED
        BY <1>2, <2>3, <2>4
<1>3. ASSUME NEW r \in Runs, RunStep(r), ~AugmentHigh(r), ~AugmentLearned(r),
             ~DeliverHigh(r), ~ResolveDecision(r)
      PROVE  Untouched
    BY <1>3 DEF RunStep, WriteSnapshot, ExtendPacing, EnrichmentRaises, KeepPace, PickHigh,
                PickLow, PickNone, MarkCompleted, allButRuns, Untouched
<1>4. CASE Learner
    BY <1>4 DEF Learner, FinishQuiz, StartCompletion, ClickLearnNow, ClickDefer, Decide,
                Continue, ViewClosingNote, allButRuns, Untouched
<1>5. CASE NoteCreated
    BY <1>5 DEF NoteCreated, Creates, NoteTypes, NoteStatuses
<1>6. CASE Environment /\ ~NoteCreated
    BY <1>6 DEF Environment, Interrupt, RoleRefreshed, CalibrationEnds, Fail, Untouched
<1>7. CASE UNCHANGED vars
    BY <1>7 DEF vars, Untouched
<1>8. QED
    BY <1>1, <1>2, <1>3, <1>4, <1>5, <1>6, <1>7 DEF Next

LEMMA NotesKept ==
    ASSUME TypeInv, NotesInv, [Next]_vars
    PROVE  Kept /\ ProvenanceInv' /\ NotesSound'
<1>1. /\ notes \in Seq(NoteTypes) /\ provenance \in [Topics -> 0..MaxNotes]
      /\ Len(notes) \in Nat
      /\ \A n \in 1..Len(notes) : notes[n] \in NoteTypes /\ notes[n].origin \in Topics
    <2>1. notes \in Seq(NoteTypes) /\ provenance \in [Topics -> 0..MaxNotes]
        BY DEF TypeInv, TypeOK, NoteTypes
    <2>2. \A n \in 1..Len(notes) : notes[n] \in NoteTypes
        BY <2>1
    <2>3. QED
        BY <2>1, <2>2 DEF NoteTypes
<1>2. CASE Untouched
    BY <1>1, <1>2 DEF Untouched, Kept, NotesInv, ProvenanceInv, NotesSound
<1>3. ASSUME NEW n \in 1..Len(notes), Augments(n)
      PROVE  Kept /\ ProvenanceInv' /\ NotesSound'
    <2>1. PICK o \in Topics : o = notes[n].origin
        BY <1>1
    <2>2. /\ notes' = notes /\ provenance'[o] = n /\ n # 0
          /\ \A t \in Topics \ {o} : provenance'[t] = provenance[t]
        BY <1>1, <1>3, <2>1 DEF Augments
    <2>3. Kept
        BY <1>1, <2>2 DEF Kept
    <2>4. ProvenanceInv'
        BY <2>1, <2>2 DEF NotesInv, ProvenanceInv
    <2>5. NotesSound'
        <3>1. ASSUME NEW m \in 1..Len(notes)
              PROVE  /\ notes[m].status = "delivered" =>
                           /\ provenance'[notes[m].origin] # 0
                           /\ notes[provenance'[notes[m].origin]].origin = notes[m].origin
                     /\ notes[m].status = "deferred" => ~notes[m].high
            <4>1. PICK p \in Topics : p = notes[m].origin
                BY <1>1
            <4>2. CASE p = o
                BY <2>1, <2>2, <4>1, <4>2 DEF NotesInv, NotesSound
            <4>3. CASE p # o
                BY <2>2, <4>1, <4>3 DEF NotesInv, NotesSound
            <4>4. QED
                BY <4>2, <4>3
        <3>2. QED
            BY <2>2, <3>1 DEF NotesSound
    <2>6. QED
        BY <2>3, <2>4, <2>5
<1>4. ASSUME NEW n \in 1..Len(notes), NEW s \in NoteStatuses, Resolves(n, s)
      PROVE  Kept /\ ProvenanceInv' /\ NotesSound'
    <2>1. /\ provenance' = provenance
          /\ notes' = [notes EXCEPT ![n] = [notes[n] EXCEPT !.status = s]]
        BY <1>1, <1>4 DEF Resolves
    <2>2. Len(notes') = Len(notes)
        BY <1>1, <2>1
    <2>3. /\ \A m \in 1..Len(notes) : m # n => notes'[m] = notes[m]
          /\ notes'[n] = [notes[n] EXCEPT !.status = s]
        BY <1>1, <2>1
    <2>4. /\ notes'[n].status = s /\ notes'[n].origin = notes[n].origin
          /\ notes'[n].high = notes[n].high
        BY <1>1, <2>3 DEF NoteTypes
    <2>5. \A m \in 1..Len(notes) :
             notes'[m].origin = notes[m].origin /\ notes'[m].high = notes[m].high
        BY <2>3, <2>4
    <2>6. Kept
        BY <1>1, <2>1, <2>2, <2>5 DEF Kept
    <2>7. ProvenanceInv'
        BY <2>1, <2>2, <2>5 DEF NotesInv, ProvenanceInv
    <2>8. ASSUME NEW m \in 1..Len(notes)
          PROVE  /\ notes'[m].status = "delivered" => provenance[notes[m].origin] # 0
                 /\ notes'[m].status = "deferred" => ~notes[m].high
        <3>1. CASE m = n
            BY <1>4, <2>4, <3>1 DEF Resolves
        <3>2. CASE m # n
            BY <2>3, <3>2 DEF NotesInv, NotesSound
        <3>3. QED
            BY <3>1, <3>2
    <2>9. NotesSound'
        <3>1. ASSUME NEW m \in 1..Len(notes'), notes'[m].status = "delivered"
              PROVE  /\ provenance'[notes'[m].origin] # 0
                     /\ notes'[provenance'[notes'[m].origin]].origin = notes'[m].origin
            <4>1. PICK p \in Topics : p = notes[m].origin
                BY <1>1, <2>2
            <4>2. provenance[p] # 0 /\ p = notes'[m].origin
                BY <2>2, <2>5, <2>8, <3>1, <4>1
            <4>3. QED
                BY <2>1, <2>7, <4>2 DEF ProvenanceInv
        <3>2. QED
            BY <2>2, <2>5, <2>8, <3>1 DEF NotesSound
    <2>10. QED
        BY <2>6, <2>7, <2>9
<1>5. ASSUME NEW note \in NoteTypes, Creates(note)
      PROVE  Kept /\ ProvenanceInv' /\ NotesSound'
    <2>1. /\ Len(notes') = Len(notes) + 1 /\ notes'[Len(notes) + 1] = note
          /\ \A n \in 1..Len(notes) : notes'[n] = notes[n]
          /\ provenance' = provenance /\ note.status = "pending"
        BY <1>1, <1>5, AppendProperties DEF Creates
    <2>2. \A n \in 1..Len(notes') : n \in 1..Len(notes) \/ n = Len(notes) + 1
        BY <1>1, <2>1
    <2>3. Kept
        BY <1>1, <2>1 DEF Kept
    <2>4. ProvenanceInv'
        BY <1>1, <2>1 DEF NotesInv, ProvenanceInv
    <2>5. ASSUME NEW m \in 1..Len(notes'), notes'[m].status \in {"delivered", "deferred"}
          PROVE  /\ m \in 1..Len(notes) /\ notes'[m] = notes[m]
                 /\ notes[m].status = "delivered" =>
                       provenance[notes[m].origin] \in 1..Len(notes)
        <3>1. m \in 1..Len(notes) /\ notes'[m] = notes[m]
            BY <2>1, <2>2, <2>5
        <3>2. QED
            BY <1>1, <3>1 DEF NotesInv, NotesSound, ProvenanceInv
    <2>6. NotesSound'
        BY <2>1, <2>5 DEF NotesInv, NotesSound
    <2>7. QED
        BY <2>3, <2>4, <2>6
<1>6. QED
    BY <1>2, <1>3, <1>4, <1>5, NoteSteps

\* A note a run or the banner holds exists, and stays as it is.
LEMMA RunNoteKept ==
    ASSUME TypeInv, Kept, NEW run \in RunStates, run.note <= Len(notes),
           run.at \in {"augment", "deliver"} \cup DecisionSteps => run.note # 0,
           RunNote(run)
    PROVE  RunNote(run)'
<1>1. notes \in Seq(NoteTypes) /\ run.note \in Nat
    BY CoachingAssumption DEF TypeInv, TypeOK, NoteTypes, RunStates
<1>2. ASSUME run.note # 0
      PROVE  /\ notes[run.note].origin \in Topics
             /\ notes'[run.note].origin = notes[run.note].origin
             /\ notes'[run.note].high = notes[run.note].high
    <2>1. run.note \in 1..Len(notes)
        BY <1>1, <1>2
    <2>2. notes[run.note] \in NoteTypes
        BY <1>1, <2>1
    <2>3. QED
        BY <2>1, <2>2 DEF Kept, NoteTypes
<1>3. QED
    BY <1>2 DEF RunNote, Kept, DecisionSteps

LEMMA RunNotesKept ==
    ASSUME TypeInv, Kept, \A r \in Runs : RunNote(runs[r])
    PROVE  \A r \in Runs : \A run \in RunStates : run = runs[r] => RunNote(run)'
<1>1. \A r \in Runs :
         /\ runs[r] \in RunStates /\ runs[r].note <= Len(notes)
         /\ runs[r].at \in {"augment", "deliver"} \cup DecisionSteps => runs[r].note # 0
    BY DEF TypeInv, TypeOK
<1>2. QED
    BY <1>1, RunNoteKept

\* One run changes.
LEMMA OneRunNotes ==
    ASSUME TypeInv, NotesInv, Kept, NEW r \in Runs, NEW new \in RunStates,
           runs' = [runs EXCEPT ![r] = new], RunNote(new)'
    PROVE  (\A q \in Runs : RunNote(runs[q]))'
<1>1. /\ runs'[r] = new
      /\ \A q \in Runs \ {r} : runs'[q] = runs[q] /\ runs[q] \in RunStates
    BY DEF TypeInv, TypeOK
<1>2. ASSUME NEW q \in Runs
      PROVE  RunNote(runs[q])'
    <2>1. CASE q = r
        BY <1>1, <2>1 DEF RunNote
    <2>2. CASE q # r
        <3>1. PICK run \in RunStates : run = runs[q] /\ run = runs'[q]
            BY <1>1, <2>2
        <3>2. RunNote(run)'
            BY <3>1, RunNotesKept DEF NotesInv
        <3>3. QED
            BY <3>1, <3>2 DEF RunNote
    <2>3. QED
        BY <2>1, <2>2
<1>3. QED
    BY <1>2

LEMMA RunStepNotes ==
    ASSUME TypeInv, NotesInv, Kept, NEW r \in Runs, RunStep(r)
    PROVE  (\A q \in Runs : RunNote(runs[q]))'
<1>1. PICK new \in RunStates : Succeeds(runs[r], new) /\ runs' = [runs EXCEPT ![r] = new]
    BY RunStepShape
<1>2. /\ runs[r] \in RunStates /\ runs \in [Runs -> RunStates]
      /\ notes \in Seq(NoteTypes) /\ provenance \in [Topics -> 0..MaxNotes]
      /\ RunNote(runs[r]) /\ runs'[r] = new
    BY <1>1 DEF TypeInv, TypeOK, NotesInv, NoteTypes
<1>3. RunNote(new)'
    <2>1. CASE WriteSnapshot(r) \/ ExtendPacing(r) \/ KeepPace(r) \/ PickNone(r)
        <3>1. runs[r].note = 0
            BY <1>2, <2>1 DEF WriteSnapshot, ExtendPacing, KeepPace, PickNone, At, RunNote
        <3>2. new.note = 0 /\ new.at \in {"adapt", "patch", "mark"}
            BY <1>2, <2>1, <3>1
               DEF WriteSnapshot, ExtendPacing, KeepPace, PickNone, Goto, RunStates
        <3>3. QED
            BY <3>2 DEF RunNote
    <2>2. CASE EnrichmentRaises(r) \/ MarkCompleted(r) \/ ResolveDecision(r)
        <3>1. new = IdleRun
            BY <1>2, <2>2 DEF EnrichmentRaises, MarkCompleted, ResolveDecision, End
        <3>2. QED
            BY <3>1 DEF RunNote, IdleRun
    <2>3. CASE PickHigh(r)
        <3>1. new.at = "augment"
            BY <1>2, <2>3 DEF PickHigh, RunStates
        <3>2. QED
            BY <3>1 DEF RunNote
    <2>4. CASE PickLow(r)
        <3>1. PICK n \in Pending : runs' = [runs EXCEPT ![r].note = n, ![r].at = "mark"]
            BY <2>4 DEF PickLow, FirstOf
        <3>2. new.at = "mark" /\ new.note = n
            BY <1>2, <3>1 DEF RunStates
        <3>3. ~notes[n].high /\ UNCHANGED notes
            BY <2>4, <3>1 DEF PickLow, HighPending, allButRuns
        <3>4. QED
            BY <3>2, <3>3 DEF RunNote
    <2>5. CASE AugmentHigh(r) \/ AugmentLearned(r)
        <3>1. runs[r].note # 0 /\ provenance' = Augmented(r) /\ UNCHANGED notes
            BY <2>5 DEF AugmentHigh, AugmentLearned, At, DecisionSteps, TypeInv, TypeOK
        <3>2. notes[runs[r].note].origin \in Topics /\ runs[r].note \in 1..Len(notes)
            BY <3>1, AugmentedTypes
        <3>3. new.note = runs[r].note /\ new.at \in {"deliver", "learned"}
            BY <1>2, <2>5 DEF AugmentHigh, AugmentLearned, Goto, RunStates
        <3>4. provenance'[notes'[new.note].origin] # 0
            BY <1>2, <3>1, <3>2, <3>3 DEF Augmented
        <3>5. QED
            BY <3>3, <3>4 DEF RunNote
    <2>6. CASE DeliverHigh(r)
        <3>1. new.note = 0 /\ new.at = "mark"
            BY <1>2, <2>6 DEF DeliverHigh, RunStates
        <3>2. QED
            BY <3>1 DEF RunNote
    <2>7. QED
        BY <2>1, <2>2, <2>3, <2>4, <2>5, <2>6 DEF RunStep
<1>4. QED
    BY <1>1, <1>3, OneRunNotes

LEMMA AroundRunNotes ==
    ASSUME TypeInv, NotesInv, Kept, Learner \/ Environment
    PROVE  (\A q \in Runs : RunNote(runs[q]))'
<1>1. IdleRun \in RunStates /\ RunNote(IdleRun)'
    BY IdleRunTypes DEF IdleRun, RunNote
<1>2. page \in Runs /\ runs \in [Runs -> RunStates]
    BY DEF TypeInv, TypeOK
<1>3. CASE UNCHANGED runs
    <2>1. ASSUME NEW q \in Runs
          PROVE  RunNote(runs[q])'
        <3>1. PICK run \in RunStates : run = runs[q] /\ run = runs'[q]
            BY <1>2, <1>3
        <3>2. RunNote(run)'
            BY <3>1, RunNotesKept DEF NotesInv
        <3>3. QED
            BY <3>1, <3>2 DEF RunNote
    <2>2. QED
        BY <2>1
<1>4. CASE StartCompletion
    <2>1. /\ current \in Topics /\ signal \in Signal01 /\ isTestOut \in BOOLEAN
          /\ 0 \in 0..MaxNotes
        BY CoachingAssumption DEF TypeInv, TypeOK
    <2>2. PICK new \in RunStates :
             /\ new.at = "snapshot" /\ new.note = 0
             /\ runs' = [runs EXCEPT ![page] = new]
        BY <1>4, <2>1 DEF StartCompletion, RunStates, CompletionSteps
    <2>3. RunNote(new)'
        BY <2>2 DEF RunNote
    <2>4. QED
        BY <1>2, <2>2, <2>3, OneRunNotes
<1>5. CASE ClickLearnNow \/ ClickDefer
    <2>1. PICK step \in {"learn", "defer"} : Decide(step)
        BY <1>5 DEF ClickLearnNow, ClickDefer
    <2>2. banner \in 0..MaxNotes /\ banner # 0
        BY <2>1, CoachingAssumption DEF Decide, TypeInv, TypeOK
    <2>3. [IdleRun EXCEPT !.at = step, !.note = banner] \in RunStates
        BY <1>1, <2>2 DEF RunStates, IdleRun, DecisionSteps
    <2>4. PICK new \in RunStates : new = [IdleRun EXCEPT !.at = step, !.note = banner]
        BY <2>3
    <2>5. new.at = step /\ new.note = banner
        BY <1>1, <2>4 DEF RunStates, IdleRun
    <2>6. runs' = [runs EXCEPT ![page] = new] /\ UNCHANGED notes
        BY <2>1, <2>4 DEF Decide, allButRuns
    <2>7. RunNote(new)'
        BY <2>2, <2>5, <2>6 DEF RunNote, NotesInv, BannerInv
    <2>8. QED
        BY <1>2, <2>6, <2>7, OneRunNotes
<1>6. ASSUME NEW r \in Runs, Fail(r)
      PROVE  (\A q \in Runs : RunNote(runs[q]))'
    BY <1>1, <1>6, OneRunNotes DEF Fail, End
<1>7. QED
    BY <1>3, <1>4, <1>5, <1>6
       DEF Learner, Environment, FinishQuiz, Continue, ViewClosingNote, Interrupt,
           NoteCreated, RoleRefreshed, CalibrationEnds

LEMMA BannerKept ==
    ASSUME TypeInv, NotesInv, Kept, [Next]_vars
    PROVE  BannerInv'
<1>1. /\ banner \in 0..Len(notes) /\ Len(notes) \in Nat
      /\ \A r \in Runs : runs[r] \in RunStates /\ runs[r].note <= Len(notes)
                         /\ RunNote(runs[r])
    BY DEF TypeInv, TypeOK, NotesInv
<1>2. ASSUME banner' \in {0, banner}
      PROVE  BannerInv'
    BY <1>1, <1>2 DEF NotesInv, BannerInv, Kept
<1>3. ASSUME NEW r \in Runs, MarkCompleted(r), banner' = runs[r].note
      PROVE  BannerInv'
    <2>1. runs[r].note \in 0..Len(notes) /\ (runs[r].note # 0 => ~notes[runs[r].note].high)
        BY <1>1, <1>3 DEF MarkCompleted, At, RunNote, RunStates
    <2>2. QED
        BY <1>1, <1>3, <2>1 DEF BannerInv, Kept
<1>4. ASSUME NEW r \in Runs, RunStep(r)
      PROVE  banner' \in {0, banner} \/ (MarkCompleted(r) /\ banner' = runs[r].note)
    BY <1>4 DEF RunStep, WriteSnapshot, ExtendPacing, EnrichmentRaises, KeepPace, PickHigh,
                PickLow, PickNone, AugmentHigh, DeliverHigh, MarkCompleted, AugmentLearned,
                ResolveDecision, allButRuns, shown
<1>5. CASE Learner
    BY <1>2, <1>5 DEF Learner, FinishQuiz, StartCompletion, ClickLearnNow, ClickDefer, Decide,
                      Continue, ViewClosingNote, allButRuns, shown
<1>6. CASE Environment
    BY <1>2, <1>6 DEF Environment, Interrupt, NoteCreated, RoleRefreshed, CalibrationEnds,
                      Fail, shown
<1>7. CASE UNCHANGED vars
    BY <1>2, <1>7 DEF vars
<1>8. QED
    BY <1>2, <1>3, <1>4, <1>5, <1>6, <1>7 DEF Next

\* A delivered note reached the topic it is about; a parked one was low.
THEOREM NotesAreSound == Spec => []NotesSound
<1>1. Init => NotesInv
    BY DEF Init, NotesInv, ProvenanceInv, NotesSound, RunNote, IdleRun, BannerInv
<1>2. ASSUME TypeInv, NotesInv, [Next]_vars
      PROVE  NotesInv'
    <2>1. Kept /\ ProvenanceInv' /\ NotesSound'
        BY <1>2, NotesKept
    <2>2. (\A q \in Runs : RunNote(runs[q]))'
        <3>1. ASSUME NEW r \in Runs, RunStep(r)
              PROVE  (\A q \in Runs : RunNote(runs[q]))'
            BY <1>2, <2>1, <3>1, RunStepNotes
        <3>2. CASE Learner \/ Environment
            BY <1>2, <2>1, <3>2, AroundRunNotes
        <3>3. CASE UNCHANGED vars
            BY <1>2, <3>3 DEF vars, NotesInv, RunNote
        <3>4. QED
            BY <1>2, <3>1, <3>2, <3>3 DEF Next
    <2>3. BannerInv'
        BY <1>2, <2>1, BannerKept
    <2>4. QED
        BY <2>1, <2>2, <2>3 DEF NotesInv
<1>3. TypeInv /\ NotesInv /\ [Next]_vars => NotesInv'
    BY <1>2
<1>4. NotesInv => NotesSound
    BY DEF NotesInv
<1>5. QED
    BY <1>1, <1>3, <1>4, CourseAlways, PTL DEF Spec
-----------------------------------------------------------------------------
(* The pace extension                                                      *)

\* The runs that no longer serve the page and may still extend the pacing.
Late == {r \in Runs \ {page} : runs[r].at \in {"snapshot", "adapt"}}

\* Whether the current topic has had its turn to extend the pacing, and to
\* write its snapshot, by the run that serves the page.
Spent == IF done \/ runs[page].at \in CompletionSteps \ {"snapshot", "adapt"} THEN 1 ELSE 0
Written == IF done \/ runs[page].at \in CompletionSteps \ {"snapshot"} THEN 1 ELSE 0

\* Every extension is a topic's or a fault's, and a run that may extend late
\* has a fault to its name.
Budget ==
    extension + ExtensionDays * Cardinality(Late)
        <= ExtensionDays * (current - 1 + Spent + faults)

\* Without faults only the page's run runs, and a window is three topics.
FaultlessInv ==
    faults = 0 =>
       /\ \A r \in Runs \ {page} : runs[r].at = "idle"
       /\ Len(window) = DriftWindow => current >= DriftWindow
       /\ Len(window) < DriftWindow => Len(window) <= current - 1 + Written
       /\ extension <= ExtensionDays * Larger(0, current - DriftWindow + Spent)

PaceInv ==
    /\ runs[page].at \in CompletionSteps => ~done
    /\ coldStart => extension = 0
    /\ extension > 0 => Len(window) = DriftWindow
    /\ Budget
    /\ FaultlessInv

\* The types of what the budget is made of.
PaceTyped ==
    /\ extension \in Nat /\ current \in Nat /\ current >= 1 /\ faults \in Nat
    /\ Len(window) \in 0..DriftWindow
    /\ Spent \in {0, 1} /\ Written \in {0, 1}
    /\ IsFiniteSet(Late) /\ Cardinality(Late) \in Nat

LEMMA PaceTypes == TypeInv => PaceTyped
<1> SUFFICES ASSUME TypeInv PROVE PaceTyped
    OBVIOUS
<1>1. /\ extension \in Nat /\ current \in Nat /\ current >= 1 /\ faults \in Nat
      /\ Len(window) \in 0..DriftWindow
    <2>1. /\ extension \in Nat /\ current \in 1..NumTopics /\ faults \in Nat
          /\ window \in Seq(Signal01) /\ Len(window) <= DriftWindow
        BY DEF TypeInv, TypeOK, Topics
    <2>2. Len(window) \in Nat
        BY <2>1, LenProperties
    <2>3. NumTopics \in Nat
        BY CoachingAssumption
    <2>4. /\ current \in Nat /\ current >= 1
        BY <2>1, <2>3
    <2>5. Len(window) \in 0..DriftWindow
        <3>1. PICK n : n = Len(window)
            OBVIOUS
        <3>2. n \in Nat /\ n <= 3
            BY <2>1, <2>2, <3>1 DEF DriftWindow
        <3>3. n \in 0..3
            BY <3>2
        <3>4. QED
            BY <3>1, <3>3 DEF DriftWindow
    <2>6. QED
        BY <2>1, <2>4, <2>5
<1>2. Spent \in {0, 1} /\ Written \in {0, 1}
    BY DEF Spent, Written
<1>3. IsFiniteSet(Late) /\ Cardinality(Late) \in Nat
    <2>1. Late \in SUBSET Runs /\ IsFiniteSet(Runs)
        BY CoachingAssumption DEF Late
    <2>2. QED
        BY <2>1, FS_Subset, FS_CardinalityType
<1>4. QED
    BY <1>1, <1>2, <1>3 DEF PaceTyped

LEMMA PaceTypesNext == TypeInv' => PaceTyped'
BY PaceTypes, PTL

\* The late runs of the next state are counted like those of this one.
LEMMA FewerLate ==
    ASSUME TypeInv, TypeInv', Late' \subseteq Late
    PROVE  Cardinality(Late') <= Cardinality(Late)
<1>1. PICK S : S = Late'
    OBVIOUS
<1>2. IsFiniteSet(Late) /\ S \in SUBSET Late
    BY <1>1, PaceTypes DEF PaceTyped
<1>3. Cardinality(S) <= Cardinality(Late)
    BY <1>2, FS_Subset
<1>4. QED
    BY <1>1, <1>3

\* A step that extends nothing and takes no turn back.
LEMMA QuietStep ==
    ASSUME TypeInv, TypeInv', PaceInv,
           UNCHANGED <<extension, window, current, faults, page>>, coldStart' => coldStart,
           Late' \subseteq Late, Spent' >= Spent,
           Written' >= Written \/ Len(window) = DriftWindow,
           runs'[page].at \in CompletionSteps => ~done',
           faults = 0 => \A r \in Runs \ {page} : runs'[r].at = "idle"
    PROVE  PaceInv'
<1>1. Cardinality(Late') <= Cardinality(Late)
    BY FewerLate
<1>2. /\ Cardinality(Late) \in Nat /\ Cardinality(Late') \in Nat
      /\ Spent \in {0, 1} /\ Spent' \in {0, 1} /\ Written \in {0, 1} /\ Written' \in {0, 1}
      /\ extension \in Nat /\ current \in Nat /\ faults \in Nat
      /\ Len(window) \in 0..DriftWindow
    BY PaceTypes, PaceTypesNext DEF PaceTyped
<1>3. Budget'
    BY <1>1, <1>2 DEF PaceInv, Budget, ExtensionDays
<1>4. ASSUME faults = 0
      PROVE  /\ Len(window) = DriftWindow => current >= DriftWindow
             /\ Len(window) < DriftWindow => Len(window) <= current - 1 + Written'
             /\ extension <= ExtensionDays * Larger(0, current - DriftWindow + Spent')
    <2>1. /\ Len(window) = DriftWindow => current >= DriftWindow
          /\ Len(window) < DriftWindow => Len(window) <= current - 1 + Written
          /\ extension <= ExtensionDays * Larger(0, current - DriftWindow + Spent)
        BY <1>4 DEF PaceInv, FaultlessInv
    <2>2. Len(window) < DriftWindow => Len(window) <= current - 1 + Written'
        BY <1>2, <2>1 DEF DriftWindow
    <2>3. extension <= ExtensionDays * Larger(0, current - DriftWindow + Spent')
        <3>1. PICK a, b, c, x : a = Spent /\ b = Spent' /\ c = current /\ x = extension
            OBVIOUS
        <3>2. /\ a \in {0, 1} /\ b \in {0, 1} /\ c \in Nat /\ x \in Nat /\ b >= a
              /\ x <= 2 * Larger(0, c - 3 + a)
            BY <1>2, <2>1, <3>1 DEF ExtensionDays, DriftWindow
        <3>3. x <= 2 * Larger(0, c - 3 + b)
            BY <3>2 DEF Larger
        <3>4. QED
            BY <3>1, <3>3 DEF ExtensionDays, DriftWindow
    <2>4. QED
        BY <2>1, <2>2, <2>3
<1>5. FaultlessInv'
    BY <1>4 DEF FaultlessInv
<1>6. QED
    BY <1>3, <1>5 DEF PaceInv

LEMMA DriftIsFull ==
    ASSUME TypeInv, "behind" \in PossibleDrifts \/ "ahead" \in PossibleDrifts
    PROVE  ~coldStart /\ Len(window) = DriftWindow
<1>1. window \in Seq(Signal01) /\ Len(window) <= DriftWindow /\ Len(window) \in Nat
    BY DEF TypeInv, TypeOK
<1>2. "behind" # "on_track" /\ "ahead" # "on_track"
    OBVIOUS
<1>3. ~coldStart
    BY <1>2 DEF PossibleDrifts
<1>4. ~(Len(window) < DriftWindow)
    BY <1>2, <1>3 DEF PossibleDrifts, Drifts
<1>5. PICK n : n = Len(window)
    OBVIOUS
<1>6. n \in Nat /\ n <= 3 /\ ~(n < 3)
    BY <1>1, <1>4, <1>5 DEF DriftWindow
<1>7. n = 3
    BY <1>6
<1>8. QED
    BY <1>3, <1>5, <1>7 DEF DriftWindow

LEMMA TrailingLength ==
    ASSUME NEW rows \in Seq(Signal01), Len(rows) <= DriftWindow, NEW s \in Signal01
    PROVE  Len(Trailing(Append(rows, s))) =
              IF Len(rows) = DriftWindow THEN DriftWindow ELSE Len(rows) + 1
<1>1. PICK all \in Seq(Signal01) : all = Append(rows, s) /\ Len(all) = Len(rows) + 1
    BY AppendProperties
<1>2. Len(rows) \in Nat /\ Len(all) \in Nat
    OBVIOUS
<1>3. CASE Len(rows) = DriftWindow
    <2>1. Len(all) = 4
        BY <1>1, <1>2, <1>3 DEF DriftWindow
    <2>2. \A i \in 2..4 : all[i] \in Signal01
        <3>1. all \in [1..Len(all) -> Signal01]
            BY LenProperties
        <3>2. \A i \in 2..4 : i \in 1..Len(all)
            BY <2>1
        <3>3. QED
            BY <3>1, <3>2
    <2>3. Len(SubSeq(all, 2, 4)) = 3
        BY <2>2, SubSeqProperties
    <2>4. QED
        BY <1>1, <1>3, <2>1, <2>3 DEF Trailing, DriftWindow
<1>4. CASE Len(rows) # DriftWindow
    <2>1. Len(all) <= DriftWindow
        <3>1. PICK n, m : n = Len(rows) /\ m = Len(all)
            OBVIOUS
        <3>2. n \in Nat /\ n <= 3 /\ n # 3 /\ m = n + 1
            BY <1>1, <1>2, <1>4, <3>1 DEF DriftWindow
        <3>3. m <= 3
            BY <3>2
        <3>4. QED
            BY <3>1, <3>3 DEF DriftWindow
    <2>2. Trailing(all) = all
        BY <2>1 DEF Trailing
    <2>3. QED
        BY <1>1, <1>4, <2>2
<1>5. QED
    BY <1>3, <1>4

\* What each step of a run is taken from, and leads to.
LEMMA RunMoves ==
    ASSUME TypeInv, NEW r \in Runs
    PROVE  /\ WriteSnapshot(r) => runs[r].at = "snapshot" /\ runs'[r].at = "adapt"
           /\ ExtendPacing(r) \/ KeepPace(r) => runs[r].at = "adapt" /\ runs'[r].at = "patch"
           /\ EnrichmentRaises(r) => runs[r].at = "adapt" /\ runs'[r].at = "idle"
           /\ PickHigh(r) => runs[r].at = "patch" /\ runs'[r].at = "augment"
           /\ PickLow(r) \/ PickNone(r) => runs[r].at = "patch" /\ runs'[r].at = "mark"
           /\ AugmentHigh(r) => runs[r].at = "augment" /\ runs'[r].at = "deliver"
           /\ DeliverHigh(r) => runs[r].at = "deliver" /\ runs'[r].at = "mark"
           /\ MarkCompleted(r) => runs[r].at = "mark" /\ runs'[r].at = "idle"
           /\ AugmentLearned(r) => runs[r].at = "learn" /\ runs'[r].at = "learned"
           /\ ResolveDecision(r) => runs[r].at \in DecisionSteps /\ runs'[r].at = "idle"
<1>1. runs \in [Runs -> RunStates] /\ runs[r] \in RunStates
    BY DEF TypeInv, TypeOK
<1>2. \A n, step : [[runs[r] EXCEPT !.note = n] EXCEPT !.at = step].at = step
    BY <1>1 DEF RunStates
<1>3. \A step : Goto(r, step) => runs'[r].at = step
    BY <1>1 DEF Goto, RunStates
<1>4. End(r) => runs'[r].at = "idle"
    BY <1>1 DEF End, IdleRun
<1>5. \A n, step :
         runs' = [runs EXCEPT ![r].note = n, ![r].at = step] => runs'[r].at = step
    BY <1>1, <1>2
<1>6. WriteSnapshot(r) => runs[r].at = "snapshot" /\ runs'[r].at = "adapt"
    BY <1>3 DEF WriteSnapshot, At
<1>7. ExtendPacing(r) \/ KeepPace(r) => runs[r].at = "adapt" /\ runs'[r].at = "patch"
    BY <1>3 DEF ExtendPacing, KeepPace, At
<1>8. EnrichmentRaises(r) => runs[r].at = "adapt" /\ runs'[r].at = "idle"
    BY <1>4 DEF EnrichmentRaises, At
<1>9. PickHigh(r) => runs[r].at = "patch" /\ runs'[r].at = "augment"
    BY <1>5 DEF PickHigh, At
<1>10. PickLow(r) \/ PickNone(r) => runs[r].at = "patch" /\ runs'[r].at = "mark"
    BY <1>3, <1>5 DEF PickLow, PickNone, At
<1>11. AugmentHigh(r) => runs[r].at = "augment" /\ runs'[r].at = "deliver"
    BY <1>3 DEF AugmentHigh, At
<1>12. DeliverHigh(r) => runs[r].at = "deliver" /\ runs'[r].at = "mark"
    BY <1>5 DEF DeliverHigh, At
<1>13. MarkCompleted(r) => runs[r].at = "mark" /\ runs'[r].at = "idle"
    BY <1>4 DEF MarkCompleted, At
<1>14. AugmentLearned(r) => runs[r].at = "learn" /\ runs'[r].at = "learned"
    BY <1>3 DEF AugmentLearned, At
<1>15. ResolveDecision(r) => runs[r].at \in DecisionSteps /\ runs'[r].at = "idle"
    BY <1>4 DEF ResolveDecision, At, DecisionSteps
<1>16. QED
    BY <1>6, <1>7, <1>8, <1>9, <1>10, <1>11, <1>12, <1>13, <1>14, <1>15

\* A run that goes on is no later than before, and only its snapshot leaves it
\* able to extend the pacing.
LEMMA RunStepLate ==
    ASSUME TypeInv, NEW r \in Runs, RunStep(r)
    PROVE  /\ Late' \subseteq Late
           /\ ~WriteSnapshot(r) => Late' = Late \ {r}
           /\ page' = page /\ runs[r].at # "idle"
           /\ \A q \in Runs \ {r} : runs'[q] = runs[q]
<1>1. PICK new \in RunStates : Succeeds(runs[r], new) /\ runs' = [runs EXCEPT ![r] = new]
    BY RunStepShape
<1>2. /\ runs'[r] = new /\ \A q \in Runs \ {r} : runs'[q] = runs[q]
      /\ runs[r] \in RunStates
    BY <1>1 DEF TypeInv, TypeOK
<1>3. page' = page /\ runs[r].at # "idle"
    BY DEF RunStep, WriteSnapshot, ExtendPacing, EnrichmentRaises, KeepPace, PickHigh,
           PickLow, PickNone, AugmentHigh, DeliverHigh, MarkCompleted, AugmentLearned,
           ResolveDecision, At, allButRuns
<1>4. CASE WriteSnapshot(r)
    <2>1. runs[r].at = "snapshot"
        BY <1>4 DEF WriteSnapshot, At
    <2>2. QED
        BY <1>2, <1>3, <1>4, <2>1 DEF Late
<1>5. CASE ~WriteSnapshot(r)
    <2>1. new.at \notin {"snapshot", "adapt"}
        BY <1>2, <1>5, RunMoves DEF RunStep, DecisionSteps
    <2>2. QED
        BY <1>2, <1>3, <1>5, <2>1 DEF Late
<1>6. QED
    BY <1>2, <1>3, <1>4, <1>5

LEMMA RunStepPace ==
    ASSUME TypeInv, TypeInv', PaceInv, NEW r \in Runs, RunStep(r)
    PROVE  PaceInv'
<1>1. /\ Late' \subseteq Late /\ page' = page /\ runs[r].at # "idle"
      /\ \A q \in Runs \ {r} : runs'[q] = runs[q]
    BY RunStepLate
<1>2. /\ faults' = faults /\ page \in Runs
      /\ faults = 0 => r = page /\ \A q \in Runs \ {page} : runs'[q].at = "idle"
    <2>1. faults' = faults
        BY DEF RunStep, WriteSnapshot, ExtendPacing, EnrichmentRaises, KeepPace, PickHigh,
               PickLow, PickNone, AugmentHigh, DeliverHigh, MarkCompleted, AugmentLearned,
               ResolveDecision, allButRuns
    <2>2. page \in Runs
        BY DEF TypeInv, TypeOK
    <2>3. QED
        BY <1>1, <2>1, <2>2 DEF PaceInv, FaultlessInv
<1>3. PICK new : runs'[r] = new
    OBVIOUS
<1>4. CASE WriteSnapshot(r)
    <2>1. /\ runs[r].at = "snapshot" /\ new.at = "adapt"
          /\ window' = Trailing(Append(window, runs[r].signal))
          /\ UNCHANGED <<extension, coldStart, current, done>>
        BY <1>3, <1>4 DEF WriteSnapshot, At, Goto, TypeInv, TypeOK, RunStates, market,
                          place, shown
    <2>2. Len(window') = IF Len(window) = DriftWindow THEN DriftWindow ELSE Len(window) + 1
        <3>1. window \in Seq(Signal01) /\ Len(window) <= DriftWindow
              /\ runs[r].signal \in Signal01
            BY DEF TypeInv, TypeOK, RunStates
        <3>2. QED
            BY <2>1, <3>1, TrailingLength
    <2>3. Spent' = Spent
        BY <1>1, <1>2, <1>3, <2>1 DEF Spent, CompletionSteps
    <2>4. runs'[page].at \in CompletionSteps => ~done'
        BY <1>1, <1>2, <1>3, <2>1 DEF PaceInv, CompletionSteps
    <2>5. r = page => Written = 0 /\ Written' = 1
        BY <1>1, <1>3, <2>1 DEF PaceInv, Written, CompletionSteps
    <2>6. /\ Cardinality(Late) \in Nat /\ Cardinality(Late') \in Nat
          /\ Cardinality(Late') <= Cardinality(Late)
          /\ Spent \in {0, 1} /\ extension \in Nat /\ current \in Nat /\ faults \in Nat
          /\ Len(window) \in 0..DriftWindow
        BY <1>1, PaceTypes, PaceTypesNext, FewerLate DEF PaceTyped
    <2>7. Budget'
        BY <1>2, <2>1, <2>3, <2>6 DEF PaceInv, Budget, ExtensionDays
    <2>8. FaultlessInv'
        BY <1>1, <1>2, <2>1, <2>2, <2>3, <2>5, <2>6 DEF PaceInv, FaultlessInv, DriftWindow
    <2>9. extension' > 0 => Len(window') = DriftWindow
        BY <2>1, <2>2 DEF PaceInv
    <2>10. QED
        BY <1>1, <2>1, <2>4, <2>7, <2>8, <2>9 DEF PaceInv
<1>5. CASE ExtendPacing(r)
    <2>1. /\ runs[r].at = "adapt" /\ new.at = "patch"
          /\ extension' = extension + ExtensionDays
          /\ UNCHANGED <<window, coldStart, current, done>>
        BY <1>3, <1>5 DEF ExtendPacing, At, Goto, TypeInv, TypeOK, RunStates, market,
                          place, shown
    <2>2. ~coldStart /\ Len(window) = DriftWindow
        BY <1>5, DriftIsFull DEF ExtendPacing
    <2>3. runs'[page].at \in CompletionSteps => ~done'
        BY <1>1, <1>2, <1>3, <2>1 DEF PaceInv, CompletionSteps
    <2>4. Late' = Late \ {r}
        <3>1. ~WriteSnapshot(r)
            BY <2>1 DEF WriteSnapshot, At
        <3>2. QED
            BY <3>1, RunStepLate
    <2>5. /\ Cardinality(Late) \in Nat /\ Cardinality(Late') \in Nat /\ IsFiniteSet(Late)
          /\ Spent \in {0, 1} /\ Spent' \in {0, 1}
          /\ extension \in Nat /\ current \in Nat /\ faults \in Nat
        BY PaceTypes, PaceTypesNext DEF PaceTyped
    <2>6. CASE r = page
        <3>1. Spent = 0 /\ Spent' = 1
            BY <1>1, <1>3, <2>1, <2>6 DEF PaceInv, Spent, CompletionSteps
        <3>2. Late' = Late
            BY <2>4, <2>6 DEF Late
        <3>3. Budget'
            BY <1>2, <2>1, <2>5, <3>1, <3>2 DEF PaceInv, Budget, ExtensionDays
        <3>4. FaultlessInv'
            BY <1>1, <1>2, <2>1, <2>2, <2>5, <3>1
               DEF PaceInv, FaultlessInv, ExtensionDays, DriftWindow, Larger
        <3>5. QED
            BY <1>1, <2>1, <2>2, <2>3, <3>3, <3>4 DEF PaceInv
    <2>7. CASE r # page
        <3>1. r \in Late
            BY <2>1, <2>7 DEF Late
        <3>2. Cardinality(Late') = Cardinality(Late) - 1
            BY <2>4, <2>5, <3>1, FS_RemoveElement
        <3>3. Spent' = Spent
            BY <1>1, <1>2, <2>1, <2>7 DEF Spent
        <3>4. Budget'
            <4>1. current' = current /\ faults' = faults /\ extension' = extension + 2
                BY <1>2, <2>1 DEF ExtensionDays
            <4>2. extension + 2 * Cardinality(Late) <= 2 * (current - 1 + Spent + faults)
                BY DEF PaceInv, Budget, ExtensionDays
            <4>3. extension' + 2 * Cardinality(Late')
                     <= 2 * (current' - 1 + Spent' + faults')
                BY <2>5, <3>2, <3>3, <4>1, <4>2
            <4>4. QED
                BY <4>3 DEF Budget, ExtensionDays
        <3>5. FaultlessInv'
            BY <1>2, <2>7 DEF FaultlessInv
        <3>6. QED
            BY <1>1, <2>1, <2>2, <2>3, <3>4, <3>5 DEF PaceInv
    <2>8. QED
        BY <2>6, <2>7
<1>6. CASE ~WriteSnapshot(r) /\ ~ExtendPacing(r)
    <2>1. /\ UNCHANGED <<extension, window, current, coldStart>>
          /\ ~MarkCompleted(r) => done' = done
          /\ MarkCompleted(r) => done' = (done \/ r = page)
        BY <1>6 DEF RunStep, EnrichmentRaises, KeepPace, PickHigh, PickLow, PickNone,
                    AugmentHigh, DeliverHigh, MarkCompleted, AugmentLearned,
                    ResolveDecision, allButRuns, pace, market, place, shown
    <2>2. CASE r # page
        <3>1. runs'[page] = runs[page] /\ done' = done
            <4>1. runs'[page] = runs[page]
                BY <1>1, <1>2, <2>2
            <4>2. done' = done
                BY <2>1, <2>2 DEF TypeInv, TypeOK
            <4>3. QED
                BY <4>1, <4>2
        <3>2. Spent' = Spent /\ Written' = Written
            BY <1>1, <3>1 DEF Spent, Written
        <3>3. Spent' >= Spent /\ Written' >= Written
            BY <3>2, PaceTypes, PaceTypesNext DEF PaceTyped
        <3>4. QED
            BY <1>1, <1>2, <2>1, <3>1, <3>3, QuietStep DEF PaceInv
    <2>3. CASE r = page
        <3>1. CASE EnrichmentRaises(r)
            <4>1. /\ Len(window) = DriftWindow /\ runs[r].at = "adapt" /\ new = IdleRun
                  /\ done' = done
                BY <1>3, <3>1, DriftIsFull
                   DEF EnrichmentRaises, End, At, TypeInv, TypeOK, allButRuns, shown
            <4>2. Spent = 0 /\ new.at \notin CompletionSteps
                BY <2>3, <4>1 DEF PaceInv, Spent, CompletionSteps, IdleRun
            <4>3. Spent' >= Spent
                BY <4>2, PaceTypes, PaceTypesNext DEF PaceTyped
            <4>4. QED
                BY <1>1, <1>2, <1>3, <2>1, <2>3, <4>1, <4>2, <4>3, QuietStep
        <3>2. CASE MarkCompleted(r)
            <4>1. done' /\ new = IdleRun
                BY <1>3, <2>3, <3>2 DEF MarkCompleted, End, TypeInv, TypeOK
            <4>2. Spent' = 1 /\ Written' = 1 /\ new.at \notin CompletionSteps
                BY <4>1 DEF Spent, Written, IdleRun, CompletionSteps
            <4>3. Spent' >= Spent /\ Written' >= Written
                BY <4>2, PaceTypes, PaceTypesNext DEF PaceTyped
            <4>4. QED
                BY <1>1, <1>2, <1>3, <2>1, <2>3, <4>2, <4>3, QuietStep
        <3>3. CASE /\ \/ KeepPace(r) \/ PickHigh(r) \/ PickLow(r) \/ PickNone(r)
                      \/ AugmentHigh(r) \/ DeliverHigh(r)
            <4>1. /\ runs[r].at \in CompletionSteps /\ done' = done
                  /\ new.at \in CompletionSteps \ {"snapshot", "adapt"}
                BY <1>3, <3>3, RunMoves
                   DEF KeepPace, PickHigh, PickLow, PickNone, AugmentHigh, DeliverHigh,
                       CompletionSteps, allButRuns, shown
            <4>2. Spent' = 1 /\ Written' = 1
                BY <1>1, <1>3, <2>3, <4>1 DEF Spent, Written
            <4>3. Spent' >= Spent /\ Written' >= Written
                BY <4>2, PaceTypes, PaceTypesNext DEF PaceTyped
            <4>4. ~done'
                BY <2>3, <4>1 DEF PaceInv
            <4>5. QED
                BY <1>1, <1>2, <1>3, <2>1, <2>3, <4>3, <4>4, QuietStep
        <3>4. CASE AugmentLearned(r) \/ ResolveDecision(r)
            <4>1. /\ runs[r].at \notin CompletionSteps /\ new.at \notin CompletionSteps
                  /\ done' = done
                BY <1>3, <3>4, RunMoves
                   DEF AugmentLearned, ResolveDecision, CompletionSteps, DecisionSteps, shown
            <4>2. Spent' = Spent /\ Written' = Written
                BY <1>1, <1>3, <2>3, <4>1 DEF Spent, Written
            <4>3. Spent' >= Spent /\ Written' >= Written
                BY <4>2, PaceTypes, PaceTypesNext DEF PaceTyped
            <4>4. QED
                BY <1>1, <1>2, <1>3, <2>1, <2>3, <4>1, <4>3, QuietStep
        <3>5. QED
            BY <1>6, <3>1, <3>2, <3>3, <3>4 DEF RunStep
    <2>4. QED
        BY <2>2, <2>3
<1>7. QED
    BY <1>4, <1>5, <1>6

\* Steps around the runs that change nothing the pace is held to.
LEMMA SameTurn ==
    ASSUME TypeInv, TypeInv', PaceInv,
           UNCHANGED <<extension, window, current, faults, page, done>>,
           coldStart' => coldStart,
           runs' = runs \/ \E new \in RunStates :
                              /\ runs[page].at = "idle"
                              /\ runs' = [runs EXCEPT ![page] = new]
                              /\ new.at \in {"snapshot"} \cup DecisionSteps
                              /\ new.at = "snapshot" => ~done
    PROVE  PaceInv'
<1>1. /\ page \in Runs /\ \A r \in Runs \ {page} : runs'[r] = runs[r]
      /\ runs'[page] = runs[page] \/
            /\ runs[page].at = "idle"
            /\ runs'[page].at \in {"snapshot"} \cup DecisionSteps
            /\ runs'[page].at = "snapshot" => ~done
    BY DEF TypeInv, TypeOK
<1>2. Late' = Late
    BY <1>1 DEF Late
<1>3. Spent' = Spent /\ Written' = Written
    BY <1>1 DEF Spent, Written, CompletionSteps, DecisionSteps
<1>4. runs'[page].at \in CompletionSteps => ~done'
    BY <1>1 DEF PaceInv, CompletionSteps, DecisionSteps
<1>5. faults = 0 => \A r \in Runs \ {page} : runs'[r].at = "idle"
    BY <1>1 DEF PaceInv, FaultlessInv
<1>6. Spent' >= Spent /\ Written' >= Written
    BY <1>3, PaceTypes, PaceTypesNext DEF PaceTyped
<1>7. QED
    BY <1>2, <1>4, <1>5, <1>6, QuietStep

\* A fault pays for what the run it hits may have done.
LEMMA FaultStep ==
    ASSUME TypeInv, TypeInv', PaceInv,
           UNCHANGED <<extension, window, current, coldStart, done>>, faults' = faults + 1,
           runs'[page'].at \in CompletionSteps => ~done',
           \/ Late' \subseteq Late
           \/ Late' \subseteq Late \cup {page} /\ Spent' = Spent
    PROVE  PaceInv'
<1>1. /\ Cardinality(Late) \in Nat /\ Cardinality(Late') \in Nat /\ IsFiniteSet(Late)
      /\ Spent \in {0, 1} /\ Spent' \in {0, 1}
      /\ extension \in Nat /\ current \in Nat /\ faults \in Nat
    BY PaceTypes, PaceTypesNext DEF PaceTyped
<1>2. CASE Late' \subseteq Late
    <2>1. Cardinality(Late') <= Cardinality(Late)
        BY <1>2, FewerLate
    <2>2. Budget'
        BY <1>1, <2>1 DEF PaceInv, Budget, ExtensionDays
    <2>3. QED
        BY <1>1, <2>2 DEF PaceInv, FaultlessInv
<1>3. CASE Late' \subseteq Late \cup {page} /\ Spent' = Spent
    <2>1. /\ IsFiniteSet(Late \cup {page}) /\ Cardinality(Late \cup {page}) \in Nat
          /\ Cardinality(Late \cup {page}) <= Cardinality(Late) + 1
        <3>1. IsFiniteSet(Late)
            BY <1>1
        <3>2. /\ IsFiniteSet(Late \cup {page})
              /\ Cardinality(Late \cup {page}) =
                    IF page \in Late THEN Cardinality(Late) ELSE Cardinality(Late) + 1
            BY <3>1, FS_AddElement
        <3>3. Cardinality(Late \cup {page}) \in Nat
            BY <3>2, FS_CardinalityType
        <3>4. QED
            BY <1>1, <3>2, <3>3
    <2>2. Cardinality(Late') <= Cardinality(Late \cup {page})
        BY <1>3, <2>1, FS_Subset
    <2>3. Budget'
        <3>1. PICK a, l, u, v, x, c, f :
                 /\ a = Spent /\ l = Cardinality(Late) /\ v = Cardinality(Late')
                 /\ u = Cardinality(Late \cup {page})
                 /\ x = extension /\ c = current /\ f = faults
            OBVIOUS
        <3>2. /\ a \in {0, 1} /\ l \in Nat /\ u \in Nat /\ v \in Nat /\ x \in Nat
              /\ c \in Nat /\ f \in Nat /\ u <= l + 1 /\ v <= u
            BY <1>1, <2>1, <2>2, <3>1
        <3>3. x + 2 * l <= 2 * (c - 1 + a + f)
            BY <3>1 DEF PaceInv, Budget, ExtensionDays
        <3>4. x + 2 * v <= 2 * (c - 1 + a + (f + 1))
            BY <3>2, <3>3
        <3>5. QED
            BY <1>3, <3>1, <3>4 DEF Budget, ExtensionDays
    <2>4. QED
        BY <1>1, <2>3 DEF PaceInv, FaultlessInv
<1>4. QED
    BY <1>2, <1>3

LEMMA AroundRunPace ==
    ASSUME TypeInv, TypeInv', CourseInv, PaceInv, Learner \/ Environment
    PROVE  PaceInv'
<1>1. /\ page \in Runs /\ runs \in [Runs -> RunStates] /\ IdleRun \in RunStates
    BY IdleRunTypes DEF TypeInv, TypeOK
<1>2. IdleRun.at = "idle" /\ "idle" \notin CompletionSteps
    BY DEF IdleRun, CompletionSteps
<1>3. CASE FinishQuiz \/ ViewClosingNote \/ NoteCreated \/ RoleRefreshed \/ CalibrationEnds
    <2>1. UNCHANGED <<extension, window, current, faults, page, done, runs>>
        BY <1>3 DEF FinishQuiz, ViewClosingNote, NoteCreated, RoleRefreshed,
                    CalibrationEnds, pace, market, place, shown
    <2>2. coldStart' = coldStart \/ ~coldStart'
        BY <1>3 DEF FinishQuiz, ViewClosingNote, NoteCreated, RoleRefreshed,
                    CalibrationEnds, market
    <2>3. coldStart' => coldStart
        BY <2>2
    <2>4. QED
        BY <2>1, <2>3, SameTurn
<1>4. CASE StartCompletion
    <2>1. /\ ~done /\ runs[page].at = "idle"
          /\ UNCHANGED <<extension, window, current, faults, page, done, coldStart>>
        BY <1>4 DEF StartCompletion, Idle, allButRuns, pace, market, place, shown
    <2>2. PICK new \in RunStates :
             new.at = "snapshot" /\ runs' = [runs EXCEPT ![page] = new]
        <3>1. /\ current \in Topics /\ signal \in Signal01 /\ isTestOut \in BOOLEAN
              /\ 0 \in 0..MaxNotes
            BY CoachingAssumption DEF TypeInv, TypeOK
        <3>2. QED
            BY <1>4, <3>1 DEF StartCompletion, RunStates, CompletionSteps
    <2>3. QED
        BY <2>1, <2>2, SameTurn
<1>5. CASE ClickLearnNow \/ ClickDefer
    <2>1. PICK step \in {"learn", "defer"} : Decide(step)
        BY <1>5 DEF ClickLearnNow, ClickDefer
    <2>2. /\ runs[page].at = "idle"
          /\ UNCHANGED <<extension, window, current, faults, page, done, coldStart>>
        BY <2>1 DEF Decide, Idle, allButRuns, pace, market, place, shown
    <2>3. banner \in 0..MaxNotes
        BY CoachingAssumption DEF TypeInv, TypeOK
    <2>4. [IdleRun EXCEPT !.at = step, !.note = banner] \in RunStates
        BY <1>1, <2>3 DEF RunStates, IdleRun, DecisionSteps
    <2>5. PICK new \in RunStates : new = [IdleRun EXCEPT !.at = step, !.note = banner]
        BY <2>4
    <2>6. new.at = step /\ runs' = [runs EXCEPT ![page] = new]
        BY <1>1, <2>1, <2>5 DEF RunStates, IdleRun, Decide
    <2>7. new.at \in {"snapshot"} \cup DecisionSteps /\ new.at # "snapshot"
        BY <2>6 DEF DecisionSteps
    <2>8. QED
        BY <2>2, <2>6, <2>7, SameTurn
<1>6. CASE Continue
    <2>1. /\ done /\ ~done' /\ runs[page].at = "idle"
          /\ UNCHANGED <<extension, window, coldStart, faults, page, runs>>
        BY <1>6 DEF Continue, Idle, pace, market
    <2>2. current' > current
        <3>1. current' \in Topics /\ current \in Topics /\ status[current'] = "not_started"
            BY <1>6 DEF Continue, NotStarted, TypeInv, TypeOK
        <3>2. status[current] # "not_started"
            BY <2>1 DEF CourseInv, OrderInv
        <3>3. \A t \in Topics : t < current => status[t] # "not_started"
            BY DEF CourseInv, OrderInv
        <3>4. QED
            BY <3>1, <3>2, <3>3 DEF Topics
    <2>3. /\ Late' = Late
          /\ Spent = 1 /\ Spent' = 0 /\ Written = 1 /\ Written' = 0
        BY <1>2, <2>1 DEF Late, Spent, Written
    <2>4. /\ Cardinality(Late) \in Nat /\ extension \in Nat /\ faults \in Nat
          /\ current \in Nat /\ current' \in Nat /\ Len(window) \in 0..DriftWindow
        BY PaceTypes, PaceTypesNext DEF PaceTyped
    <2>5. Budget'
        BY <2>1, <2>2, <2>3, <2>4 DEF PaceInv, Budget, ExtensionDays
    <2>6. ASSUME faults = 0
          PROVE  /\ Len(window) = DriftWindow => current' >= DriftWindow
                 /\ Len(window) < DriftWindow => Len(window) <= current' - 1
                 /\ extension <= ExtensionDays * Larger(0, current' - DriftWindow)
        <3>1. PICK x, w, c, d :
                 x = extension /\ w = Len(window) /\ c = current /\ d = current'
            OBVIOUS
        <3>2. /\ x \in Nat /\ w \in 0..3 /\ c \in Nat /\ d \in Nat /\ d > c
            BY <2>2, <2>4, <3>1 DEF DriftWindow
        <3>3. /\ w = 3 => c >= 3
              /\ w < 3 => w <= c - 1 + 1
              /\ x <= 2 * Larger(0, c - 3 + 1)
            BY <2>3, <2>6, <3>1 DEF PaceInv, FaultlessInv, DriftWindow, ExtensionDays
        <3>4. /\ w = 3 => d >= 3
              /\ w < 3 => w <= d - 1
              /\ x <= 2 * Larger(0, d - 3)
            BY <3>2, <3>3 DEF Larger
        <3>5. QED
            BY <3>1, <3>4 DEF DriftWindow, ExtensionDays
    <2>7. current' - DriftWindow + 0 = current' - DriftWindow /\ current' - 1 + 0 = current' - 1
        BY <2>4 DEF DriftWindow
    <2>8. FaultlessInv'
        BY <2>1, <2>3, <2>6, <2>7 DEF PaceInv, FaultlessInv
    <2>9. QED
        BY <2>1, <2>5, <2>8 DEF PaceInv
<1>7. CASE Interrupt
    <2>1. /\ faults' = faults + 1 /\ page' \in Runs /\ runs[page'].at = "idle"
          /\ UNCHANGED <<extension, window, current, coldStart, done, runs>>
        BY <1>7 DEF Interrupt, Idle, pace, market, place, shown
    <2>2. CASE runs[page].at \in {"snapshot", "adapt"}
        <3>1. ~done
            BY <2>2 DEF PaceInv, CompletionSteps
        <3>2. Late' \subseteq Late \cup {page} /\ Spent = 0 /\ Spent' = 0
            BY <1>2, <2>1, <2>2, <3>1 DEF Late, Spent
        <3>3. QED
            BY <1>2, <2>1, <3>2, FaultStep
    <2>3. CASE runs[page].at \notin {"snapshot", "adapt"}
        <3>1. Late' \subseteq Late
            BY <2>1, <2>3 DEF Late
        <3>2. QED
            BY <1>2, <2>1, <3>1, FaultStep
    <2>4. QED
        BY <2>2, <2>3
<1>8. ASSUME NEW r \in Runs, Fail(r)
      PROVE  PaceInv'
    <2>1. /\ faults' = faults + 1 /\ runs' = [runs EXCEPT ![r] = IdleRun]
          /\ UNCHANGED <<extension, window, current, coldStart, done, page>>
        BY <1>8 DEF Fail, End, pace, market, place, shown
    <2>2. runs'[r].at = "idle" /\ \A q \in Runs \ {r} : runs'[q] = runs[q]
        BY <1>1, <1>2, <2>1
    <2>3. Late' \subseteq Late
        BY <2>1, <2>2 DEF Late
    <2>4. runs'[page'].at \in CompletionSteps => ~done'
        BY <1>1, <1>2, <2>1, <2>2 DEF PaceInv
    <2>5. QED
        BY <2>1, <2>3, <2>4, FaultStep
<1>9. QED
    BY <1>3, <1>4, <1>5, <1>6, <1>7, <1>8 DEF Learner, Environment

LEMMA InitPace == Init => PaceInv
<1> SUFFICES ASSUME Init
             PROVE  PaceInv
    OBVIOUS
<1>1. Late = {} /\ Spent = 0 /\ Written = 0
    BY DEF Init, Late, Spent, Written, IdleRun, CompletionSteps
<1>2. Cardinality(Late) = 0
    BY <1>1, FS_EmptySet
<1>3. Len(window) = 0 /\ extension = 0 /\ current = 1 /\ faults = 0
    BY DEF Init
<1>4. Budget
    BY <1>1, <1>2, <1>3 DEF Budget, ExtensionDays
<1>5. FaultlessInv
    BY <1>1, <1>3 DEF Init, FaultlessInv, IdleRun, ExtensionDays, DriftWindow, Larger
<1>6. QED
    BY <1>3, <1>4, <1>5 DEF Init, PaceInv, IdleRun, CompletionSteps

LEMMA PaceAlways == Spec => [](TypeInv /\ CourseInv /\ PaceInv)
<1>1. Init => PaceInv
    BY InitPace
<1>2. ASSUME TypeInv, TypeInv', CourseInv, PaceInv, [Next]_vars
      PROVE  PaceInv'
    <2>1. ASSUME NEW r \in Runs, RunStep(r)
          PROVE  PaceInv'
        BY <1>2, <2>1, RunStepPace
    <2>2. CASE Learner \/ Environment
        BY <1>2, <2>2, AroundRunPace
    <2>3. CASE UNCHANGED vars
        BY <1>2, <2>3, SameTurn DEF vars
    <2>4. QED
        BY <1>2, <2>1, <2>2, <2>3 DEF Next
<1>3. TypeInv /\ TypeInv' /\ CourseInv /\ PaceInv /\ [Next]_vars => PaceInv'
    BY <1>2
<1>4. QED
    BY <1>1, <1>3, CourseAlways, PTL DEF Spec

\* The pacing is extended after calibration, from a full window on, and as often
\* as topics and faults give cause.
THEOREM ExtensionIsEarned == Spec => []ExtensionEarned
<1>1. ASSUME TypeInv, PaceInv
      PROVE  ExtensionEarned
    <2>1. /\ extension \in Nat /\ current \in Nat /\ faults \in Nat
          /\ Spent \in {0, 1} /\ Cardinality(Late) \in Nat
        BY <1>1, PaceTypes, PaceTypesNext DEF PaceTyped
    <2>2. extension <= ExtensionDays * (current + faults)
        BY <1>1, <2>1 DEF PaceInv, Budget, ExtensionDays
    <2>3. faults = 0 => extension <= ExtensionDays * Larger(0, current - 2)
        BY <1>1, <2>1 DEF PaceInv, FaultlessInv, ExtensionDays, DriftWindow, Larger
    <2>4. QED
        BY <1>1, <2>2, <2>3 DEF PaceInv, ExtensionEarned
<1>2. TypeInv /\ PaceInv => ExtensionEarned
    BY <1>1
<1>3. QED
    BY <1>2, PaceAlways, PTL

\* The topics before the current one are measured, and the current one is once
\* it has had its turn to extend the pacing.
LEMMA MeasuredSoFar ==
    ASSUME TypeInv, CourseInv, NEW t \in Topics,
           t < current \/ (t = current /\ Spent = 1)
    PROVE  t \in measured
<1>1. current \in Topics /\ Topics \subseteq Int
    BY CoachingAssumption DEF TypeInv, TypeOK, Topics
<1>2. CASE status[t] # "not_started"
    BY <1>2 DEF CourseInv, CompletedMeasured, Completed, NotStarted
<1>3. CASE status[t] = "not_started"
    <2>1. t = current /\ Spent = 1
        BY <1>3 DEF CourseInv, OrderInv
    <2>2. ~done
        BY <1>3, <2>1 DEF CourseInv, OrderInv
    <2>3. runs[page].at \in CompletionSteps \ {"snapshot", "adapt"}
        BY <2>1, <2>2 DEF Spent
    <2>4. runs[page].topic = current /\ page \in Runs
        BY <2>3 DEF CourseInv, RunsInv, TypeInv, TypeOK
    <2>5. QED
        BY <2>1, <2>3, <2>4 DEF CourseInv, RunsInv, RunFits
<1>4. QED
    BY <1>2, <1>3

\* "only a sustained trend (not a single day) triggers adaptation" (README.md:34)
\* holds of every learner whose runs neither fail nor are stopped: an extension
\* of the pacing takes three different topics.  The commits that a broken run
\* repeats are thus all that stands behind the violation of SustainedTrend.
THEOREM TrendsAreSustained == Spec => [](faults = 0 => SustainedTrend)
<1>1. ASSUME TypeInv, CourseInv, PaceInv, faults = 0, extension > 0
      PROVE  Cardinality(measured) >= DriftWindow
    <2>1. /\ current \in Nat /\ extension \in Nat /\ Spent \in {0, 1}
        BY <1>1, PaceTypes DEF PaceTyped
    <2>2. /\ current >= 3
          /\ extension <= ExtensionDays * Larger(0, current - 3 + Spent)
        BY <1>1 DEF PaceInv, FaultlessInv, DriftWindow
    <2>3. current > 3 \/ Spent = 1
        <3>1. PICK c, s, x : c = current /\ s = Spent /\ x = extension
            OBVIOUS
        <3>2. /\ c \in Nat /\ s \in {0, 1} /\ x \in Nat /\ x > 0 /\ c >= 3
              /\ x <= 2 * Larger(0, c - 3 + s)
            BY <1>1, <2>1, <2>2, <3>1 DEF ExtensionDays
        <3>3. c > 3 \/ s = 1
            BY <3>2 DEF Larger
        <3>4. QED
            BY <3>1, <3>3
    <2>4. 1..3 \subseteq Topics
        BY <1>1, <2>2, CoachingAssumption DEF TypeInv, TypeOK, Topics
    <2>5. 1..3 \subseteq measured
        BY <1>1, <2>1, <2>2, <2>3, <2>4, MeasuredSoFar
    <2>6. IsFiniteSet(measured)
        <3>1. PICK T : T = measured
            OBVIOUS
        <3>2. T \subseteq 1..NumTopics
            BY <1>1, <3>1 DEF TypeInv, TypeOK, Topics
        <3>3. IsFiniteSet(1..NumTopics)
            BY CoachingAssumption, FS_Interval
        <3>4. QED
            BY <3>1, <3>2, <3>3, FS_Subset
    <2>7. Cardinality(1..3) = 3
        <3>1. PICK a \in Int, b \in Int : a = 1 /\ b = 3
            OBVIOUS
        <3>2. Cardinality(a..b) = IF a > b THEN 0 ELSE b - a + 1
            BY Zenon, FS_Interval
        <3>3. (IF a > b THEN 0 ELSE b - a + 1) = 3
            BY <3>1
        <3>4. QED
            BY <3>1, <3>2, <3>3
    <2>8. Cardinality(1..3) <= Cardinality(measured)
        <3>1. PICK T : T = measured
            OBVIOUS
        <3>2. IsFiniteSet(T) /\ 1..3 \in SUBSET T
            BY <2>5, <2>6, <3>1
        <3>3. Cardinality(1..3) <= Cardinality(T)
            BY <3>2, FS_Subset
        <3>4. QED
            BY <3>1, <3>3
    <2>9. Cardinality(measured) \in Nat
        BY <2>6, FS_CardinalityType
    <2>10. QED
        BY <2>7, <2>8, <2>9 DEF DriftWindow
<1>2. TypeInv /\ CourseInv /\ PaceInv => (faults = 0 => SustainedTrend)
    BY <1>1 DEF SustainedTrend
<1>3. QED
    BY <1>2, PaceAlways, PTL
=============================================================================
