------------------------------ MODULE Coaching ------------------------------
(***************************************************************************)
(* The learner's way through a confirmed outline: main's day-by-day        *)
(* coaching, verification and goal completion pages around                 *)
(* complete_topic_verification of the Coaching & Pace Agent, with the      *)
(* pace adaptation, the delivery of patch-notes and the market refresh     *)
(* that creates them.  The quiz itself is Verification.tla; the pace       *)
(* arithmetic is PaceMath.tla.                                             *)
(*                                                                         *)
(* A script run of the page completes a topic in up to six steps, each a   *)
(* transaction of its own: the snapshot row, the pace extension, the       *)
(* augmentation of a topic, the status of a patch-note, the status of the  *)
(* topic, and only then the session state.  A database error ends the run  *)
(* where it is, and what it committed stays.  A click on a busy page       *)
(* starts another run at once, which finds the completion not done and     *)
(* begins it again, while the first goes on to its end; what that one      *)
(* returns is dropped.                                                     *)
(***************************************************************************)
EXTENDS PaceMath, FiniteSets

CONSTANTS
    NumTopics,      \* core topics of the outline
    Expected,       \* calculate_days_expected of the learner
    Outcomes,       \* scores and days of a topic explored
    Runs,           \* script runs that can be busy at once
    MaxNotes,       \* bound: patch-notes created
    MaxFaults       \* bound: failed and interrupted runs

Topics == 1..NumTopics      \* by hierarchy_position
ExtensionDays == 2          \* PACE_EXTENSION_DAYS_PER_TRIGGER
Statuses == {"not_started", "completed", "completed_test_out"}
NoteStatuses == {"pending", "delivered", "deferred"}

\* The steps a run can be about to take.
CompletionSteps == {"snapshot", "adapt", "patch", "augment", "deliver", "mark"}
DecisionSteps == {"learn", "learned", "defer"}

ASSUME CoachingAssumption ==
    /\ NumTopics \in Nat \ {0}
    /\ Expected \in Nat \ {0}
    /\ Outcomes \subseteq [score : Scores, days : Nat \ {0}]
    /\ \E o \in Outcomes : TRUE
    /\ IsFiniteSet(Runs)
    /\ MaxNotes \in Nat
    /\ MaxFaults \in Nat

VARIABLES
    status,         \* outline_topics.status
    provenance,     \* the patch-note a topic was last augmented from, or 0
    window,         \* the trailing rows of pace_snapshots, by computed_at
    measured,       \* the topics that have a row in pace_snapshots
    extension,      \* users.pace_extension_days
    coldStart,      \* the account is younger than COLD_START_CALIBRATION_DAYS
    emerging,       \* the role's cached row offers an unused emerging skill
    notes,          \* patch_notes
    stage,          \* st.session_state.current_stage
    current,        \* st.session_state.current_topic_id
    signal,         \* the pace signal of the current topic's quiz and days
    isTestOut,      \* st.session_state.is_test_out
    done,           \* last_completion_result is set
    banner,         \* pending_patch_decision: a patch-note, or 0
    runs,           \* the script runs: what each is about to do, and with what
    page,           \* the run that serves the page
    faults          \* runs that failed or were interrupted

market == <<coldStart, emerging>>
pace == <<window, measured, extension>>
place == <<stage, current, signal, isTestOut>>
shown == <<done, banner>>
allButRuns == <<status, provenance, pace, market, notes, place, shown, page, faults>>
vars == <<status, provenance, window, measured, extension, coldStart, emerging,
          notes, stage, current, signal, isTestOut, done, banner, runs, page, faults>>

-----------------------------------------------------------------------------
IdleRun == [at |-> "idle", topic |-> 1, signal |-> 0, testOut |-> FALSE, note |-> 0]

Init ==
    /\ status = [t \in Topics |-> "not_started"]
    /\ provenance = [t \in Topics |-> 0]
    /\ window = <<>>
    /\ measured = {}
    /\ extension = 0
    /\ coldStart = TRUE
    /\ emerging \in BOOLEAN
    /\ notes = <<>>
    /\ stage = "coaching"
    /\ current = 1
    /\ signal = 0
    /\ isTestOut = FALSE
    /\ done = FALSE
    /\ banner = 0
    /\ runs = [r \in Runs |-> IdleRun]
    /\ page \in Runs
    /\ faults = 0

Idle(r) == runs[r].at = "idle"
At(r, step) == runs[r].at = step
Goto(r, step) == runs' = [runs EXCEPT ![r].at = step]
End(r) == runs' = [runs EXCEPT ![r] = IdleRun]

\* Studying the current topic and answering its quiz to the end.  A test-out
\* is offered before the first day's content only.
FinishQuiz ==
    /\ stage = "coaching"
    /\ \E o \in Outcomes :
          /\ isTestOut' \in {FALSE} \cup {o.days = 1}
          /\ signal' = Signal(Expected, o.score, o.days)
    /\ stage' = "verification"
    /\ UNCHANGED <<status, provenance, pace, market, notes, current, shown, runs,
                   page, faults>>

-----------------------------------------------------------------------------
(* complete_topic_verification, step by step                               *)

StartCompletion ==
    /\ stage = "verification"
    /\ ~done
    /\ Idle(page)
    /\ runs' = [runs EXCEPT ![page] =
                  [at |-> "snapshot", topic |-> current, signal |-> signal,
                   testOut |-> isTestOut, note |-> 0]]
    /\ UNCHANGED allButRuns

\* Mutated form of Trailing: the history is not limited to a window.
WholeHistory(rows) == rows

\* write_pace_snapshot.  Of the history only its trailing window is ever read.
Trailing(rows) ==
    IF Len(rows) <= DriftWindow THEN rows ELSE SubSeq(rows, 2, DriftWindow + 1)

\* Mutated form of WriteSnapshot: no snapshots during calibration.
SnapshotWhenWarm(r) ==
    /\ At(r, "snapshot")
    /\ IF coldStart
       THEN UNCHANGED <<window, measured>>
       ELSE /\ window' = Trailing(Append(window, runs[r].signal))
            /\ measured' = measured \cup {runs[r].topic}
    /\ Goto(r, "adapt")
    /\ UNCHANGED <<status, provenance, extension, market, notes, place, shown, page,
                   faults>>

WriteSnapshot(r) ==
    /\ At(r, "snapshot")
    /\ window' = Trailing(Append(window, runs[r].signal))
    /\ measured' = measured \cup {runs[r].topic}
    /\ Goto(r, "adapt")
    /\ UNCHANGED <<status, provenance, extension, market, notes, place, shown, page,
                   faults>>

\* Mutated form of PossibleDrifts: calibration is ignored.
UncalibratedDrifts == Drifts(Expected, window)

\* The drift of the history as it is read now; calibration ignores it.
PossibleDrifts ==
    IF coldStart THEN {"on_track"} ELSE Drifts(Expected, window)

\* "behind": extend_pacing.
ExtendPacing(r) ==
    /\ At(r, "adapt")
    /\ "behind" \in PossibleDrifts
    /\ extension' = extension + ExtensionDays
    /\ Goto(r, "patch")
    /\ UNCHANGED <<status, provenance, window, measured, market, notes, place,
                   shown, page, faults>>

\* "ahead" with an emerging skill: maybe_trigger_enrichment names the finished
\* topic by the string kept in the session, and insert_new_topic, which
\* compares it with the UUIDs of the rows, raises: no such prerequisite.
EnrichmentRaises(r) ==
    /\ At(r, "adapt")
    /\ "ahead" \in PossibleDrifts
    /\ emerging
    /\ End(r)
    /\ UNCHANGED allButRuns

\* Nothing to adapt: on track, or ahead with no emerging skill to offer.
KeepPace(r) ==
    /\ At(r, "adapt")
    /\ \/ "on_track" \in PossibleDrifts
       \/ "ahead" \in PossibleDrifts /\ ~emerging
    /\ Goto(r, "patch")
    /\ UNCHANGED allButRuns

\* maybe_deliver_patch: decide_patch_delivery over the notes pending now.
Pending == {n \in 1..Len(notes) : notes[n].status = "pending"}
HighPending == {n \in Pending : notes[n].high}
FirstOf(S) == {n \in S : \A m \in S : notes[n].origin <= notes[m].origin}

PickHigh(r) ==
    /\ At(r, "patch")
    /\ \E n \in FirstOf(HighPending) :
          runs' = [runs EXCEPT ![r].note = n, ![r].at = "augment"]
    /\ UNCHANGED allButRuns

\* Mutated form of PickLow: high notes are offered for a decision too.
PickAnyPending(r) ==
    /\ At(r, "patch")
    /\ \E n \in FirstOf(Pending) :
          runs' = [runs EXCEPT ![r].note = n, ![r].at = "mark"]
    /\ UNCHANGED allButRuns

\* Only low-confidence notes: one is returned for the learner to decide.
PickLow(r) ==
    /\ At(r, "patch")
    /\ HighPending = {}
    /\ \E n \in FirstOf(Pending) :
          runs' = [runs EXCEPT ![r].note = n, ![r].at = "mark"]
    /\ UNCHANGED allButRuns

PickNone(r) ==
    /\ At(r, "patch")
    /\ Pending = {}
    /\ Goto(r, "mark")
    /\ UNCHANGED allButRuns

\* augment_outline_topic touches neither status nor position.
Augmented(r) == [provenance EXCEPT ![notes[runs[r].note].origin] = runs[r].note]
Resolved(r, s) == [notes EXCEPT ![runs[r].note].status = s]

AugmentHigh(r) ==
    /\ At(r, "augment")
    /\ provenance' = Augmented(r)
    /\ Goto(r, "deliver")
    /\ UNCHANGED <<status, pace, market, notes, place, shown, page, faults>>

DeliverHigh(r) ==
    /\ At(r, "deliver")
    /\ notes' = Resolved(r, "delivered")
    /\ runs' = [runs EXCEPT ![r].note = 0, ![r].at = "mark"]
    /\ UNCHANGED <<status, provenance, pace, market, place, shown, page, faults>>

\* Mutated form of MarkCompleted: the mode is read from the session, not the run.
MarkInPageMode(r) ==
    /\ At(r, "mark")
    /\ status' = [status EXCEPT ![runs[r].topic] =
                    IF isTestOut THEN "completed_test_out" ELSE "completed"]
    /\ done' = (done \/ r = page)
    /\ banner' = IF r = page THEN runs[r].note ELSE banner
    /\ End(r)
    /\ UNCHANGED <<provenance, pace, market, notes, place, page, faults>>

\* mark_topic_completed, and the return to the page: only the run that still
\* serves the page stores its result.
MarkCompleted(r) ==
    /\ At(r, "mark")
    /\ status' = [status EXCEPT ![runs[r].topic] =
                    IF runs[r].testOut THEN "completed_test_out" ELSE "completed"]
    /\ done' = (done \/ r = page)
    /\ banner' = IF r = page THEN runs[r].note ELSE banner
    /\ End(r)
    /\ UNCHANGED <<provenance, pace, market, notes, place, page, faults>>

-----------------------------------------------------------------------------
(* The banner: learn now, or defer (resolve_pending_patch_decision)        *)

Decide(step) ==
    /\ done
    /\ banner # 0
    /\ stage = "verification"
    /\ Idle(page)
    /\ runs' = [runs EXCEPT ![page] = [IdleRun EXCEPT !.at = step, !.note = banner]]
    /\ UNCHANGED allButRuns

ClickLearnNow == Decide("learn")
ClickDefer == Decide("defer")

AugmentLearned(r) ==
    /\ At(r, "learn")
    /\ provenance' = Augmented(r)
    /\ Goto(r, "learned")
    /\ UNCHANGED <<status, pace, market, notes, place, shown, page, faults>>

\* The status commit of either choice closes the banner of the page it serves.
ResolveDecision(r) ==
    /\ At(r, "learned") \/ At(r, "defer")
    /\ notes' = Resolved(r, IF At(r, "learned") THEN "delivered" ELSE "deferred")
    /\ banner' = IF r = page THEN 0 ELSE banner
    /\ End(r)
    /\ UNCHANGED <<status, provenance, pace, market, place, done, page, faults>>

-----------------------------------------------------------------------------
(* Leaving a completed topic                                               *)

NotStarted == {t \in Topics : status[t] = "not_started"}

\* Mutated form of Continue: the next topic is any that is not started.
ContinueAnywhere ==
    /\ stage = "verification" /\ done /\ Idle(page)
    /\ current' \in NotStarted
    /\ stage' = "coaching"
    /\ signal' = 0
    /\ isTestOut' = FALSE
    /\ done' = FALSE
    /\ banner' = 0
    /\ UNCHANGED <<status, provenance, pace, market, notes, runs, page, faults>>

\* Mutated form of Continue: the last completion result is not reset.
ContinueKeepsResult ==
    /\ stage = "verification" /\ done /\ Idle(page)
    /\ \E t \in NotStarted :
          /\ \A u \in NotStarted : t <= u
          /\ current' = t
    /\ stage' = "coaching"
    /\ signal' = 0
    /\ isTestOut' = FALSE
    /\ banner' = 0
    /\ UNCHANGED <<status, provenance, pace, market, notes, done, runs, page,
                   faults>>

\* "Continue to next topic".
Continue ==
    /\ stage = "verification" /\ done /\ Idle(page)
    /\ \E t \in NotStarted :
          /\ \A u \in NotStarted : t <= u
          /\ current' = t
    /\ stage' = "coaching"
    /\ signal' = 0
    /\ isTestOut' = FALSE
    /\ done' = FALSE
    /\ banner' = 0
    /\ UNCHANGED <<status, provenance, pace, market, notes, runs, page, faults>>

\* "View closing note", offered when is_goal_complete.
ViewClosingNote ==
    /\ stage = "verification" /\ done /\ Idle(page)
    /\ NotStarted = {}
    /\ stage' = "goal"
    /\ UNCHANGED <<status, provenance, pace, market, notes, current, signal,
                   isTestOut, shown, runs, page, faults>>

-----------------------------------------------------------------------------
(* What happens to the page and around it                                  *)

\* A database error ends a run; the page shows it and can be run again.
Fail(r) ==
    /\ faults < MaxFaults
    /\ ~Idle(r)
    /\ End(r)
    /\ faults' = faults + 1
    /\ UNCHANGED <<status, provenance, pace, market, notes, place, shown, page>>

\* A click on a busy page: another run serves it from now on.
Interrupt ==
    /\ faults < MaxFaults
    /\ ~Idle(page)
    /\ page' \in {r \in Runs : Idle(r)}
    /\ faults' = faults + 1
    /\ UNCHANGED <<status, provenance, pace, market, notes, place, shown, runs>>

\* A refresh finds that the skill of a completed topic rose.
NoteCreated ==
    /\ Len(notes) < MaxNotes
    /\ \E t \in Topics \ NotStarted, high \in BOOLEAN :
          notes' = Append(notes, [origin |-> t, high |-> high, status |-> "pending"])
    /\ UNCHANGED <<status, provenance, pace, market, place, shown, runs, page, faults>>

\* A refresh writes emerging_skills=[].
RoleRefreshed ==
    /\ emerging' = FALSE
    /\ UNCHANGED <<status, provenance, pace, coldStart, notes, place, shown, runs,
                   page, faults>>

CalibrationEnds ==
    /\ coldStart' = FALSE
    /\ UNCHANGED <<status, provenance, pace, emerging, notes, place, shown, runs,
                   page, faults>>

-----------------------------------------------------------------------------
RunStep(r) ==
    \/ WriteSnapshot(r)
    \/ ExtendPacing(r)
    \/ EnrichmentRaises(r)
    \/ KeepPace(r)
    \/ PickHigh(r)
    \/ PickLow(r)
    \/ PickNone(r)
    \/ AugmentHigh(r)
    \/ DeliverHigh(r)
    \/ MarkCompleted(r)
    \/ AugmentLearned(r)
    \/ ResolveDecision(r)

Learner ==
    \/ FinishQuiz
    \/ StartCompletion
    \/ ClickLearnNow
    \/ ClickDefer
    \/ Continue
    \/ ViewClosingNote

Environment ==
    \/ Interrupt
    \/ NoteCreated
    \/ RoleRefreshed
    \/ CalibrationEnds
    \/ \E r \in Runs : Fail(r)

Next ==
    \/ Learner
    \/ Environment
    \/ \E r \in Runs : RunStep(r)

Spec == Init /\ [][Next]_vars

\* The learner goes on: answers the quizzes, runs a page that shows an error
\* again, and leaves a completed topic.  A run that neither fails nor is
\* interrupted reaches its end.
Fairness ==
    /\ WF_vars(FinishQuiz)
    /\ WF_vars(StartCompletion)
    /\ WF_vars(Continue \/ ViewClosingNote)
    /\ \A r \in Runs : WF_vars(RunStep(r))

FairSpec == Spec /\ Fairness

-----------------------------------------------------------------------------
(* Properties                                                              *)

Signal01 == 0..SignalUnit(Expected)

RunStates ==
    [at : {"idle"} \cup CompletionSteps \cup DecisionSteps, topic : Topics,
     signal : Signal01, testOut : BOOLEAN, note : 0..MaxNotes]

\* Every variable has its type, and every patch-note a run or the banner holds
\* exists.
TypeOK ==
    /\ status \in [Topics -> Statuses]
    /\ provenance \in [Topics -> 0..MaxNotes]
    /\ window \in Seq(Signal01) /\ Len(window) <= DriftWindow
    /\ measured \subseteq Topics
    /\ extension \in Nat
    /\ coldStart \in BOOLEAN
    /\ emerging \in BOOLEAN
    /\ notes \in Seq([origin : Topics, high : BOOLEAN, status : NoteStatuses])
    /\ stage \in {"coaching", "verification", "goal"}
    /\ current \in Topics
    /\ signal \in Signal01
    /\ isTestOut \in BOOLEAN
    /\ done \in BOOLEAN
    /\ banner \in 0..Len(notes)
    /\ runs \in [Runs -> RunStates]
    /\ \A r \in Runs :
          /\ runs[r].note <= Len(notes)
          /\ runs[r].at \in {"augment", "deliver"} \cup DecisionSteps
                => runs[r].note # 0
    /\ page \in Runs
    /\ faults \in Nat

Completed == Topics \ NotStarted

\* A completed topic counts in the pace: whichever run completed it, in
\* whatever order runs failed and overlapped, its snapshot was written.
CompletedMeasured ==
    Completed \subseteq measured

\* "market events that affect an already-completed topic never reopen its
\* original status" (README.md:35), and neither does a late run: a topic that
\* was tested out stays tested out, a studied one stays studied.
NeverReopened ==
    [][\A t \in Topics : status[t] # "not_started" => status'[t] = status[t]]_vars

\* A delivered note has reached the topic it is about: the topic carries that
\* note or a later choice about the same topic.  High-confidence notes are
\* never parked: only low ones are put to the learner.
NotesSound ==
    \A n \in 1..Len(notes) :
        /\ notes[n].status = "delivered" =>
              /\ provenance[notes[n].origin] # 0
              /\ notes[provenance[notes[n].origin]].origin = notes[n].origin
        /\ notes[n].status = "deferred" => ~notes[n].high

\* "Weeks 1-2 are calibration only" (README.md:34).  After them a topic
\* extends the pacing at most once, and not before a window is full; every
\* extension above that is a run's that failed or was interrupted.
ExtensionEarned ==
    /\ coldStart => extension = 0
    /\ extension > 0 => Len(window) = DriftWindow
    /\ extension <= ExtensionDays * (current + faults)
    /\ faults = 0 => extension <= ExtensionDays * Larger(0, current - 2)

Promise == INSTANCE Journey WITH completed <- Completed, reached <- stage = "goal"

\* Coaching keeps the promise of Journey.tla: topics are completed in order
\* and for good, and the goal is reached when all core topics are.
JourneyPromise == Promise!Spec

\* A learner who goes on reaches the goal, whatever market updates come and
\* finitely many runs fail, once the role's cached row offers no emerging
\* skill.
GoalReached == <>[]~emerging => <>(stage = "goal")

\* "only a sustained trend (not a single day) triggers adaptation"
\* (README.md:34): an extension takes three topics.
SustainedTrend ==
    extension > 0 =>
        Cardinality(measured) >= DriftWindow

\* "High-confidence patches are prioritized into near-term delivery"
\* (README.md:35): a pending high-confidence note is delivered at some time.
HighDelivered ==
    \A n \in 1..MaxNotes :
        n \in HighPending ~> (n <= Len(notes) /\ notes[n].status = "delivered")
=============================================================================
