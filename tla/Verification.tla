---------------------------- MODULE Verification ----------------------------
(***************************************************************************)
(* The verification quiz of one topic: main._render_verification drives    *)
(* begin_verification_question and submit_verification_answer of the       *)
(* Coaching & Pace Agent, one question slot after the other, and asks for  *)
(* completion once the slot counter runs past the last slot.               *)
(*                                                                         *)
(* Two records of the quiz exist.  The browser session holds the slot in   *)
(* progress (st.session_state); the database holds one row per graded      *)
(* answer (verification_attempts).  An answer writes its row first and     *)
(* updates the session last, with calls that can fail in between, so the   *)
(* two can disagree; completion believes the database.                     *)
(*                                                                         *)
(* Streamlit serves a click that arrives while a script run is busy by     *)
(* starting a new run at once.  The old run is stopped at its next access  *)
(* to st.session_state, so what it computed is never stored, but the       *)
(* database call it is in still happens, maybe later: its row is an        *)
(* orphan here until it is committed.                                      *)
(***************************************************************************)
EXTENDS Naturals, FiniteSets

CONSTANTS
    NumQuestions,   \* question slots of a topic: 5 in the code
    MaxAttempts,    \* MAX_VERIFICATION_ATTEMPTS: 3 in the code
    Texts,          \* question texts, equal when strip().casefold() are
    NoSlot,         \* verification_slot_state is None
    NoResult,       \* last_completion_result is None
    Interrupts,     \* whether clicks interrupt busy script runs
    MaxFaults       \* bound: lost results explored

NotYet == 0         \* NOT_YET_RESOLVED_CREDIT
Half == 1           \* HALF_CREDIT, in halves
Full == 2           \* FULL_CREDIT, in halves

Slots == 1..NumQuestions
AttemptNumbers == 1..MaxAttempts
Statuses == {"not_started", "completed", "completed_test_out"}

\* VerificationSlotState, frozen: previous is previous_question_texts.
SlotStates == [attempt: AttemptNumbers, text: Texts, previous: SUBSET Texts,
               resolved: BOOLEAN, credit: {NotYet, Half, Full}]

\* A verification_attempts row; id stands for its primary key.
Rows == [id: Nat \ {0}, question: Slots, attempt: AttemptNumbers, text: Texts,
         passed: BOOLEAN, credit: {NotYet, Half, Full}]

\* What completion hands to the session: the credits, and full_pass.
Results == [credits: [Slots -> {NotYet, Half, Full}], fullPass: BOOLEAN]

ASSUME VerificationAssumption ==
    /\ NumQuestions \in Nat \ {0}
    /\ MaxAttempts \in Nat \ {0}
    /\ Interrupts \in BOOLEAN
    /\ MaxFaults \in Nat
    /\ NoSlot \notin SlotStates
    /\ NoResult \notin Results

VARIABLES
    attempts,         \* rows of verification_attempts of this topic
    orphans,          \* rows that interrupted runs have yet to commit
    answers,          \* answers graded so far: the next row's id
    questionNumber,   \* st.session_state.current_question_number
    slot,             \* st.session_state.verification_slot_state
    isTestOut,        \* st.session_state.is_test_out
    status,           \* outline_topics.status of the topic
    result,           \* st.session_state.last_completion_result
    faults            \* results lost so far

quiz == <<questionNumber, slot>>
log == <<attempts, orphans, answers>>
topic == <<isTestOut, status, result>>
vars == <<attempts, orphans, answers, questionNumber, slot, isTestOut, status,
          result, faults>>

-----------------------------------------------------------------------------
(* Starting a slot                                                         *)

Init ==
    /\ attempts = {}
    /\ orphans = {}
    /\ answers = 0
    /\ questionNumber = 1
    /\ slot = NoSlot
    /\ isTestOut \in BOOLEAN
    /\ status = "not_started"
    /\ result = NoResult
    /\ faults = 0

\* Mutated form of PastLastSlot: one question too many.
PastSlotAfterLast == questionNumber > NumQuestions + 1

\* The run of _render_verification that completes instead of asking.
PastLastSlot == questionNumber > NumQuestions

\* No previous_question_texts are passed: any text will do.  When the
\* generator raises, the page shows the error and nothing changes.
BeginQuestion ==
    /\ ~PastLastSlot
    /\ slot = NoSlot
    /\ \E t \in Texts :
          slot' = [attempt |-> 1, text |-> t, previous |-> {t},
                   resolved |-> FALSE, credit |-> NotYet]
    /\ UNCHANGED <<log, questionNumber, topic, faults>>

-----------------------------------------------------------------------------
(* Answering                                                               *)

AtCap(attempt) == attempt >= MaxAttempts

Credit(passed, attempt) ==
    IF passed THEN Full ELSE IF AtCap(attempt) THEN Half ELSE NotYet

\* The row of a graded answer to the question on screen.
Row(passed) ==
    [id |-> answers + 1, question |-> questionNumber, attempt |-> slot.attempt,
     text |-> slot.text, passed |-> passed,
     credit |-> Credit(passed, slot.attempt)]

Graded == slot # NoSlot /\ ~slot.resolved /\ answers' = answers + 1

\* Mutated form of SubmitResolves: a failure at the cap leaves the slot open.
ResolvesWhenPassed ==
    \E passed \in BOOLEAN :
        /\ Graded
        /\ passed \/ AtCap(slot.attempt)
        /\ attempts' = attempts \cup {Row(passed)}
        /\ slot' = [slot EXCEPT !.resolved = passed,
                                !.credit = Credit(passed, slot.attempt)]
        /\ UNCHANGED <<orphans, questionNumber, topic, faults>>

\* The answer is passed, or failed at the cap: the slot is resolved.
SubmitResolves ==
    \E passed \in BOOLEAN :
        /\ Graded
        /\ passed \/ AtCap(slot.attempt)
        /\ attempts' = attempts \cup {Row(passed)}
        /\ slot' = [slot EXCEPT !.resolved = TRUE,
                                !.credit = Credit(passed, slot.attempt)]
        /\ UNCHANGED <<orphans, questionNumber, topic, faults>>

\* Mutated form of FreshTexts: a retry may repeat a question.
AnyText(previous) == Texts

\* generate_questions refuses any text already asked in this slot.
FreshTexts(previous) == Texts \ previous

\* Mutated form of SubmitRetries: the row of the failed attempt is not written.
RetryWithoutRow ==
    /\ Graded
    /\ ~AtCap(slot.attempt)
    /\ \E t \in FreshTexts(slot.previous) :
          slot' = [slot EXCEPT !.attempt = @ + 1, !.text = t,
                               !.previous = @ \cup {t}]
    /\ UNCHANGED <<attempts, orphans, questionNumber, topic, faults>>

\* The answer failed below the cap and a fresh question replaces it.
SubmitRetries ==
    /\ Graded
    /\ ~AtCap(slot.attempt)
    /\ attempts' = attempts \cup {Row(FALSE)}
    /\ \E t \in FreshTexts(slot.previous) :
          slot' = [slot EXCEPT !.attempt = @ + 1, !.text = t,
                               !.previous = @ \cup {t}]
    /\ UNCHANGED <<orphans, questionNumber, topic, faults>>

\* The answer failed below the cap, its row is committed, and then the
\* generator raises: the page shows the error and keeps the old slot.
SubmitLosesRetry ==
    /\ faults < MaxFaults
    /\ Graded
    /\ ~AtCap(slot.attempt)
    /\ attempts' = attempts \cup {Row(FALSE)}
    /\ faults' = faults + 1
    /\ UNCHANGED <<orphans, slot, questionNumber, topic>>

\* A click interrupts the run that is grading the answer.
SubmitInterrupted ==
    /\ Interrupts
    /\ faults < MaxFaults
    /\ Graded
    /\ \E passed \in BOOLEAN : orphans' = orphans \cup {Row(passed)}
    /\ faults' = faults + 1
    /\ UNCHANGED <<attempts, slot, questionNumber, topic>>

\* The interrupted run reaches its commit.
OrphanCommits ==
    /\ \E r \in orphans :
          /\ attempts' = attempts \cup {r}
          /\ orphans' = orphans \ {r}
    /\ UNCHANGED <<answers, quiz, topic, faults>>

\* Mutated form of NextQuestion: the resolved slot is kept.
NextKeepsSlot ==
    /\ slot # NoSlot
    /\ slot.resolved
    /\ questionNumber <= NumQuestions
    /\ questionNumber' = questionNumber + 1
    /\ UNCHANGED <<log, slot, topic, faults>>

\* Mutated form of NextQuestion: a slot of half credit is not left.
NextAfterFullCredit ==
    /\ slot # NoSlot
    /\ slot.resolved /\ slot.credit = Full
    /\ questionNumber' = questionNumber + 1
    /\ slot' = NoSlot
    /\ UNCHANGED <<log, topic, faults>>

\* The "Next question" button of a resolved slot.
NextQuestion ==
    /\ slot # NoSlot
    /\ slot.resolved
    /\ questionNumber' = questionNumber + 1
    /\ slot' = NoSlot
    /\ UNCHANGED <<log, topic, faults>>

-----------------------------------------------------------------------------
(* Completing: _get_latest_attempt_per_question.  The rows of a slot are   *)
(* read in attempt order and the last one wins; the query leaves rows with *)
(* equal attempt numbers in any order.                                     *)

\* Mutated form of Unresolved: an unresolved last attempt counts.
NothingUnresolved(r) == FALSE

Unresolved(r) == ~r.passed /\ ~AtCap(r.attempt)

LastRows(q) ==
    {r \in attempts : /\ r.question = q
                      /\ \A s \in attempts : s.question = q => s.attempt <= r.attempt}

\* What _get_final_credits_per_question can return; when it has nothing to
\* return it raises ValueError, and completion changes nothing.
FinalCredits ==
    {[q \in Slots |-> latest[q].credit] :
        latest \in {f \in [Slots -> attempts] :
                       \A q \in Slots : f[q] \in LastRows(q) /\ ~Unresolved(f[q])}}

FullPass(credits) == \A q \in Slots : credits[q] = Full

\* complete_topic_verification, or complete_topic_test_out, which reads the
\* credits once for full_pass and once more for the completion itself.
CompleteTopic ==
    /\ PastLastSlot
    /\ result = NoResult
    /\ status' = IF isTestOut THEN "completed_test_out" ELSE "completed"
    /\ \E credits, first \in FinalCredits :
          result' = [credits |-> credits, fullPass |-> isTestOut /\ FullPass(first)]
    /\ UNCHANGED <<log, quiz, isTestOut, faults>>

\* The same, in a run that a click interrupts before it stores the result.
CompleteInterrupted ==
    /\ Interrupts
    /\ faults < MaxFaults
    /\ PastLastSlot
    /\ result = NoResult
    /\ FinalCredits # {}
    /\ status' = IF isTestOut THEN "completed_test_out" ELSE "completed"
    /\ faults' = faults + 1
    /\ UNCHANGED <<log, quiz, isTestOut, result>>

-----------------------------------------------------------------------------
Next ==
    \/ BeginQuestion
    \/ SubmitResolves
    \/ SubmitRetries
    \/ SubmitLosesRetry
    \/ SubmitInterrupted
    \/ OrphanCommits
    \/ NextQuestion
    \/ CompleteTopic
    \/ CompleteInterrupted

Spec == Init /\ [][Next]_vars

\* The learner keeps pressing the one button the page offers, and Gemini
\* answers again at some point: lost results are finitely many (MaxFaults).
Fairness ==
    /\ WF_vars(BeginQuestion)
    /\ WF_vars(SubmitResolves \/ SubmitRetries)
    /\ WF_vars(NextQuestion)

FairSpec == Spec /\ Fairness

-----------------------------------------------------------------------------
(* Properties                                                              *)

\* Every variable has its type; the row ids are those of graded answers.
TypeOK ==
    /\ attempts \subseteq Rows
    /\ orphans \subseteq Rows
    /\ answers \in Nat
    /\ questionNumber \in 1..(NumQuestions + 1)
    /\ slot \in SlotStates \cup {NoSlot}
    /\ isTestOut \in BOOLEAN
    /\ status \in Statuses
    /\ result \in Results \cup {NoResult}
    /\ faults \in Nat

FailedAt(q, a) ==
    \E r \in attempts : r.question = q /\ r.attempt = a /\ ~r.passed

PassedAt(q) == \E r \in attempts : r.question = q /\ r.passed

\* Attempt k of a slot is asked only after recorded failures of attempts
\* 1 to k-1 of that slot, whatever results were lost on the way: an answer
\* is never counted as a retry of a question nobody failed.
EarlierAttemptsFailed ==
    /\ \A r \in attempts \cup orphans :
          \A a \in 1..(r.attempt - 1) : FailedAt(r.question, a)
    /\ slot # NoSlot =>
          \A a \in 1..(slot.attempt - 1) : FailedAt(questionNumber, a)

\* The credits a topic is completed with are earned by the log: full credit
\* for a slot with a passed answer, half credit for a slot whose every
\* attempt from the first to the last has a failed answer, nothing else; a
\* "full pass" of a test-out has a passed answer in every slot.
CompletionSound ==
    result # NoResult =>
        /\ \A q \in Slots :
              \/ result.credits[q] = Full /\ PassedAt(q)
              \/ result.credits[q] = Half /\ \A a \in AttemptNumbers : FailedAt(q, a)
        /\ result.fullPass => \A q \in Slots : PassedAt(q)

\* Two attempts of one slot never ask the same question, also across answers
\* whose result was lost and answers committed late: a retry is a fresh
\* question.  (The same attempt can be answered twice: see RetryCap.)
FreshRetry ==
    \A r, s \in attempts \cup orphans :
        r.question = s.question /\ r.attempt # s.attempt => r.text # s.text

\* "Strict pass/fail, with a retry cap of exactly 3 attempts" (README.md:33):
\* no slot is answered more often than the cap allows.
RetryCap ==
    \A q \in Slots :
        Cardinality({r \in attempts : r.question = q}) <= MaxAttempts

\* What lost results leave of RetryCap: a slot is answered past its cap only
\* as often as results were lost, the answers still on their way to the log
\* included, so each lost result costs at most one answer too many.
CapUpToFaults ==
    \A q \in Slots :
        Cardinality({r \in attempts \cup orphans : r.question = q})
            <= MaxAttempts + faults

\* The slots the learner has seen resolved.
ResolvedSlots ==
    questionNumber - 1 + (IF slot # NoSlot /\ slot.resolved THEN 1 ELSE 0)

Promise == INSTANCE Quiz WITH resolved <- ResolvedSlots

\* The quiz keeps the promise of Quiz.tla: slots resolve one at a time, in
\* order and for good, and the topic is completed after the last, once.
QuizPromise == Promise!Spec

\* A learner who keeps answering gets past the last slot, however many of
\* the finitely many lost results hit them.
QuizEnds == <>(questionNumber > NumQuestions)
=============================================================================
