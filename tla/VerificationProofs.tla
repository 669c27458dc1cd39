------------------------- MODULE VerificationProofs -------------------------
(***************************************************************************)
(* Proofs about Verification.tla for every number of slots, every cap,     *)
(* every set of texts and every number of lost results.                    *)
(***************************************************************************)
EXTENDS Verification, FiniteSetTheorems, TLAPS

-----------------------------------------------------------------------------
(* Type correctness                                                        *)

\* A row built for the question on screen is a row of the log's type.
LEMMA RowType ==
    ASSUME TypeOK, slot # NoSlot, questionNumber \in Slots, NEW passed \in BOOLEAN
    PROVE  Row(passed) \in Rows
<1>1. slot \in SlotStates
    BY DEF TypeOK
<1>2. Credit(passed, slot.attempt) \in {NotYet, Half, Full}
    BY DEF Credit
<1>3. QED
    BY <1>1, <1>2 DEF TypeOK, Row, Rows, SlotStates

\* The credits read back at completion are one credit per slot.
LEMMA FinalCreditsType ==
    ASSUME TypeOK, NEW credits \in FinalCredits
    PROVE  credits \in [Slots -> {NotYet, Half, Full}]
BY DEF TypeOK, FinalCredits, Rows

\* Slots are answered only while the counter is within the slots.
SlotInv == slot # NoSlot => questionNumber \in Slots

\* Every state of the quiz is well typed (main._render_verification and the
\* two operations it drives never leave their own data shapes).
THEOREM TypeCorrect == Spec => [](TypeOK /\ SlotInv)
<1>1. Init => TypeOK /\ SlotInv
    BY VerificationAssumption DEF VerificationAssumption, Slots, Init, TypeOK, SlotInv, Statuses
<1>2. TypeOK /\ SlotInv /\ [Next]_vars => (TypeOK /\ SlotInv)'
    <2> SUFFICES ASSUME TypeOK, SlotInv, [Next]_vars
                 PROVE  (TypeOK /\ SlotInv)'
        OBVIOUS
    <2> USE VerificationAssumption DEF VerificationAssumption
    <2>1. CASE BeginQuestion
        BY <2>1 DEF BeginQuestion, TypeOK, SlotInv, SlotStates, AttemptNumbers, Slots,
                    PastLastSlot, log, topic, NotYet
    <2>2. CASE SubmitResolves
        <3> PICK passed \in BOOLEAN :
                /\ Graded
                /\ passed \/ AtCap(slot.attempt)
                /\ attempts' = attempts \cup {Row(passed)}
                /\ slot' = [slot EXCEPT !.resolved = TRUE,
                                        !.credit = Credit(passed, slot.attempt)]
                /\ UNCHANGED <<orphans, questionNumber, topic, faults>>
            BY <2>2 DEF SubmitResolves
        <3>1. Row(passed) \in Rows
            BY RowType DEF Graded, SlotInv
        <3>2. slot' \in SlotStates
            BY DEF Graded, TypeOK, SlotStates, Credit
        <3>3. QED
            BY <3>1, <3>2 DEF Graded, TypeOK, SlotInv, topic
    <2>3. CASE SubmitRetries
        <3>1. PICK row \in Rows : attempts' = attempts \cup {row}
            BY <2>3, RowType, Zenon DEF SubmitRetries, Graded, SlotInv
        <3>2. PICK t \in Texts :
                  slot' = [slot EXCEPT !.attempt = @ + 1, !.text = t,
                                       !.previous = @ \cup {t}]
            BY <2>3 DEF SubmitRetries, FreshTexts
        <3>3. /\ slot \in SlotStates
              /\ slot.attempt < MaxAttempts
              /\ answers' = answers + 1
              /\ UNCHANGED <<orphans, questionNumber, topic, faults>>
            BY <2>3 DEF SubmitRetries, Graded, TypeOK, SlotStates, AttemptNumbers, AtCap
        <3>4. slot' \in SlotStates
            <4>1. slot.attempt + 1 \in AttemptNumbers
                BY <3>3 DEF SlotStates, AttemptNumbers
            <4>2. slot.previous \cup {t} \in SUBSET Texts
                BY <3>3 DEF SlotStates
            <4>3. QED
                BY <3>2, <3>3, <4>1, <4>2 DEF SlotStates
        <3>5. questionNumber \in Slots
            BY <2>3 DEF SubmitRetries, Graded, SlotInv
        <3>6. QED
            BY <3>1, <3>3, <3>4, <3>5 DEF TypeOK, SlotInv, topic
    <2>4. CASE SubmitLosesRetry
        <3>1. PICK row \in Rows : attempts' = attempts \cup {row}
            BY <2>4, RowType, Zenon DEF SubmitLosesRetry, Graded, SlotInv
        <3>2. /\ answers' = answers + 1
              /\ faults' = faults + 1
              /\ UNCHANGED <<orphans, slot, questionNumber, topic>>
            BY <2>4, Zenon DEF SubmitLosesRetry, Graded
        <3>3. QED
            BY <3>1, <3>2 DEF TypeOK, SlotInv, topic
    <2>5. CASE SubmitInterrupted
        <3>1. \A passed \in BOOLEAN : Row(passed) \in Rows
            BY <2>5, RowType DEF SubmitInterrupted, Graded, SlotInv
        <3>2. QED
            BY <2>5, <3>1 DEF SubmitInterrupted, Graded, TypeOK, SlotInv, topic
    <2>6. CASE OrphanCommits
        BY <2>6 DEF OrphanCommits, TypeOK, SlotInv, quiz, topic
    <2>7. CASE NextQuestion
        BY <2>7 DEF NextQuestion, TypeOK, SlotInv, Slots, log, topic
    <2>8. CASE CompleteTopic
        <3>1. result' \in Results
            BY <2>8, FinalCreditsType DEF CompleteTopic, Results, TypeOK, FullPass
        <3>2. QED
            BY <2>8, <3>1 DEF CompleteTopic, TypeOK, SlotInv, Statuses, log, quiz
    <2>9. CASE CompleteInterrupted
        BY <2>9 DEF CompleteInterrupted, TypeOK, SlotInv, Statuses, log, quiz
    <2>10. CASE UNCHANGED vars
        BY <2>10 DEF vars, TypeOK, SlotInv
    <2>11. QED
        BY <2>1, <2>2, <2>3, <2>4, <2>5, <2>6, <2>7, <2>8, <2>9, <2>10 DEF Next
<1>3. QED
    BY <1>1, <1>2, PTL DEF Spec

-----------------------------------------------------------------------------
(* The inductive invariant.  EarlierAttemptsFailed, FreshRetry and         *)
(* CompletionSound are not inductive alone: they need how the rows of the  *)
(* slot on screen relate to the session's slot state.                      *)

Answers == attempts \cup orphans

\* The rows written so far belong to slots already on screen, and those of
\* the current slot carry its text exactly when they carry its attempt number.
OnScreen ==
    /\ slot # NoSlot => slot.text \in slot.previous
    /\ \A r \in Answers :
          /\ r.question <= questionNumber
          /\ r.question = questionNumber =>
                /\ slot # NoSlot
                /\ r.attempt <= slot.attempt
                /\ r.text \in slot.previous
                /\ r.attempt = slot.attempt <=> r.text = slot.text

CreditsInRows == \A r \in Answers : r.credit = Credit(r.passed, r.attempt)

Types == TypeOK /\ SlotInv

RowInv == OnScreen /\ CreditsInRows /\ EarlierAttemptsFailed /\ FreshRetry

IInv == Types /\ RowInv /\ CompletionSound

\* What is known of a row that answers the question on screen.
AnswerOnScreen(row, passed) ==
    /\ row \in Rows
    /\ row.question = questionNumber
    /\ row.attempt = slot.attempt
    /\ row.text = slot.text
    /\ row.passed = passed
    /\ row.credit = Credit(passed, slot.attempt)

LEMMA RowAnswers ==
    ASSUME Types, slot # NoSlot, NEW passed \in BOOLEAN
    PROVE  AnswerOnScreen(Row(passed), passed)
<1>1. Row(passed) \in Rows
    BY RowType DEF Types, SlotInv
<1>2. QED
    BY <1>1 DEF Row, AnswerOnScreen

\* A failed answer once in the log stays there.
LEMMA FailedStays ==
    ASSUME attempts \subseteq attempts', NEW q, NEW a, FailedAt(q, a)
    PROVE  FailedAt(q, a)'
BY DEF FailedAt

LEMMA PassedStays ==
    ASSUME attempts \subseteq attempts', NEW q, PassedAt(q)
    PROVE  PassedAt(q)'
BY DEF PassedAt

\* Recording one more answer to the question on screen, in the log or among
\* the orphans, keeps what is known of the rows while the slot is unchanged
\* in attempt, text and previous texts.
LEMMA RecordingKeepsRows ==
    ASSUME Types, RowInv, slot # NoSlot,
           NEW passed \in BOOLEAN, NEW row, AnswerOnScreen(row, passed),
           Answers' = Answers \cup {row}, attempts \subseteq attempts',
           questionNumber' = questionNumber, slot' # NoSlot,
           slot'.attempt = slot.attempt, slot'.text = slot.text,
           slot'.previous = slot.previous
    PROVE  RowInv'
<1>1. OnScreen'
    <2>1. row.question <= questionNumber
        BY DEF AnswerOnScreen, Types, TypeOK
    <2>2. row.attempt <= slot.attempt /\ row.text \in slot.previous
        BY DEF AnswerOnScreen, Types, TypeOK, SlotStates, AttemptNumbers, RowInv, OnScreen
    <2>3. QED
        BY <2>1, <2>2 DEF RowInv, OnScreen, AnswerOnScreen
<1>2. CreditsInRows'
    BY DEF RowInv, CreditsInRows, AnswerOnScreen, Credit, AtCap
<1>3. EarlierAttemptsFailed'
    <2>1. \A r \in Answers : \A a \in 1..(r.attempt - 1) : FailedAt(r.question, a)'
        BY FailedStays DEF RowInv, EarlierAttemptsFailed, Answers
    <2>2. \A a \in 1..(slot.attempt - 1) : FailedAt(questionNumber, a)'
        BY FailedStays DEF RowInv, EarlierAttemptsFailed
    <2>3. \A r \in Answers' : \A a \in 1..(r.attempt - 1) : FailedAt(r.question, a)'
        BY <2>1, <2>2 DEF AnswerOnScreen
    <2>4. QED
        BY <2>2, <2>3 DEF EarlierAttemptsFailed, Answers, FailedAt
<1>4. FreshRetry'
    <2>1. \A r \in Answers : r.question = row.question /\ r.attempt # row.attempt
                                => r.text # row.text
        BY DEF RowInv, OnScreen, AnswerOnScreen
    <2>2. \A r, s \in Answers' : r.question = s.question /\ r.attempt # s.attempt
                                => r.text # s.text
        BY <2>1 DEF RowInv, FreshRetry, Answers
    <2>3. QED
        BY <2>2 DEF FreshRetry, Answers
<1>5. QED
    BY <1>1, <1>2, <1>3, <1>4 DEF RowInv

\* Credits that completion reads back are earned by the log.
LEMMA FinalCreditsEarned ==
    ASSUME Types, RowInv, NEW credits \in FinalCredits, NEW q \in Slots
    PROVE  \/ credits[q] = Full /\ PassedAt(q)
           \/ credits[q] = Half /\ \A a \in AttemptNumbers : FailedAt(q, a)
<1>1. PICK r \in attempts : /\ r.question = q
                            /\ ~Unresolved(r)
                            /\ credits[q] = r.credit
    BY DEF FinalCredits, LastRows
<1>2. r \in Rows /\ r.credit = Credit(r.passed, r.attempt)
    BY DEF Types, TypeOK, RowInv, CreditsInRows, Answers
<1>3. CASE r.passed
    BY <1>1, <1>2, <1>3 DEF Credit, PassedAt
<1>4. CASE ~r.passed
    <2>1. r.attempt = MaxAttempts
        BY <1>1, <1>2, <1>4, VerificationAssumption
           DEF VerificationAssumption, Unresolved, AtCap, Rows, AttemptNumbers
    <2>2. credits[q] = Half
        BY <1>1, <1>2, <1>4, <2>1, VerificationAssumption
           DEF VerificationAssumption, Credit, AtCap
    <2>3. \A a \in 1..(MaxAttempts - 1) : FailedAt(q, a)
        BY <1>1, <2>1 DEF RowInv, EarlierAttemptsFailed
    <2>4. FailedAt(q, MaxAttempts)
        BY <1>1, <1>4, <2>1 DEF FailedAt
    <2>5. \A a \in AttemptNumbers : FailedAt(q, a)
        BY <2>3, <2>4, VerificationAssumption DEF VerificationAssumption, AttemptNumbers
    <2>6. QED
        BY <2>2, <2>5
<1>5. QED
    BY <1>3, <1>4

LEMMA FullPassEarned ==
    ASSUME Types, RowInv, NEW credits \in FinalCredits, FullPass(credits)
    PROVE  \A q \in Slots : PassedAt(q)
BY FinalCreditsEarned DEF FullPass, Full, Half

\* A result once stored stays sound while the log only grows.
LEMMA CompletionStaysSound ==
    ASSUME CompletionSound, attempts \subseteq attempts', UNCHANGED result
    PROVE  CompletionSound'
<1>1. \A q, a : FailedAt(q, a) => FailedAt(q, a)'
    BY FailedStays
<1>2. \A q : PassedAt(q) => PassedAt(q)'
    BY PassedStays
<1>3. QED
    BY <1>1, <1>2 DEF CompletionSound

\* Steps that touch neither the rows nor the slot keep what is known of them.
LEMMA RowsUntouched ==
    ASSUME RowInv, UNCHANGED <<Answers, attempts, slot, questionNumber>>
    PROVE  RowInv'
<1>1. OnScreen' /\ CreditsInRows'
    BY DEF RowInv, OnScreen, CreditsInRows
<1>2. EarlierAttemptsFailed'
    BY DEF RowInv, EarlierAttemptsFailed, Answers, FailedAt
<1>3. FreshRetry'
    BY DEF RowInv, FreshRetry, Answers
<1>4. QED
    BY <1>1, <1>2, <1>3 DEF RowInv

-----------------------------------------------------------------------------
(* Each action keeps the invariant                                         *)

LEMMA BeginKeepsRows ==
    ASSUME Types, RowInv, BeginQuestion
    PROVE  RowInv'
<1>1. PICK t \in Texts :
          slot' = [attempt |-> 1, text |-> t, previous |-> {t},
                   resolved |-> FALSE, credit |-> NotYet]
    BY DEF BeginQuestion
<1>2. /\ slot = NoSlot
      /\ UNCHANGED <<attempts, orphans, questionNumber>>
    BY DEF BeginQuestion, log
<1>3. slot'.attempt = 1 /\ slot'.text \in slot'.previous
    BY <1>1
<1>4. \A r \in Answers : r.question <= questionNumber /\ r.question # questionNumber
    BY <1>2 DEF RowInv, OnScreen
<1>5. OnScreen'
    BY <1>2, <1>3, <1>4 DEF OnScreen, Answers
<1>6. CreditsInRows' /\ FreshRetry'
    BY <1>2 DEF RowInv, CreditsInRows, FreshRetry, Answers
<1>7. EarlierAttemptsFailed'
    BY <1>2, <1>3 DEF RowInv, EarlierAttemptsFailed, FailedAt
<1>8. QED
    BY <1>5, <1>6, <1>7 DEF RowInv

LEMMA RetryKeepsRows ==
    ASSUME Types, RowInv, SubmitRetries
    PROVE  RowInv'
<1>1. /\ slot # NoSlot
      /\ slot \in SlotStates
      /\ UNCHANGED <<orphans, questionNumber>>
    BY DEF SubmitRetries, Graded, Types, TypeOK
<1>2. PICK row : AnswerOnScreen(row, FALSE) /\ attempts' = attempts \cup {row}
    BY RowAnswers, Zenon DEF SubmitRetries, Graded
<1>3. PICK t \in Texts :
          /\ t \notin slot.previous
          /\ slot' = [slot EXCEPT !.attempt = @ + 1, !.text = t,
                                  !.previous = @ \cup {t}]
    BY DEF SubmitRetries, FreshTexts
<1>4. /\ slot'.attempt = slot.attempt + 1
      /\ slot'.text = t
      /\ slot'.previous = slot.previous \cup {t}
    BY <1>1, <1>3 DEF SlotStates
<1>5. slot' # NoSlot
    <2>1. ~AtCap(slot.attempt)
        BY DEF SubmitRetries
    <2>2. slot.attempt + 1 \in AttemptNumbers
        BY <1>1, <2>1, VerificationAssumption
           DEF AtCap, SlotStates, AttemptNumbers, VerificationAssumption
    <2>3. slot' \in SlotStates
        <3>1. slot.previous \cup {t} \in SUBSET Texts
            BY <1>1 DEF SlotStates
        <3>2. QED
            BY <1>1, <1>3, <2>2, <3>1 DEF SlotStates
    <2>4. QED
        BY <2>3, VerificationAssumption DEF VerificationAssumption
<1>6. Answers' = Answers \cup {row}
    BY <1>1, <1>2 DEF Answers
<1>7. \A r \in Answers' : r.attempt \in Nat /\ r.question \in Nat
    BY <1>2, <1>6 DEF AnswerOnScreen, Answers, Types, TypeOK, Rows, AttemptNumbers, Slots
<1>8. OnScreen'
    <2>1. \A r \in Answers' :
              r.question <= questionNumber /\
              (r.question = questionNumber =>
                  r.attempt <= slot.attempt /\ r.text \in slot.previous)
        BY <1>1, <1>2, <1>6 DEF RowInv, OnScreen, AnswerOnScreen, SlotStates,
              AttemptNumbers, Types, TypeOK
    <2>2. \A r \in Answers' : r.question = questionNumber =>
              r.attempt < slot'.attempt /\ r.text \in slot'.previous /\ r.text # t
        BY <1>1, <1>3, <1>4, <1>7, <2>1 DEF SlotStates, AttemptNumbers
    <2>3. t \in slot'.previous
        BY <1>4
    <2>4. QED
        BY <1>1, <1>4, <1>5, <1>7, <2>1, <2>2, <2>3 DEF OnScreen, SlotStates, AttemptNumbers
<1>9. CreditsInRows'
    BY <1>2, <1>6 DEF RowInv, CreditsInRows, AnswerOnScreen, Credit, AtCap
<1>10. EarlierAttemptsFailed'
    <2>1. \A q, a : FailedAt(q, a) => FailedAt(q, a)'
        BY <1>2, FailedStays
    <2>2. \A r \in Answers' : \A a \in 1..(r.attempt - 1) : FailedAt(r.question, a)'
        BY <1>1, <1>2, <1>6, <2>1
           DEF RowInv, EarlierAttemptsFailed, AnswerOnScreen, Answers
    <2>3. \A a \in 1..(slot.attempt - 1) : FailedAt(questionNumber, a)'
        BY <1>1, <2>1 DEF RowInv, EarlierAttemptsFailed
    <2>4. \A a : a = slot.attempt => FailedAt(questionNumber, a)'
        BY <1>1, <1>2 DEF FailedAt, AnswerOnScreen
    <2>5. \A a \in 1..(slot'.attempt - 1) : FailedAt(questionNumber, a)'
        BY <1>1, <1>4, <2>3, <2>4 DEF SlotStates, AttemptNumbers
    <2>6. QED
        BY <1>1, <2>2, <2>5 DEF EarlierAttemptsFailed, Answers, FailedAt
<1>11. FreshRetry'
    <2>1. \A r \in Answers : r.question = row.question /\ r.attempt # row.attempt
                                => r.text # row.text
        BY <1>2 DEF RowInv, OnScreen, AnswerOnScreen
    <2>2. QED
        BY <1>6, <2>1 DEF RowInv, FreshRetry, Answers
<1>12. QED
    BY <1>8, <1>9, <1>10, <1>11 DEF RowInv

LEMMA NextKeepsRows ==
    ASSUME Types, RowInv, NextQuestion
    PROVE  RowInv'
<1>1. /\ UNCHANGED <<attempts, orphans>>
      /\ questionNumber' = questionNumber + 1
      /\ slot' = NoSlot
    BY DEF NextQuestion, log
<1>2. \A r \in Answers : r.question <= questionNumber /\ r.question \in Nat
    BY DEF RowInv, OnScreen, Types, TypeOK, Rows, Slots, Answers
<1>3. questionNumber \in Nat
    BY DEF Types, TypeOK
<1>4. OnScreen'
    BY <1>1, <1>2, <1>3 DEF OnScreen, Answers
<1>5. CreditsInRows' /\ FreshRetry' /\ EarlierAttemptsFailed'
    BY <1>1 DEF RowInv, CreditsInRows, FreshRetry, EarlierAttemptsFailed, Answers, FailedAt
<1>6. QED
    BY <1>4, <1>5 DEF RowInv

LEMMA OrphanKeepsRows ==
    ASSUME Types, RowInv, OrphanCommits
    PROVE  RowInv'
<1>1. /\ Answers' = Answers
      /\ attempts \subseteq attempts'
      /\ UNCHANGED <<slot, questionNumber>>
    BY DEF OrphanCommits, Answers, quiz
<1>2. OnScreen' /\ CreditsInRows'
    BY <1>1 DEF RowInv, OnScreen, CreditsInRows
<1>3. FreshRetry'
    BY <1>1 DEF RowInv, FreshRetry, Answers
<1>4. EarlierAttemptsFailed'
    <2>1. \A q, a : FailedAt(q, a) => FailedAt(q, a)'
        BY <1>1, FailedStays
    <2>2. \A r \in Answers' : \A a \in 1..(r.attempt - 1) : FailedAt(r.question, a)'
        BY <1>1, <2>1 DEF RowInv, EarlierAttemptsFailed, Answers
    <2>3. slot # NoSlot =>
              \A a \in 1..(slot.attempt - 1) : FailedAt(questionNumber, a)'
        BY <1>1, <2>1 DEF RowInv, EarlierAttemptsFailed
    <2>4. QED
        BY <1>1, <2>2, <2>3 DEF EarlierAttemptsFailed, Answers, FailedAt
<1>5. QED
    BY <1>2, <1>3, <1>4 DEF RowInv

LEMMA InitInvariant == Init => RowInv /\ CompletionSound
BY DEF Init, RowInv, OnScreen, CreditsInRows, EarlierAttemptsFailed, FreshRetry,
       CompletionSound, Answers

LEMMA StepInvariant == Types /\ Types' /\ RowInv /\ CompletionSound /\ [Next]_vars
                          => (RowInv /\ CompletionSound)'
<1> SUFFICES ASSUME Types, Types', RowInv, CompletionSound, [Next]_vars
             PROVE  RowInv' /\ CompletionSound'
    OBVIOUS
<1>1. CASE BeginQuestion
    <2>1. UNCHANGED <<attempts, result>>
        BY <1>1 DEF BeginQuestion, log, topic
    <2>2. QED
        BY <1>1, <2>1, BeginKeepsRows, CompletionStaysSound
<1>2. CASE SubmitResolves
    <2>1. PICK passed \in BOOLEAN :
              /\ Graded
              /\ attempts' = attempts \cup {Row(passed)}
              /\ slot' = [slot EXCEPT !.resolved = TRUE,
                                      !.credit = Credit(passed, slot.attempt)]
              /\ UNCHANGED <<orphans, questionNumber, topic>>
        BY <1>2 DEF SubmitResolves
    <2>2. slot # NoSlot /\ slot \in SlotStates
        BY <2>1 DEF Graded, Types, TypeOK
    <2>3. AnswerOnScreen(Row(passed), passed)
        BY <2>2, RowAnswers
    <2>4. Credit(passed, slot.attempt) \in {NotYet, Half, Full}
        BY DEF Credit
    <2>5. slot' \in SlotStates
        BY <2>1, <2>2, <2>4 DEF SlotStates
    <2>6. /\ slot' # NoSlot
          /\ slot'.attempt = slot.attempt
          /\ slot'.text = slot.text
          /\ slot'.previous = slot.previous
        BY <2>1, <2>2, <2>5, VerificationAssumption
           DEF SlotStates, VerificationAssumption
    <2>7. Answers' = Answers \cup {Row(passed)} /\ attempts \subseteq attempts'
        BY <2>1 DEF Answers
    <2>8. RowInv'
        BY <2>1, <2>2, <2>3, <2>6, <2>7, RecordingKeepsRows
    <2>9. QED
        BY <2>1, <2>7, <2>8, CompletionStaysSound DEF topic
<1>3. CASE SubmitRetries
    <2>1. attempts \subseteq attempts' /\ UNCHANGED result
        BY <1>3, Zenon DEF SubmitRetries, topic
    <2>2. QED
        BY <1>3, <2>1, RetryKeepsRows, CompletionStaysSound
<1>4. CASE SubmitLosesRetry
    <2>1. PICK row : AnswerOnScreen(row, FALSE) /\ attempts' = attempts \cup {row}
        BY <1>4, RowAnswers, Zenon DEF SubmitLosesRetry, Graded
    <2>2. slot # NoSlot /\ UNCHANGED <<orphans, slot, questionNumber, result>>
        BY <1>4, Zenon DEF SubmitLosesRetry, Graded, topic
    <2>3. Answers' = Answers \cup {row} /\ attempts \subseteq attempts'
        BY <2>1, <2>2 DEF Answers
    <2>4. RowInv'
        BY <2>1, <2>2, <2>3, RecordingKeepsRows
    <2>5. QED
        BY <2>2, <2>3, <2>4, CompletionStaysSound
<1>5. CASE SubmitInterrupted
    <2>1. PICK passed \in BOOLEAN : orphans' = orphans \cup {Row(passed)}
        BY <1>5 DEF SubmitInterrupted
    <2>2. slot # NoSlot /\ UNCHANGED <<attempts, slot, questionNumber, result>>
        BY <1>5 DEF SubmitInterrupted, Graded, topic
    <2>3. AnswerOnScreen(Row(passed), passed)
        BY <2>2, RowAnswers
    <2>4. Answers' = Answers \cup {Row(passed)} /\ attempts \subseteq attempts'
        BY <2>1, <2>2 DEF Answers
    <2>5. RowInv'
        BY <2>2, <2>3, <2>4, RecordingKeepsRows
    <2>6. QED
        BY <2>2, <2>4, <2>5, CompletionStaysSound
<1>6. CASE OrphanCommits
    <2>1. attempts \subseteq attempts' /\ UNCHANGED result
        BY <1>6 DEF OrphanCommits, topic
    <2>2. QED
        BY <1>6, <2>1, OrphanKeepsRows, CompletionStaysSound
<1>7. CASE NextQuestion
    <2>1. UNCHANGED <<attempts, result>>
        BY <1>7 DEF NextQuestion, log, topic
    <2>2. QED
        BY <1>7, <2>1, NextKeepsRows, CompletionStaysSound
<1>8. CASE CompleteTopic
    <2>1. UNCHANGED <<attempts, Answers, slot, questionNumber>>
        BY <1>8 DEF CompleteTopic, log, quiz, Answers
    <2>2. PICK credits, first \in FinalCredits :
              result' = [credits |-> credits, fullPass |-> isTestOut /\ FullPass(first)]
        BY <1>8 DEF CompleteTopic
    <2>3. result'.credits = credits /\ (result'.fullPass => FullPass(first))
        BY <2>2
    <2>4. \A q \in Slots :
              \/ credits[q] = Full /\ PassedAt(q)
              \/ credits[q] = Half /\ \A a \in AttemptNumbers : FailedAt(q, a)
        BY FinalCreditsEarned
    <2>5. FullPass(first) => \A q \in Slots : PassedAt(q)
        BY FullPassEarned
    <2>6. (\A q : PassedAt(q) => PassedAt(q)') /\ (\A q, a : FailedAt(q, a) => FailedAt(q, a)')
        BY <2>1 DEF PassedAt, FailedAt
    <2>7. CompletionSound'
        BY <2>3, <2>4, <2>5, <2>6 DEF CompletionSound
    <2>8. QED
        BY <2>1, <2>7, RowsUntouched
<1>9. CASE CompleteInterrupted
    <2>1. UNCHANGED <<attempts, Answers, slot, questionNumber, result>>
        BY <1>9 DEF CompleteInterrupted, log, quiz, Answers
    <2>2. QED
        BY <2>1, RowsUntouched, CompletionStaysSound
<1>10. CASE UNCHANGED vars
    <2>1. UNCHANGED <<attempts, Answers, slot, questionNumber, result>>
        BY <1>10 DEF vars, Answers
    <2>2. QED
        BY <2>1, RowsUntouched, CompletionStaysSound
<1>11. QED
    BY <1>1, <1>2, <1>3, <1>4, <1>5, <1>6, <1>7, <1>8, <1>9, <1>10 DEF Next

\* The inductive invariant holds in every state of the quiz.
THEOREM Invariant == Spec => []IInv
<1>1. Spec => []Types
    BY TypeCorrect DEF Types
<1>2. Init => RowInv /\ CompletionSound
    BY InitInvariant
<1>3. Types /\ Types' /\ RowInv /\ CompletionSound /\ [Next]_vars
            => (RowInv /\ CompletionSound)'
    BY StepInvariant
<1>4. QED
    BY <1>1, <1>2, <1>3, PTL DEF Spec, IInv

\* A topic is completed only with credits its log has earned: full credit for
\* a slot with a passed answer, half for one that failed every attempt
\* (_get_latest_attempt_per_question, complete_topic_test_out).
THEOREM CompletionIsSound == Spec => []CompletionSound
<1>1. IInv => CompletionSound
    BY DEF IInv
<1>2. QED
    BY <1>1, Invariant, PTL

\* No answer counts as a retry of a question nobody failed
\* (submit_verification_answer), whatever results are lost.
THEOREM RetriesFollowFailures == Spec => []EarlierAttemptsFailed
<1>1. IInv => EarlierAttemptsFailed
    BY DEF IInv, RowInv
<1>2. QED
    BY <1>1, Invariant, PTL

\* No retry asks a question its slot has asked before (generate_questions),
\* whatever results are lost.
THEOREM RetriesAreFresh == Spec => []FreshRetry
<1>1. IInv => FreshRetry
    BY DEF IInv, RowInv
<1>2. QED
    BY <1>1, Invariant, PTL

-----------------------------------------------------------------------------
(* The retry cap, up to lost results.  CapUpToFaults alone is not          *)
(* inductive: the slot on screen must leave room for the answers to come.  *)

RowsOf(q) == {r \in Answers : r.question = q}

\* The answers that brought the slot on screen where it is, had none been lost.
Expected == IF slot.resolved THEN slot.attempt ELSE slot.attempt - 1

CapInv ==
    /\ IsFiniteSet(Answers)
    /\ \A q \in Slots : Cardinality(RowsOf(q)) <= MaxAttempts + faults
    /\ slot # NoSlot => Cardinality(RowsOf(questionNumber)) <= Expected + faults

LEMMA RowsCounted ==
    ASSUME IsFiniteSet(Answers), NEW q
    PROVE  IsFiniteSet(RowsOf(q)) /\ Cardinality(RowsOf(q)) \in Nat
<1>1. PICK S : S = Answers
    OBVIOUS
<1>2. PICK T : T = RowsOf(q)
    OBVIOUS
<1>3. T \in SUBSET S
    BY <1>1, <1>2 DEF RowsOf
<1>4. IsFiniteSet(T)
    BY <1>1, <1>3, FS_Subset
<1>5. QED
    BY <1>2, <1>4, FS_CardinalityType

\* One more row makes one more row of its question at most.
LEMMA OneMoreRow ==
    ASSUME IsFiniteSet(Answers), NEW row, Answers' = Answers \cup {row}, NEW q
    PROVE  /\ IsFiniteSet(Answers')
           /\ row.question # q => RowsOf(q)' = RowsOf(q)
           /\ Cardinality(RowsOf(q)) \in Nat /\ Cardinality(RowsOf(q)') \in Nat
           /\ Cardinality(RowsOf(q)') <= Cardinality(RowsOf(q)) + 1
<1>1. PICK S : S = RowsOf(q)
    OBVIOUS
<1>2. IsFiniteSet(S) /\ Cardinality(S) \in Nat
    BY <1>1, RowsCounted
<1>3. IsFiniteSet(Answers')
    BY FS_AddElement
<1>4. row.question # q => RowsOf(q)' = S
    BY <1>1 DEF RowsOf
<1>5. row.question = q => RowsOf(q)' = S \cup {row}
    BY <1>1 DEF RowsOf
<1>6. PICK T : T = RowsOf(q)'
    OBVIOUS
<1>7. T = S \/ T = S \cup {row}
    BY <1>4, <1>5, <1>6
<1>8. Cardinality(S \cup {row}) = IF row \in S THEN Cardinality(S) ELSE Cardinality(S) + 1
    BY <1>2, FS_AddElement
<1>9. Cardinality(T) \in Nat /\ Cardinality(T) <= Cardinality(S) + 1
    <2>1. CASE T = S
        BY <1>2, <2>1
    <2>2. CASE T = S \cup {row}
        BY <1>2, <1>8, <2>2
    <2>3. QED
        BY <1>7, <2>1, <2>2
<1>10. QED
    BY <1>1, <1>2, <1>3, <1>4, <1>6, <1>9

\* An answer to the question on screen keeps the counts when the slot, or
\* the number of lost results, moves one further with it.
LEMMA AnswerKeepsCap ==
    ASSUME Types, Types', CapInv, slot # NoSlot, questionNumber' = questionNumber,
           NEW row, row.question = questionNumber, Answers' = Answers \cup {row},
           slot' # NoSlot, Expected' + faults' = Expected + faults + 1,
           Expected' <= MaxAttempts, faults <= faults'
    PROVE  CapInv'
<1>1. /\ faults \in Nat /\ faults' \in Nat
      /\ MaxAttempts \in Nat
      /\ Expected \in Int /\ Expected' \in Int
    BY VerificationAssumption
       DEF VerificationAssumption, Types, TypeOK, SlotStates, AttemptNumbers, Expected
<1>2. IsFiniteSet(Answers')
    BY OneMoreRow DEF CapInv
<1>3. ASSUME NEW q
      PROVE  /\ row.question # q => RowsOf(q)' = RowsOf(q)
             /\ Cardinality(RowsOf(q)) \in Nat /\ Cardinality(RowsOf(q)') \in Nat
             /\ Cardinality(RowsOf(q)') <= Cardinality(RowsOf(q)) + 1
    BY OneMoreRow DEF CapInv
<1>4. PICK n : n = questionNumber
    OBVIOUS
<1>5. Cardinality(RowsOf(n)) <= Expected + faults
    BY <1>4 DEF CapInv
<1>6. Cardinality(RowsOf(n)') <= Expected' + faults'
    <2>1. Cardinality(RowsOf(n)') <= Cardinality(RowsOf(n)) + 1
          /\ Cardinality(RowsOf(n)) \in Nat /\ Cardinality(RowsOf(n)') \in Nat
        BY <1>3
    <2>2. PICK i, j : i = Cardinality(RowsOf(n)) /\ j = Cardinality(RowsOf(n)')
        OBVIOUS
    <2>3. PICK a, b : a = Expected + faults /\ b = Expected' + faults'
        OBVIOUS
    <2>4. i \in Nat /\ j \in Nat /\ j <= i + 1
        BY <2>1, <2>2
    <2>5. i <= a
        BY <1>5, <2>2, <2>3
    <2>6. a \in Int /\ b = a + 1
        <3>1. PICK c, d : c = Expected /\ d = faults
            OBVIOUS
        <3>2. c \in Int /\ d \in Nat /\ a = c + d
            BY <1>1, <2>3, <3>1
        <3>3. b = c + d + 1
            BY <2>3, <3>1
        <3>4. QED
            BY <3>2, <3>3
    <2>7. j <= b
        BY <2>4, <2>5, <2>6
    <2>8. QED
        BY <2>2, <2>3, <2>7
<1>7. ASSUME NEW q \in Slots
      PROVE  Cardinality(RowsOf(q)') <= MaxAttempts + faults'
    <2>1. CASE q = n
        BY <1>1, <1>3, <1>6, <2>1
    <2>2. CASE q # n
        <3>1. Cardinality(RowsOf(q)') = Cardinality(RowsOf(q))
            BY <1>3, <1>4, <2>2
        <3>2. Cardinality(RowsOf(q)) <= MaxAttempts + faults
            BY DEF CapInv
        <3>3. QED
            BY <1>1, <1>3, <3>1, <3>2
    <2>3. QED
        BY <2>1, <2>2
<1>8. n = questionNumber'
    BY <1>4
<1>9. QED
    BY <1>2, <1>6, <1>7, <1>8 DEF CapInv

\* Steps that write no row, reset or leave the slot: nothing is counted anew.
LEMMA CapUntouched ==
    ASSUME CapInv, UNCHANGED <<Answers, slot, questionNumber>>, faults \in Nat,
           faults' \in Nat, faults <= faults', slot \in SlotStates \cup {NoSlot}
    PROVE  CapInv'
<1>1. PICK S : S = Answers
    OBVIOUS
<1>2. \A q : RowsOf(q)' = RowsOf(q)
    BY DEF RowsOf
<1>3. \A q : Cardinality(RowsOf(q)) \in Nat
    BY RowsCounted DEF CapInv
<1>4. \A q \in Slots : Cardinality(RowsOf(q)') <= MaxAttempts + faults'
    BY <1>2, <1>3, VerificationAssumption DEF CapInv, VerificationAssumption
<1>5. slot # NoSlot => Cardinality(RowsOf(questionNumber)') <= Expected' + faults'
    <2>1. slot # NoSlot => Expected \in Int
        BY DEF Expected, SlotStates, AttemptNumbers
    <2>2. Expected' = Expected
        BY DEF Expected
    <2>3. PICK n : n = questionNumber
        OBVIOUS
    <2>4. slot # NoSlot => Cardinality(RowsOf(n)') <= Expected' + faults'
        BY <1>2, <1>3, <2>1, <2>2, <2>3 DEF CapInv
    <2>5. QED
        BY <2>3, <2>4
<1>6. QED
    BY <1>4, <1>5 DEF CapInv, RowsOf

LEMMA InitCap == Init => CapInv
<1> SUFFICES ASSUME Init PROVE CapInv
    OBVIOUS
<1>1. Answers = {}
    BY DEF Init, Answers
<1>2. \A q : RowsOf(q) = {}
    BY <1>1 DEF RowsOf
<1>3. IsFiniteSet({}) /\ Cardinality({}) = 0
    BY FS_EmptySet
<1>4. slot = NoSlot /\ MaxAttempts \in Nat /\ faults = 0
    BY VerificationAssumption DEF Init, VerificationAssumption
<1>5. QED
    BY <1>1, <1>2, <1>3, <1>4 DEF CapInv

LEMMA StepCap == IInv /\ IInv' /\ CapInv /\ [Next]_vars => CapInv'
<1> SUFFICES ASSUME IInv, IInv', CapInv, [Next]_vars PROVE CapInv'
    OBVIOUS
<1>0. /\ faults \in Nat /\ faults' \in Nat
      /\ slot \in SlotStates \cup {NoSlot} /\ slot' \in SlotStates \cup {NoSlot}
      /\ Types /\ Types'
      /\ MaxAttempts \in Nat \ {0} /\ NoSlot \notin SlotStates
    BY VerificationAssumption DEF IInv, Types, TypeOK, VerificationAssumption
<1>1. CASE BeginQuestion
    <2>1. /\ slot = NoSlot
          /\ UNCHANGED <<Answers, questionNumber, faults>>
          /\ slot'.attempt = 1 /\ ~slot'.resolved
        BY <1>1 DEF BeginQuestion, log, Answers
    <2>2. PICK n : n = questionNumber
        OBVIOUS
    <2>3. RowsOf(n) = {}
        BY <2>1, <2>2 DEF IInv, RowInv, OnScreen, RowsOf
    <2>4. Cardinality({}) = 0
        BY FS_EmptySet
    <2>5. \A q : RowsOf(q)' = RowsOf(q)
        BY <2>1 DEF RowsOf
    <2>6. Cardinality(RowsOf(n)') <= Expected' + faults'
        BY <1>0, <2>1, <2>3, <2>4, <2>5 DEF Expected
    <2>7. n = questionNumber'
        BY <2>1, <2>2
    <2>8. \A q \in Slots : Cardinality(RowsOf(q)') <= MaxAttempts + faults'
        BY <2>1, <2>5 DEF CapInv
    <2>9. IsFiniteSet(Answers')
        BY <2>1 DEF CapInv
    <2>10. QED
        BY <2>6, <2>7, <2>8, <2>9 DEF CapInv
<1>2. CASE SubmitResolves
    <2>1. PICK passed \in BOOLEAN :
              /\ slot # NoSlot /\ ~slot.resolved
              /\ attempts' = attempts \cup {Row(passed)}
              /\ slot' = [slot EXCEPT !.resolved = TRUE,
                                      !.credit = Credit(passed, slot.attempt)]
              /\ UNCHANGED <<orphans, questionNumber, faults>>
        BY <1>2 DEF SubmitResolves, Graded
    <2>2. slot \in SlotStates
        BY <1>0, <2>1
    <2>3. slot'.attempt = slot.attempt /\ slot'.resolved
        BY <2>1, <2>2 DEF SlotStates
    <2>4. slot' # NoSlot
        <3>1. Credit(passed, slot.attempt) \in {NotYet, Half, Full}
            BY DEF Credit
        <3>2. slot' \in SlotStates
            BY <2>1, <2>2, <3>1 DEF SlotStates
        <3>3. QED
            BY <1>0, <3>2
    <2>5. Row(passed).question = questionNumber
        BY <2>1, <1>0, RowAnswers DEF AnswerOnScreen
    <2>6. Answers' = Answers \cup {Row(passed)}
        BY <2>1 DEF Answers
    <2>7. Expected' + faults' = Expected + faults + 1 /\ Expected' <= MaxAttempts
        BY <1>0, <2>1, <2>2, <2>3 DEF Expected, SlotStates, AttemptNumbers
    <2>8. faults <= faults' /\ questionNumber' = questionNumber
        BY <1>0, <2>1
    <2>9. QED
        BY <1>0, <2>1, <2>4, <2>5, <2>6, <2>7, <2>8, AnswerKeepsCap
<1>3. CASE SubmitRetries
    <2>1. PICK row : row.question = questionNumber /\ attempts' = attempts \cup {row}
        BY <1>0, <1>3, RowAnswers, Zenon DEF SubmitRetries, Graded, AnswerOnScreen
    <2>2. PICK t \in Texts :
              slot' = [slot EXCEPT !.attempt = @ + 1, !.text = t,
                                   !.previous = @ \cup {t}]
        BY <1>3 DEF SubmitRetries, FreshTexts
    <2>3. /\ slot # NoSlot /\ ~slot.resolved /\ ~AtCap(slot.attempt)
          /\ UNCHANGED <<orphans, questionNumber, faults>>
        BY <1>3, Zenon DEF SubmitRetries, Graded
    <2>4. slot \in SlotStates
        BY <1>0, <2>3
    <2>5. slot'.attempt = slot.attempt + 1 /\ slot'.resolved = slot.resolved
        BY <2>2, <2>4 DEF SlotStates
    <2>6. slot' # NoSlot
        <3>1. slot.attempt + 1 \in AttemptNumbers
            BY <1>0, <2>3, <2>4 DEF AtCap, SlotStates, AttemptNumbers
        <3>2. slot.previous \cup {t} \in SUBSET Texts
            BY <2>4 DEF SlotStates
        <3>3. slot' \in SlotStates
            BY <2>2, <2>4, <3>1, <3>2 DEF SlotStates
        <3>4. QED
            BY <1>0, <3>3
    <2>7. Answers' = Answers \cup {row}
        BY <2>1, <2>3 DEF Answers
    <2>8. Expected' + faults' = Expected + faults + 1 /\ Expected' <= MaxAttempts
        BY <1>0, <2>3, <2>4, <2>5 DEF Expected, SlotStates, AttemptNumbers, AtCap
    <2>9. faults <= faults' /\ questionNumber' = questionNumber
        BY <1>0, <2>3
    <2>10. QED
        BY <1>0, <2>1, <2>3, <2>6, <2>7, <2>8, <2>9, AnswerKeepsCap
<1>4. CASE SubmitLosesRetry \/ SubmitInterrupted
    <2>1. PICK row : row.question = questionNumber /\ Answers' = Answers \cup {row}
        <3>1. CASE SubmitLosesRetry
            <4>1. PICK row : row.question = questionNumber
                             /\ attempts' = attempts \cup {row}
                BY <1>0, <3>1, RowAnswers, Zenon DEF SubmitLosesRetry, Graded, AnswerOnScreen
            <4>2. UNCHANGED orphans
                BY <3>1, Zenon DEF SubmitLosesRetry
            <4>3. QED
                BY <4>1, <4>2 DEF Answers
        <3>2. CASE SubmitInterrupted
            <4>1. PICK row : row.question = questionNumber
                             /\ orphans' = orphans \cup {row}
                BY <1>0, <3>2, RowAnswers DEF SubmitInterrupted, Graded, AnswerOnScreen
            <4>2. UNCHANGED attempts
                BY <3>2 DEF SubmitInterrupted
            <4>3. QED
                BY <4>1, <4>2 DEF Answers
        <3>3. QED
            BY <1>4, <3>1, <3>2
    <2>2. /\ slot # NoSlot /\ slot' = slot /\ questionNumber' = questionNumber
          /\ faults' = faults + 1
        BY <1>4, Zenon DEF SubmitLosesRetry, SubmitInterrupted, Graded
    <2>3. Expected' + faults' = Expected + faults + 1 /\ Expected' <= MaxAttempts
        BY <1>0, <2>2 DEF Expected, SlotStates, AttemptNumbers
    <2>4. faults <= faults'
        BY <1>0, <2>2
    <2>5. QED
        BY <1>0, <2>1, <2>2, <2>3, <2>4, AnswerKeepsCap
<1>5. CASE NextQuestion
    <2>1. UNCHANGED <<Answers, faults>> /\ slot' = NoSlot
        BY <1>5 DEF NextQuestion, log, Answers
    <2>2. \A q : RowsOf(q)' = RowsOf(q)
        BY <2>1 DEF RowsOf
    <2>3. QED
        BY <2>1, <2>2 DEF CapInv
<1>6. CASE OrphanCommits
    <2>1. UNCHANGED <<Answers, slot, questionNumber, faults>>
        BY <1>6 DEF OrphanCommits, Answers, quiz
    <2>2. QED
        BY <1>0, <2>1, CapUntouched
<1>7. CASE CompleteTopic \/ CompleteInterrupted
    <2>1. UNCHANGED <<Answers, slot, questionNumber>> /\ faults' \in {faults, faults + 1}
        BY <1>7 DEF CompleteTopic, CompleteInterrupted, log, quiz, Answers
    <2>2. QED
        BY <1>0, <2>1, CapUntouched
<1>8. CASE UNCHANGED vars
    <2>1. UNCHANGED <<Answers, slot, questionNumber, faults>>
        BY <1>8 DEF vars, Answers
    <2>2. QED
        BY <1>0, <2>1, CapUntouched
<1>9. QED
    BY <1>1, <1>2, <1>3, <1>4, <1>5, <1>6, <1>7, <1>8 DEF Next

\* A slot is answered past its cap (submit_verification_answer) at most once
\* for every result that was lost, the rows still to be committed included.
THEOREM CapHoldsUpToFaults == Spec => []CapUpToFaults
<1>1. CapInv => CapUpToFaults
    BY DEF CapInv, CapUpToFaults, RowsOf, Answers
<1>2. QED
    BY <1>1, InitCap, StepCap, Invariant, PTL DEF Spec

-----------------------------------------------------------------------------
(* What the completion hands on                                            *)

\* While no result is lost there is one row per attempt, and the attempt on
\* screen has none yet.
OneRowEach ==
    faults = 0 =>
        /\ orphans = {}
        /\ \A r, s \in Answers :
              r.question = s.question /\ r.attempt = s.attempt => r = s
        /\ slot # NoSlot /\ ~slot.resolved =>
              \A r \in Answers :
                  r.question = questionNumber => r.attempt # slot.attempt

\* A full pass is a test-out with full credit in every slot.
FullPassIsFull ==
    faults = 0 /\ result # NoResult =>
        (result.fullPass <=> isTestOut /\ FullPass(result.credits))

CleanInv == OneRowEach /\ FullPassIsFull

\* One more row of the attempt on screen, which has none yet, is the only one.
LEMMA FirstRowOfAttempt ==
    ASSUME OneRowEach, faults = 0, slot # NoSlot, ~slot.resolved,
           NEW row, row.question = questionNumber, row.attempt = slot.attempt,
           Answers' = Answers \cup {row}
    PROVE  \A r, s \in Answers' :
              r.question = s.question /\ r.attempt = s.attempt => r = s
<1>1. \A r \in Answers : r.question = questionNumber => r.attempt # slot.attempt
    BY DEF OneRowEach
<1>2. \A r, s \in Answers : r.question = s.question /\ r.attempt = s.attempt => r = s
    BY DEF OneRowEach
<1>3. QED
    BY <1>1, <1>2

\* With one row per attempt completion reads the same credits every time.
LEMMA OneReading ==
    ASSUME Types, OneRowEach, faults = 0,
           NEW credits \in FinalCredits, NEW first \in FinalCredits
    PROVE  credits = first
<1>1. PICK f \in [Slots -> attempts] :
          /\ \A q \in Slots : f[q] \in LastRows(q)
          /\ credits = [q \in Slots |-> f[q].credit]
    BY DEF FinalCredits
<1>2. PICK g \in [Slots -> attempts] :
          /\ \A q \in Slots : g[q] \in LastRows(q)
          /\ first = [q \in Slots |-> g[q].credit]
    BY DEF FinalCredits
<1>3. ASSUME NEW q \in Slots
      PROVE  f[q] = g[q]
    <2>1. /\ f[q] \in attempts /\ g[q] \in attempts
          /\ f[q].question = q /\ g[q].question = q
          /\ f[q].attempt <= g[q].attempt /\ g[q].attempt <= f[q].attempt
        BY <1>1, <1>2 DEF LastRows
    <2>2. f[q].attempt \in Nat /\ g[q].attempt \in Nat
        BY <2>1 DEF Types, TypeOK, Rows, AttemptNumbers
    <2>3. f[q].attempt = g[q].attempt
        BY <2>1, <2>2
    <2>4. QED
        BY <2>1, <2>3 DEF OneRowEach, Answers
<1>4. QED
    BY <1>1, <1>2, <1>3

LEMMA CleanUntouched ==
    ASSUME CleanInv, UNCHANGED <<attempts, orphans, slot, questionNumber, isTestOut,
                                 result>>,
           faults' = 0 => faults = 0
    PROVE  CleanInv'
BY DEF CleanInv, OneRowEach, FullPassIsFull, Answers, FullPass

\* A result stored before a step that leaves it alone stays what it was.
LEMMA FullPassKept ==
    ASSUME FullPassIsFull, UNCHANGED <<isTestOut, result>>, faults' = 0 => faults = 0
    PROVE  FullPassIsFull'
BY DEF FullPassIsFull, FullPass

LEMMA StepClean == IInv /\ IInv' /\ CleanInv /\ [Next]_vars => CleanInv'
<1> SUFFICES ASSUME IInv, IInv', CleanInv, [Next]_vars PROVE CleanInv'
    OBVIOUS
<1>0. faults \in Nat /\ Types /\ Types' /\ OnScreen
      /\ slot \in SlotStates \cup {NoSlot} /\ NoSlot \notin SlotStates
      /\ MaxAttempts \in Nat \ {0}
    BY VerificationAssumption DEF IInv, Types, TypeOK, RowInv, VerificationAssumption
<1>1. CASE BeginQuestion
    <2>1. /\ slot = NoSlot
          /\ UNCHANGED <<attempts, orphans, questionNumber, isTestOut, result, faults>>
        BY <1>1 DEF BeginQuestion, log, topic
    <2>2. \A r \in Answers : r.question # questionNumber
        BY <1>0, <2>1 DEF OnScreen
    <2>3. OneRowEach'
        BY <2>1, <2>2 DEF CleanInv, OneRowEach, Answers
    <2>4. QED
        BY <2>1, <2>3, FullPassKept DEF CleanInv
<1>2. CASE SubmitResolves
    <2>1. PICK passed \in BOOLEAN :
              /\ slot # NoSlot /\ ~slot.resolved
              /\ attempts' = attempts \cup {Row(passed)}
              /\ slot' = [slot EXCEPT !.resolved = TRUE,
                                      !.credit = Credit(passed, slot.attempt)]
              /\ UNCHANGED <<orphans, questionNumber, isTestOut, result, faults>>
        BY <1>2 DEF SubmitResolves, Graded, topic
    <2>2. slot'.resolved
        BY <1>0, <2>1 DEF SlotStates
    <2>3. Row(passed).question = questionNumber /\ Row(passed).attempt = slot.attempt
        BY <1>0, <2>1, RowAnswers DEF AnswerOnScreen
    <2>4. Answers' = Answers \cup {Row(passed)}
        BY <2>1 DEF Answers
    <2>5. OneRowEach'
        BY <2>1, <2>2, <2>3, <2>4, FirstRowOfAttempt DEF CleanInv, OneRowEach
    <2>6. QED
        BY <2>1, <2>5, FullPassKept DEF CleanInv
<1>3. CASE SubmitRetries
    <2>1. PICK row : /\ AnswerOnScreen(row, FALSE)
                     /\ attempts' = attempts \cup {row}
        BY <1>0, <1>3, RowAnswers, Zenon DEF SubmitRetries, Graded
    <2>2. PICK t \in Texts :
              slot' = [slot EXCEPT !.attempt = @ + 1, !.text = t,
                                   !.previous = @ \cup {t}]
        BY <1>3 DEF SubmitRetries, FreshTexts
    <2>3. /\ slot # NoSlot /\ ~slot.resolved
          /\ UNCHANGED <<orphans, questionNumber, isTestOut, result, faults>>
        BY <1>3, Zenon DEF SubmitRetries, Graded, topic
    <2>4. slot'.attempt = slot.attempt + 1 /\ slot.attempt \in Nat
        BY <1>0, <2>2, <2>3 DEF SlotStates, AttemptNumbers
    <2>5. Answers' = Answers \cup {row}
        BY <2>1, <2>3 DEF Answers
    <2>6. ASSUME NEW r \in Answers', r.question = questionNumber'
          PROVE  r.attempt # slot'.attempt
        <3>1. r.attempt <= slot.attempt /\ r.attempt \in Nat
            <4>1. CASE r \in Answers
                BY <1>0, <2>3, <2>6, <4>1
                   DEF OnScreen, Types, TypeOK, Answers, Rows, AttemptNumbers
            <4>2. CASE r = row
                BY <2>1, <2>4, <4>2 DEF AnswerOnScreen
            <4>3. QED
                BY <2>5, <4>1, <4>2
        <3>2. QED
            BY <2>4, <3>1
    <2>7. row.question = questionNumber /\ row.attempt = slot.attempt
        BY <2>1 DEF AnswerOnScreen
    <2>8. OneRowEach'
        BY <2>3, <2>5, <2>6, <2>7, FirstRowOfAttempt DEF CleanInv, OneRowEach
    <2>9. QED
        BY <2>3, <2>8, FullPassKept DEF CleanInv
<1>4. CASE SubmitLosesRetry \/ SubmitInterrupted \/ CompleteInterrupted
    <2>1. faults' = faults + 1
        BY <1>4, Zenon DEF SubmitLosesRetry, SubmitInterrupted, CompleteInterrupted
    <2>2. faults' # 0
        BY <1>0, <2>1
    <2>3. QED
        BY <2>2 DEF CleanInv, OneRowEach, FullPassIsFull
<1>5. CASE OrphanCommits
    <2>1. orphans # {} /\ UNCHANGED faults
        BY <1>5 DEF OrphanCommits
    <2>2. faults' # 0
        BY <2>1 DEF CleanInv, OneRowEach
    <2>3. QED
        BY <2>2 DEF CleanInv, OneRowEach, FullPassIsFull
<1>6. CASE NextQuestion
    <2>1. /\ slot' = NoSlot
          /\ UNCHANGED <<attempts, orphans, isTestOut, result, faults>>
        BY <1>6 DEF NextQuestion, log, topic
    <2>2. QED
        BY <2>1, FullPassKept DEF CleanInv, OneRowEach, Answers
<1>7. CASE CompleteTopic
    <2>1. UNCHANGED <<attempts, orphans, slot, questionNumber, isTestOut, faults>>
        BY <1>7 DEF CompleteTopic, log, quiz
    <2>2. OneRowEach'
        BY <2>1 DEF CleanInv, OneRowEach, Answers
    <2>3. PICK credits, first \in FinalCredits :
              result' = [credits |-> credits, fullPass |-> isTestOut /\ FullPass(first)]
        BY <1>7 DEF CompleteTopic
    <2>4. faults = 0 => credits = first
        BY <1>0, OneReading DEF CleanInv
    <2>5. FullPassIsFull'
        <3>1. CASE isTestOut /\ FullPass(first)
            <4>1. result'.fullPass /\ result'.credits = credits
                BY <2>3, <3>1
            <4>2. QED
                BY <2>1, <2>4, <3>1, <4>1 DEF FullPassIsFull, FullPass
        <3>2. CASE ~(isTestOut /\ FullPass(first))
            <4>1. ~result'.fullPass /\ result'.credits = credits
                BY <2>3, <3>2
            <4>2. QED
                BY <2>1, <2>4, <3>2, <4>1 DEF FullPassIsFull, FullPass
        <3>3. QED
            BY <3>1, <3>2
    <2>6. QED
        BY <2>2, <2>5 DEF CleanInv
<1>8. CASE UNCHANGED vars
    BY <1>8, CleanUntouched DEF vars
<1>9. QED
    BY <1>1, <1>2, <1>3, <1>4, <1>5, <1>6, <1>7, <1>8 DEF Next

\* Unless a result was lost, a test-out is a full pass exactly when the credits it
\* completes with are all full, although complete_topic_test_out reads them
\* twice; a lost result can make the two readings differ.
THEOREM FullPassMeansFullCredits == Spec => []FullPassIsFull
<1>1. Init => CleanInv
    BY DEF Init, CleanInv, OneRowEach, FullPassIsFull, Answers
<1>2. CleanInv => FullPassIsFull
    BY DEF CleanInv
<1>3. QED
    BY <1>1, <1>2, StepClean, Invariant, PTL DEF Spec

Arithmetic == INSTANCE PaceMath

\* The credits a topic completes with make a score that the pace arithmetic
\* takes, and the score is full exactly when every credit is.
ScoreIsMeasurable ==
    result # NoResult =>
        /\ Arithmetic!TopicScore(result.credits) \in Arithmetic!Scores
        /\ Arithmetic!TopicScore(result.credits) = 10 <=> FullPass(result.credits)

\* What Coaching.tla assumes of the scores, the quiz provides: with the five slots
\* of the code no completion hands calculate_topic_score anything else
\* (complete_topic_verification).
THEOREM ScoresFeedThePace ==
    ASSUME NumQuestions = Arithmetic!QuizLength
    PROVE  Spec => []ScoreIsMeasurable
<1>1. IInv => ScoreIsMeasurable
    <2> SUFFICES ASSUME IInv, result # NoResult
                 PROVE  /\ Arithmetic!TopicScore(result.credits) \in Arithmetic!Scores
                        /\ Arithmetic!TopicScore(result.credits) = 10
                              <=> FullPass(result.credits)
        BY DEF ScoreIsMeasurable
    <2>1. \A q \in Slots : result.credits[q] \in {1, 2}
        BY DEF IInv, CompletionSound, Half, Full
    <2>2. Slots = {1, 2, 3, 4, 5}
        BY DEF Slots, Arithmetic!QuizLength
    <2>3. PICK c1 \in {1, 2}, c2 \in {1, 2}, c3 \in {1, 2}, c4 \in {1, 2},
               c5 \in {1, 2} :
              /\ c1 = result.credits[1] /\ c2 = result.credits[2]
              /\ c3 = result.credits[3] /\ c4 = result.credits[4]
              /\ c5 = result.credits[5]
        BY <2>1, <2>2
    <2>4. Arithmetic!TopicScore(result.credits) = c1 + c2 + c3 + c4 + c5
        BY <2>3 DEF Arithmetic!TopicScore
    <2>5. FullPass(result.credits) <=> c1 = 2 /\ c2 = 2 /\ c3 = 2 /\ c4 = 2 /\ c5 = 2
        BY <2>2, <2>3 DEF FullPass, Full
    <2>6. c1 + c2 + c3 + c4 + c5 \in 5..10
        OBVIOUS
    <2>7. c1 + c2 + c3 + c4 + c5 = 10
              <=> c1 = 2 /\ c2 = 2 /\ c3 = 2 /\ c4 = 2 /\ c5 = 2
        OBVIOUS
    <2>8. QED
        BY <2>4, <2>5, <2>6, <2>7 DEF Arithmetic!Scores
<1>2. QED
    BY <1>1, Invariant, PTL

-----------------------------------------------------------------------------
(* Verification implements Quiz                                            *)

\* A completed topic has the status of the way it was completed.
StatusInv ==
    status \in {"not_started", IF isTestOut THEN "completed_test_out" ELSE "completed"}

LEMMA StatusInvariant == Spec => []StatusInv
<1>1. Init => StatusInv
    BY DEF Init, StatusInv
<1>2. StatusInv /\ [Next]_vars => StatusInv'
    <2> SUFFICES ASSUME StatusInv, [Next]_vars PROVE StatusInv'
        OBVIOUS
    <2>1. CASE CompleteTopic \/ CompleteInterrupted
        <3>1. status' = (IF isTestOut THEN "completed_test_out" ELSE "completed")
              /\ isTestOut' = isTestOut
            BY <2>1 DEF CompleteTopic, CompleteInterrupted
        <3>2. QED
            BY <3>1 DEF StatusInv
    <2>2. CASE UNCHANGED <<isTestOut, status>>
        BY <2>2 DEF StatusInv
    <2>3. CASE BeginQuestion \/ SubmitResolves \/ SubmitRetries
        BY <2>2, <2>3, Zenon DEF BeginQuestion, SubmitResolves, SubmitRetries, topic
    <2>4. CASE SubmitLosesRetry \/ SubmitInterrupted
        BY <2>2, <2>4, Zenon DEF SubmitLosesRetry, SubmitInterrupted, topic
    <2>5. CASE OrphanCommits \/ NextQuestion
        BY <2>2, <2>5, Zenon DEF OrphanCommits, NextQuestion, topic
    <2>6. CASE UNCHANGED vars
        BY <2>2, <2>6 DEF vars
    <2>7. QED
        BY <2>1, <2>3, <2>4, <2>5, <2>6, Zenon DEF Next
<1>3. QED
    BY <1>1, <1>2, PTL DEF Spec

LEMMA RefinementInit == Init => Promise!Init
BY DEF Init, Promise!Init, ResolvedSlots

LEMMA RefinementStep ==
    Types /\ Types' /\ StatusInv /\ [Next]_vars => [Promise!Next]_(Promise!quizVars)
<1> SUFFICES ASSUME Types, Types', StatusInv, [Next]_vars
             PROVE  [Promise!Next]_(Promise!quizVars)
    OBVIOUS
<1> USE DEF Promise!Next, Promise!quizVars, ResolvedSlots
<1>0. questionNumber \in 1..(NumQuestions + 1) /\ NumQuestions \in Nat \ {0}
    BY VerificationAssumption DEF Types, TypeOK, VerificationAssumption
<1>1. CASE BeginQuestion
    <2>1. ~slot'.resolved
        BY <1>1 DEF BeginQuestion
    <2>2. slot = NoSlot /\ UNCHANGED <<questionNumber, status>>
        BY <1>1 DEF BeginQuestion, topic
    <2>3. QED
        BY <1>0, <2>1, <2>2
<1>2. CASE SubmitResolves
    <2>1. /\ slot # NoSlot
          /\ ~slot.resolved
          /\ slot \in SlotStates
          /\ questionNumber \in Slots
          /\ UNCHANGED <<questionNumber, status>>
        BY <1>2 DEF SubmitResolves, Graded, Types, TypeOK, SlotInv, topic
    <2>2. slot'.resolved
        BY <1>2, <2>1 DEF SubmitResolves, SlotStates
    <2>3. slot' # NoSlot
        <3>1. PICK passed \in BOOLEAN :
                  slot' = [slot EXCEPT !.resolved = TRUE,
                                       !.credit = Credit(passed, slot.attempt)]
            BY <1>2 DEF SubmitResolves
        <3>2. Credit(passed, slot.attempt) \in {NotYet, Half, Full}
            BY DEF Credit
        <3>3. slot' \in SlotStates
            BY <2>1, <3>1, <3>2 DEF SlotStates
        <3>4. QED
            BY <3>3, VerificationAssumption DEF VerificationAssumption
    <2>4. Promise!Resolve
        BY <1>0, <2>1, <2>2, <2>3 DEF Promise!Resolve, Slots
    <2>5. QED
        BY <2>4
<1>3. CASE SubmitRetries
    <2>1. /\ slot # NoSlot
          /\ ~slot.resolved
          /\ slot \in SlotStates
          /\ UNCHANGED <<questionNumber, status>>
        BY <1>3, Zenon DEF SubmitRetries, Graded, Types, TypeOK, topic
    <2>2. PICK t \in Texts :
              slot' = [slot EXCEPT !.attempt = @ + 1, !.text = t,
                                   !.previous = @ \cup {t}]
        BY <1>3 DEF SubmitRetries, FreshTexts
    <2>3. ~slot'.resolved
        BY <2>1, <2>2 DEF SlotStates
    <2>4. QED
        BY <1>0, <2>1, <2>3
<1>4. CASE SubmitLosesRetry \/ SubmitInterrupted \/ OrphanCommits
    <2>1. UNCHANGED <<slot, questionNumber, status>>
        BY <1>4, Zenon DEF SubmitLosesRetry, SubmitInterrupted, OrphanCommits, quiz, topic
    <2>2. QED
        BY <2>1
<1>5. CASE NextQuestion
    <2>1. /\ slot # NoSlot
          /\ slot.resolved
          /\ slot' = NoSlot
          /\ questionNumber' = questionNumber + 1
          /\ UNCHANGED status
        BY <1>5 DEF NextQuestion, topic
    <2>2. QED
        BY <1>0, <2>1
<1>6. CASE CompleteTopic \/ CompleteInterrupted
    <2>1. /\ questionNumber = NumQuestions + 1
          /\ slot = NoSlot
          /\ UNCHANGED <<slot, questionNumber>>
        BY <1>0, <1>6 DEF CompleteTopic, CompleteInterrupted, PastLastSlot, quiz,
           Types, SlotInv, Slots
    <2>2. status' = IF isTestOut THEN "completed_test_out" ELSE "completed"
        BY <1>6 DEF CompleteTopic, CompleteInterrupted
    <2>3. CASE status = "not_started"
        BY <1>0, <2>1, <2>2, <2>3 DEF Promise!Complete, Promise!Completed
    <2>4. CASE status # "not_started"
        BY <2>1, <2>2, <2>4 DEF StatusInv
    <2>5. QED
        BY <2>3, <2>4
<1>7. CASE UNCHANGED vars
    BY <1>7 DEF vars
<1>8. QED
    BY <1>1, <1>2, <1>3, <1>4, <1>5, <1>6, <1>7 DEF Next

\* The quiz as coded keeps the promise of Quiz.tla: slots resolve one by one,
\* none is taken back, and the topic is completed once, after the last slot.
THEOREM Implements == Spec => QuizPromise
<1>1. Spec => []Types
    BY TypeCorrect DEF Types
<1>2. Init => Promise!Init
    BY RefinementInit
<1>3. Types /\ Types' /\ StatusInv /\ [Next]_vars => [Promise!Next]_(Promise!quizVars)
    BY RefinementStep
<1>4. QED
    BY <1>1, <1>2, <1>3, StatusInvariant, PTL DEF Spec, QuizPromise, Promise!Spec
=============================================================================
