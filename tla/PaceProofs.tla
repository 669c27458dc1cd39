----------------------------- MODULE PaceProofs -----------------------------
(***************************************************************************)
(* What the pace arithmetic does for every number of expected days, every  *)
(* number of days taken and every history, proved.                         *)
(***************************************************************************)
EXTENDS Pace, PaceMathProofs

-----------------------------------------------------------------------------
(* The expected days                                                       *)

\* Weekly hours that Intake accepts give at least one expected day.
LEMMA ExpectedPositive ==
    ASSUME NEW h \in Nat \ {0}
    PROVE  DaysExpected(h) \in Pos
<1>1. (h * 60) \div 5 = 12 * h
    OBVIOUS
<1>2. 12 * h \in Nat /\ 12 * h > 0
    OBVIOUS
<1>3. (120 + 12 * h - 1) \div (12 * h) \in Int
    BY <1>2
<1>4. DaysExpected(h) = Larger(1, (120 + 12 * h - 1) \div (12 * h))
    BY <1>1 DEF DaysExpected
<1>5. QED
    BY <1>3, <1>4 DEF Larger, Pos

-----------------------------------------------------------------------------
(* Type correctness                                                        *)

\* The typed part of TypeOK; its bounds on the signals follow.
Typed == hours \in WeeklyHours /\ history \in Seq(Entries)

\* Five credits, each one or two halves, make a score of 5 to 10 tenths.
LEMMA ScoreOfCredits ==
    ASSUME NEW credits \in Credits
    PROVE  TopicScore(credits) \in Scores
<1>1. \A q \in 1..5 : credits[q] \in {1, 2}
    BY DEF Credits, QuizLength
<1>2. /\ credits[1] \in {1, 2} /\ credits[2] \in {1, 2} /\ credits[3] \in {1, 2}
      /\ credits[4] \in {1, 2} /\ credits[5] \in {1, 2}
    BY <1>1
<1>3. QED
    BY <1>2 DEF TopicScore, Scores

LEMMA TypedInvariant == Spec => []Typed
<1>1. Init => Typed
    BY DEF Init, Typed
<1>2. Typed /\ [Next]_vars => Typed'
    <2> SUFFICES ASSUME Typed, [Next]_vars PROVE Typed'
        OBVIOUS
    <2>1. CASE TopicCompleted
        <3>1. PICK credits \in Credits, days \in 1..MaxDays :
                 history' = Append(history,
                     [score |-> TopicScore(credits), days |-> days])
            BY <2>1 DEF TopicCompleted
        <3>2. [score |-> TopicScore(credits), days |-> days] \in Entries
            BY ScoreOfCredits DEF Entries
        <3>3. QED
            BY <2>1, <3>1, <3>2 DEF Typed, TopicCompleted
    <2>2. CASE UNCHANGED vars
        BY <2>2 DEF vars, Typed
    <2>3. QED
        BY <2>1, <2>2 DEF Next
<1>3. QED
    BY <1>1, <1>2, PTL DEF Spec

\* What SignalBetween says of the entries of a history.
LEMMA EntrySignals ==
    ASSUME Typed
    PROVE  /\ Expected \in Pos
           /\ \A i \in 1..Len(history) :
                 /\ history[i].score \in Scores
                 /\ Signals[i] \in Nat
                 /\ Signals[i] >= 4 * (history[i].score * (Expected * Expected))
                 /\ Signals[i] <= (4 * history[i].score + 10) * (Expected * Expected)
<1>1. Expected \in Pos
    BY ExpectedPositive, PaceAssumption DEF Typed, Expected, PaceAssumption
<1>2. ASSUME NEW i \in 1..Len(history)
      PROVE  /\ history[i].score \in Scores
             /\ Signals[i] \in Nat
             /\ Signals[i] >= 4 * (history[i].score * (Expected * Expected))
             /\ Signals[i] <= (4 * history[i].score + 10) * (Expected * Expected)
    <2>1. history[i] \in Entries
        BY DEF Typed
    <2>2. history[i].score \in Scores /\ history[i].days \in Nat
        BY <2>1 DEF Entries
    <2>3. Signals[i] = Signal(Expected, history[i].score, history[i].days)
        BY DEF Signals, SignalOf
    <2>4. QED
        BY <1>1, <2>2, <2>3, SignalBetween
<1>3. QED
    BY <1>1, <1>2

-----------------------------------------------------------------------------
(* The window                                                              *)

\* The window of a long enough history is its last three signals.
LEMMA WindowIsRecent ==
    ASSUME Typed, Len(history) >= DriftWindow
    PROVE  \E i, j, k \in Recent :
              /\ i # j /\ j # k /\ i # k
              /\ Recent = {i, j, k}
              /\ Window(Signals)[1] = Signals[i]
              /\ Window(Signals)[2] = Signals[j]
              /\ Window(Signals)[3] = Signals[k]
<1> DEFINE n == Len(history)
<1>1. n \in Nat /\ n >= 3
    BY DEF Typed, DriftWindow
<1>2. Signals \in Seq(Nat) /\ Len(Signals) = n
    <2>1. \A i \in 1..n : Signals[i] \in Nat
        BY EntrySignals
    <2>2. DOMAIN Signals = 1..n /\ Signals = [i \in 1..n |-> Signals[i]]
        BY DEF Signals
    <2>3. QED
        BY <1>1, <2>1, <2>2
<1>3. Window(Signals) = SubSeq(Signals, n - 2, n)
    <2>1. n - DriftWindow + 1 = n - 2
        BY <1>1 DEF DriftWindow
    <2>2. QED
        BY <1>2, <2>1 DEF Window
<1>4. /\ Window(Signals)[1] = Signals[n - 2]
      /\ Window(Signals)[2] = Signals[n - 1]
      /\ Window(Signals)[3] = Signals[n]
    BY <1>1, <1>2, <1>3
<1>5. Recent = {n - 2, n - 1, n}
    BY <1>1 DEF Recent, DriftWindow
<1>6. n - 2 # n - 1 /\ n - 1 # n /\ n - 2 # n
    BY <1>1
<1>7. QED
    BY <1>4, <1>5, <1>6

\* A verdict other than "on_track" needs a window, and its total decides.
LEMMA VerdictTotals ==
    ASSUME Typed
    PROVE  /\ "behind" \in Verdicts =>
                 /\ Len(history) >= DriftWindow
                 /\ 10 * Total(Window(Signals)) <= 21 * SignalUnit(Expected)
           /\ "ahead" \in Verdicts =>
                 /\ Len(history) >= DriftWindow
                 /\ 100 * Total(Window(Signals)) >= 285 * SignalUnit(Expected)
<1>1. Len(Signals) = Len(history)
    BY DEF Signals, Typed
<1>2. CASE Len(Signals) < DriftWindow
    BY <1>2 DEF Verdicts, Drifts
<1>3. CASE ~(Len(Signals) < DriftWindow)
    <2>1. Verdicts = WindowDrifts(Expected, Window(Signals))
        BY <1>3 DEF Verdicts, Drifts
    <2>2. Len(history) >= DriftWindow
        BY <1>1, <1>3 DEF DriftWindow, Typed
    <2>3. QED
        BY <2>1, <2>2 DEF WindowDrifts
<1>4. QED
    BY <1>2, <1>3

\* The threshold inequalities, for signals bounded as SignalBetween bounds them.
LEMMA Thresholds ==
    ASSUME NEW u \in Pos, NEW a \in Nat, NEW b \in Nat, NEW c \in Nat
    PROVE  /\ a >= 40 * u /\ b >= 40 * u /\ c >= 40 * u
                 => ~(10 * (a + b + c) <= 21 * (50 * u))
           /\ a <= 46 * u /\ b <= 46 * u /\ c <= 46 * u
                 => ~(100 * (a + b + c) >= 285 * (50 * u))
           /\ a >= 50 * u /\ b >= 50 * u /\ c >= 20 * u
                 => ~(10 * (a + b + c) <= 21 * (50 * u))
BY SMT DEF Pos

-----------------------------------------------------------------------------
(* The theorems                                                            *)

LEMMA TypedImpliesTypeOK == Typed => TypeOK
<1> SUFFICES ASSUME Typed PROVE TypeOK
    OBVIOUS
<1>1. ASSUME NEW i \in 1..Len(history)
      PROVE  /\ 10 * Signals[i] >= 4 * SignalUnit(Expected)
             /\ Signals[i] <= SignalUnit(Expected)
    <2> DEFINE u == Expected * Expected
               s == history[i].score
    <2>1. Expected \in Pos /\ u \in Pos
        BY EntrySignals DEF Pos
    <2>2. s \in Scores /\ s \in Nat /\ s >= 5 /\ s <= 10
        BY EntrySignals DEF Scores
    <2>3. SignalUnit(Expected) = 50 * u
        BY <2>1 DEF SignalUnit, Pos
    <2>4. Signals[i] \in Nat /\ Signals[i] >= 4 * (s * u)
                             /\ Signals[i] <= (4 * s + 10) * u
        BY EntrySignals
    <2> HIDE DEF u, s
    <2>5. 5 * u <= s * u /\ (4 * s + 10) * u <= 50 * u
        <3>1. u \in Nat /\ 4 * s + 10 \in Nat /\ 4 * s + 10 <= 50
            BY <2>1, <2>2 DEF Pos
        <3>2. QED
            BY <2>2, <3>1, ProductMonotone
    <2>6. s * u \in Int /\ (4 * s + 10) * u \in Int /\ u \in Int
        BY <2>1, <2>2 DEF Pos
    <2>7. QED
        BY <2>3, <2>4, <2>5, <2>6
<1>2. QED
    BY <1>1 DEF TypeOK, Typed

\* Every signal the pace component ever computes lies between 0.4 and 1,
\* whatever the weekly hours, the days taken and the credits
\* (calculate_combined_pace_signal).
THEOREM SignalsBounded == Spec => []TypeOK
<1>1. QED
    BY TypedInvariant, TypedImpliesTypeOK, PTL

LEMMA TypedDecides == Typed => UnderstandingDecides
<1> SUFFICES ASSUME Typed PROVE UnderstandingDecides
    OBVIOUS
<1> DEFINE u == Expected * Expected
           Long == Len(history) >= DriftWindow
<1>1. u \in Pos /\ SignalUnit(Expected) = 50 * u
    BY EntrySignals DEF Pos, SignalUnit
<1>2. Recent \subseteq 1..Len(history)
    BY DEF Recent
<1>3. ASSUME "behind" \in Verdicts, \A i \in Recent : ~(history[i].score < 10)
      PROVE  FALSE
    <2>1. Long /\ 10 * Total(Window(Signals)) <= 21 * (50 * u)
        BY <1>1, <1>3, VerdictTotals
    <2>2. PICK i, j, k \in Recent : /\ Window(Signals)[1] = Signals[i]
                                    /\ Window(Signals)[2] = Signals[j]
                                    /\ Window(Signals)[3] = Signals[k]
        BY <2>1, WindowIsRecent
    <2>3. \A r \in Recent : Signals[r] \in Nat /\ Signals[r] >= 40 * u
        <3> TAKE r \in Recent
        <3>1. history[r].score = 10
            <4>1. history[r].score \in Scores /\ ~(history[r].score < 10)
                BY <1>2, <1>3, EntrySignals
            <4>2. QED
                BY <4>1 DEF Scores
        <3>2. Signals[r] \in Nat /\ Signals[r] >= 4 * (10 * u)
            BY <1>2, <3>1, EntrySignals
        <3>3. QED
            BY <1>1, <3>2 DEF Pos
    <2> HIDE DEF u
    <2>4. QED
        BY <1>1, <2>1, <2>2, <2>3, Thresholds DEF Total
<1>4. ASSUME "ahead" \in Verdicts, \A i \in Recent : history[i].score # 10
      PROVE  FALSE
    <2>1. Long /\ 100 * Total(Window(Signals)) >= 285 * (50 * u)
        BY <1>1, <1>4, VerdictTotals
    <2>2. PICK i, j, k \in Recent : /\ Window(Signals)[1] = Signals[i]
                                    /\ Window(Signals)[2] = Signals[j]
                                    /\ Window(Signals)[3] = Signals[k]
        BY <2>1, WindowIsRecent
    <2>3. \A r \in Recent : Signals[r] \in Nat /\ Signals[r] <= 46 * u
        <3> TAKE r \in Recent
        <3> DEFINE s == history[r].score
        <3>1. s \in Nat /\ s <= 9
            BY <1>2, <1>4, EntrySignals DEF Scores
        <3>2. Signals[r] \in Nat /\ Signals[r] <= (4 * s + 10) * u
            BY <1>2, EntrySignals
        <3> HIDE DEF s, u
        <3>3. (4 * s + 10) * u <= 46 * u
            <4>1. 4 * s + 10 \in Nat /\ 4 * s + 10 <= 46 /\ u \in Nat
                BY <1>1, <3>1 DEF Pos
            <4>2. QED
                BY <4>1, ProductMonotone
        <3>4. (4 * s + 10) * u \in Int /\ 46 * u \in Int
            BY <1>1, <3>1 DEF Pos
        <3>5. QED
            BY <3>2, <3>3, <3>4
    <2> HIDE DEF u
    <2>4. QED
        BY <1>1, <2>1, <2>2, <2>3, Thresholds DEF Total
<1>5. QED
    BY <1>3, <1>4 DEF UnderstandingDecides

\* For every number of expected days and every history, a learner who earned
\* every credit of the last three topics is not "behind" however slow, and one
\* who missed credit in each of them is not "ahead" however quick
\* (calculate_combined_pace_signal, detect_sustained_drift).
THEOREM PaceIsUnderstanding == Spec => []UnderstandingDecides
<1>1. QED
    BY TypedInvariant, TypedDecides, PTL

LEMMA TypedIsNoTrend == Typed => OneTopicIsNoTrend
<1> SUFFICES ASSUME Typed, "behind" \in Verdicts
             PROVE  \E i, j \in Recent : /\ i # j
                                         /\ Signals[i] < SignalUnit(Expected)
                                         /\ Signals[j] < SignalUnit(Expected)
    BY DEF OneTopicIsNoTrend
<1> DEFINE u == Expected * Expected
           Full(r) == Signals[r] >= 50 * u
<1>1. u \in Pos /\ SignalUnit(Expected) = 50 * u
    BY EntrySignals DEF Pos, SignalUnit
<1>2. /\ Len(history) >= DriftWindow
      /\ 10 * Total(Window(Signals)) <= 21 * (50 * u)
    BY <1>1, VerdictTotals
<1>3. PICK i, j, k \in Recent : /\ i # j /\ j # k /\ i # k
                                /\ Window(Signals)[1] = Signals[i]
                                /\ Window(Signals)[2] = Signals[j]
                                /\ Window(Signals)[3] = Signals[k]
    BY <1>2, WindowIsRecent
<1>4. \A r \in Recent : Signals[r] \in Nat /\ Signals[r] >= 20 * u
    <2> TAKE r \in Recent
    <2>1. r \in 1..Len(history)
        BY DEF Recent
    <2>2. /\ 10 * Signals[r] >= 4 * (50 * u)
          /\ Signals[r] \in Nat
        BY <1>1, <2>1, TypedImpliesTypeOK, EntrySignals DEF TypeOK
    <2> HIDE DEF u
    <2>3. QED
        BY <1>1, <2>2 DEF Pos
<1>5. 10 * (Signals[i] + Signals[j] + Signals[k]) <= 21 * (50 * u)
    BY <1>2, <1>3 DEF Total
<1> HIDE DEF u
<1>6. ~(Full(i) /\ Full(j)) /\ ~(Full(j) /\ Full(k)) /\ ~(Full(i) /\ Full(k))
    BY <1>1, <1>4, <1>5 DEF Pos
<1>7. \A r \in Recent : ~Full(r) => Signals[r] < SignalUnit(Expected)
    BY <1>1, <1>4 DEF Pos
<1>8. QED
    BY <1>3, <1>6, <1>7

\* For every number of expected days and every history, "behind" takes two
\* topics below the full signal: one bad topic is never enough
\* (detect_sustained_drift).
THEOREM BehindIsATrend == Spec => []OneTopicIsNoTrend
<1>1. QED
    BY TypedInvariant, TypedIsNoTrend, PTL

-----------------------------------------------------------------------------
(* Doing better                                                            *)

\* A larger total is never a worse verdict.
LEMMA VerdictsOrdered ==
    ASSUME NEW e \in Pos, NEW v, NEW w, Total(v) \in Int, Total(w) \in Int,
           Total(v) < Total(w),
           NEW before \in WindowDrifts(e, v), NEW after \in WindowDrifts(e, w)
    PROVE  Rank(before) <= Rank(after)
<1>1. PICK s \in Int, t \in Int, u \in Nat :
          s = Total(v) /\ t = Total(w) /\ u = SignalUnit(e)
    BY DEF SignalUnit, Pos
<1>2. /\ before \in {"behind", "on_track", "ahead"}
      /\ before = "on_track" => 10 * s >= 21 * u
      /\ before = "ahead" => 100 * s >= 285 * u
    BY <1>1 DEF WindowDrifts
<1>3. /\ after \in {"behind", "on_track", "ahead"}
      /\ after = "behind" => 10 * t <= 21 * u
      /\ after = "on_track" => 100 * t <= 285 * u
    BY <1>1 DEF WindowDrifts
<1>4. s < t
    BY <1>1
<1>5. CASE before = "behind"
    BY <1>3, <1>5 DEF Rank
<1>6. CASE before = "on_track"
    <2>1. after # "behind"
        BY <1>1, <1>2, <1>3, <1>4, <1>6
    <2>2. QED
        BY <1>3, <1>6, <2>1 DEF Rank
<1>7. CASE before = "ahead"
    <2>1. after = "ahead"
        BY <1>1, <1>2, <1>3, <1>4, <1>7
    <2>2. QED
        BY <1>7, <2>1 DEF Rank
<1>8. QED
    BY <1>2, <1>5, <1>6, <1>7

\* The window of a long enough sequence is its last three elements.
LEMMA WindowIsLastThree ==
    ASSUME NEW s \in Seq(Nat), Len(s) >= 3
    PROVE  /\ Window(s)[1] = s[Len(s) - 2]
           /\ Window(s)[2] = s[Len(s) - 1]
           /\ Window(s)[3] = s[Len(s)]
<1>1. Len(s) - DriftWindow + 1 = Len(s) - 2
    BY DEF DriftWindow
<1>2. Window(s) = SubSeq(s, Len(s) - 2, Len(s))
    BY <1>1 DEF Window
<1>3. QED
    BY <1>2

\* A sequence of naturals with a larger last element has no worse a verdict.
LEMMA LastSignalDecides ==
    ASSUME NEW e \in Pos, NEW signals \in Seq(Nat), signals # <<>>,
           NEW signal \in Nat, signal > signals[Len(signals)],
           NEW before \in Drifts(e, signals),
           NEW after \in Drifts(e, [signals EXCEPT ![Len(signals)] = signal])
    PROVE  Rank(before) <= Rank(after)
<1> DEFINE n == Len(signals)
           better == [signals EXCEPT ![n] = signal]
<1>1. n \in Nat /\ n >= 1
    OBVIOUS
<1>2. better \in Seq(Nat) /\ Len(better) = n
    OBVIOUS
<1>3. CASE n < DriftWindow
    <2>1. before = "on_track" /\ after = "on_track"
        BY <1>2, <1>3 DEF Drifts
    <2>2. QED
        BY <2>1 DEF Rank
<1>4. CASE ~(n < DriftWindow)
    <2>1. n >= 3
        BY <1>1, <1>4 DEF DriftWindow
    <2>2. /\ before \in WindowDrifts(e, Window(signals))
          /\ after \in WindowDrifts(e, Window(better))
        BY <1>2, <1>4 DEF Drifts
    <2>3. PICK v \in Seq(Nat) : v = better /\ Len(v) = n
        BY <1>2
    <2>4. /\ Window(signals)[1] = signals[n - 2]
          /\ Window(signals)[2] = signals[n - 1]
          /\ Window(signals)[3] = signals[n]
        BY <2>1, WindowIsLastThree
    <2>5. /\ Window(better)[1] = better[n - 2]
          /\ Window(better)[2] = better[n - 1]
          /\ Window(better)[3] = better[n]
        BY <2>1, <2>3, WindowIsLastThree
    <2>6. /\ better[n - 2] = signals[n - 2]
          /\ better[n - 1] = signals[n - 1]
          /\ better[n] = signal
        BY <1>1, <2>1
    <2>7. /\ signals[n - 2] \in Nat /\ signals[n - 1] \in Nat /\ signals[n] \in Nat
        BY <1>1, <2>1
    <2>8. PICK a \in Nat, b \in Nat, c \in Nat :
              a = signals[n - 2] /\ b = signals[n - 1] /\ c = signals[n]
        BY <2>7
    <2>9. Total(Window(signals)) = a + b + c /\ Total(Window(better)) = a + b + signal
        BY <2>4, <2>5, <2>6, <2>8 DEF Total
    <2>10. c < signal
        BY <2>8
    <2>11. /\ a + b + c \in Int /\ a + b + signal \in Int
           /\ a + b + c < a + b + signal
        BY <2>10
    <2>12. QED
        BY <2>2, <2>9, <2>11, VerdictsOrdered
<1>5. QED
    BY <1>3, <1>4

LEMMA TypedImprovementHelps == Typed => ImprovementHelps
<1> SUFFICES ASSUME Typed, history # <<>>,
                    NEW score \in history[Len(history)].score..10,
                    NEW days \in 1..history[Len(history)].days
             PROVE  LET signal == Signal(Expected, score, days)
                        better == [Signals EXCEPT ![Len(history)] = signal]
                    IN  /\ signal >= Signals[Len(history)]
                        /\ signal > Signals[Len(history)] =>
                              \A before \in Verdicts, after \in Drifts(Expected, better) :
                                  Rank(before) <= Rank(after)
    BY DEF ImprovementHelps
<1> DEFINE n == Len(history)
           signal == Signal(Expected, score, days)
<1>1. n \in Nat /\ n >= 1 /\ n \in 1..n /\ history[n] \in Entries
    BY DEF Typed
<1>2. Expected \in Pos
    BY EntrySignals
<1>3. PICK s \in Scores, d \in Nat : s = history[n].score /\ d = history[n].days
    BY <1>1 DEF Entries
<1>4. score \in Scores /\ s <= score /\ days \in Nat /\ days <= d
    BY <1>3 DEF Scores
<1>5. Signals[n] = Signal(Expected, s, d)
    BY <1>1, <1>3 DEF Signals, SignalOf
<1>6. Signal(Expected, s, d) <= Signal(Expected, s, days)
    BY <1>2, <1>4, QuickerIsNeverLower
<1>7. Signal(Expected, s, days) <= signal
    BY <1>2, <1>4, BetterIsNeverLower
<1>8. signal \in Nat /\ Signal(Expected, s, days) \in Nat /\ Signal(Expected, s, d) \in Nat
    BY <1>2, <1>4, SignalBetween
<1>9. signal >= Signals[n]
    BY <1>5, <1>6, <1>7, <1>8
<1>10. Signals \in Seq(Nat) /\ Len(Signals) = n /\ Signals # <<>>
    <2>1. \A i \in 1..n : Signals[i] \in Nat
        BY EntrySignals
    <2>2. Signals = [i \in 1..n |-> Signals[i]]
        BY DEF Signals
    <2>3. QED
        BY <1>1, <2>1, <2>2
<1>11. ASSUME signal > Signals[n], NEW before \in Verdicts,
              NEW after \in Drifts(Expected, [Signals EXCEPT ![n] = signal])
       PROVE  Rank(before) <= Rank(after)
    BY <1>2, <1>8, <1>10, <1>11, LastSignalDecides DEF Verdicts
<1>12. QED
    BY <1>9, <1>11

\* For every number of expected days and every history: better answers or fewer
\* days on the topic just completed never lower its signal and never make the
\* verdict worse (calculate_combined_pace_signal, detect_sustained_drift).
THEOREM ImprovementAlwaysHelps == Spec => []ImprovementHelps
<1>1. QED
    BY TypedInvariant, TypedImprovementHelps, PTL
=============================================================================
