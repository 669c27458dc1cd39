------------------------------ MODULE PaceMath ------------------------------
(***************************************************************************)
(* The arithmetic of pace/calculator.py in integers.  A credit is counted  *)
(* in halves, a topic score in tenths, and for a learner whose topics are  *)
(* expected to take e days a pace signal is counted in units of            *)
(* 1/SignalUnit(e), which makes every signal of that learner a natural     *)
(* number.  The code computes in floating point; the only place where its  *)
(* rounding can be seen is a mean exactly on a threshold, see Drifts.      *)
(***************************************************************************)
EXTENDS Integers, Sequences

QuizLength == 5     \* credits per topic
Scores == 5..10     \* topic scores of a completed topic, in tenths
DriftWindow == 3    \* DRIFT_WINDOW_SIZE

Larger(a, b) == IF a >= b THEN a ELSE b
Smaller(a, b) == IF a <= b THEN a ELSE b
Clamp(x, low, high) == Larger(low, Smaller(x, high))
Distance(a, b) == IF a >= b THEN a - b ELSE b - a

\* 120 minutes per topic, spread over 5 study days a week, rounded up.
DaysExpected(hours) ==
    LET minutes == (hours * 60) \div 5
    IN  Larger(1, (120 + minutes - 1) \div minutes)

\* The mean of five credits, in tenths, is their sum in halves.
TopicScore(credits) ==
    credits[1] + credits[2] + credits[3] + credits[4] + credits[5]

\* Mutated form of Influence: the weight of timing has no cap.
UncappedInfluence(e, days) == Larger(0, 2 * Distance(days, e) - e)

\* How far days is an outlier: 0 up to half of the expected days away from
\* them, e (MAX_TIMING_INFLUENCE) from all of them on.
Influence(e, days) == Clamp(2 * Distance(days, e) - e, 0, e)

\* Mutated form of TimingScore: quick days score above 1.
UnclampedTiming(e, days) == 2 * e - days

\* Mutated form of TimingScore: quick days count as far off as slow ones.
SymmetricTiming(e, days) == Clamp(e - Distance(days, e), 0, e)

\* 1 - deviation, between 0 and 1, in units of 1/e.
TimingScore(e, days) == Clamp(2 * e - days, 0, e)

SignalUnit(e) == 50 * e * e

\* calculate_combined_pace_signal.
Signal(e, score, days) ==
    (5 * e - Influence(e, days)) * (score * e)
        + 10 * (Influence(e, days) * TimingScore(e, days))

\* detect_sustained_drift: the mean of the last three signals against 0.7 and
\* 0.95.  A mean exactly on a threshold may be rounded to either side of it.
Total(w) == w[1] + w[2] + w[3]

\* Mutated form of WindowDrifts: the worst topic stands for the window.
MinDrifts(e, w) ==
    IF 10 * Smaller(w[1], Smaller(w[2], w[3])) <= 7 * SignalUnit(e)
    THEN {"behind"} ELSE {"on_track"}

WindowDrifts(e, w) ==
    {d \in {"behind", "on_track", "ahead"} :
        /\ d = "behind"   => 10 * Total(w) <= 21 * SignalUnit(e)
        /\ d = "on_track" => /\ 10 * Total(w) >= 21 * SignalUnit(e)
                             /\ 100 * Total(w) <= 285 * SignalUnit(e)
        /\ d = "ahead"    => 100 * Total(w) >= 285 * SignalUnit(e)}

Window(signals) ==
    SubSeq(signals, Len(signals) - DriftWindow + 1, Len(signals))

Drifts(e, signals) ==
    IF Len(signals) < DriftWindow
    THEN {"on_track"}
    ELSE WindowDrifts(e, Window(signals))
=============================================================================
