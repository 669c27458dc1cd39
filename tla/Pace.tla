-------------------------------- MODULE Pace --------------------------------
(***************************************************************************)
(* What a learner's history of completed topics says about the pace: every *)
(* completed topic adds a score and a number of days, and the drift is     *)
(* read off the trailing window (pace/calculator.py, as it is called by    *)
(* complete_topic_verification).  Coaching.tla says what is done about it. *)
(***************************************************************************)
EXTENDS PaceMath

CONSTANTS
    WeeklyHours,    \* answers to "available time per week" explored
    MaxDays,        \* bound: days spent on a topic
    MaxTopics       \* bound: topics completed

ASSUME PaceAssumption ==
    /\ WeeklyHours \subseteq Nat \ {0}
    /\ MaxDays \in Nat
    /\ MaxTopics \in Nat

VARIABLES
    hours,      \* users.available_time_per_week
    history     \* pace_snapshots of the learner, in order

vars == <<hours, history>>

Credits == [1..QuizLength -> {1, 2}]
Entries == [score: Scores, days: 1..MaxDays]

Expected == DaysExpected(hours)

SignalOf(entry) == Signal(Expected, entry.score, entry.days)

Signals == [i \in 1..Len(history) |-> SignalOf(history[i])]

Verdicts == Drifts(Expected, Signals)

Init ==
    /\ hours \in WeeklyHours
    /\ history = <<>>

TopicCompleted ==
    /\ Len(history) < MaxTopics
    /\ \E credits \in Credits, days \in 1..MaxDays :
          history' = Append(history, [score |-> TopicScore(credits), days |-> days])
    /\ UNCHANGED hours

Next == TopicCompleted

Spec == Init /\ [][Next]_vars

-----------------------------------------------------------------------------
(* Properties                                                              *)

\* Every signal is a fraction of its unit that is at least 0.4: no amount of
\* delay takes a completed topic below that.
TypeOK ==
    /\ hours \in WeeklyHours
    /\ history \in Seq(Entries)
    /\ \A i \in 1..Len(history) :
          /\ 10 * Signals[i] >= 4 * SignalUnit(Expected)
          /\ Signals[i] <= SignalUnit(Expected)

\* The last three topics, when there are as many.
Recent == {i \in 1..Len(history) : i > Len(history) - DriftWindow}

\* "reflects understanding, not throughput" (README.md:34): slow days alone
\* are never "behind" and quick days alone are never "ahead".
UnderstandingDecides ==
    /\ "behind" \in Verdicts => \E i \in Recent : history[i].score < 10
    /\ "ahead" \in Verdicts => \E i \in Recent : history[i].score = 10

\* "only a sustained trend (not a single day) triggers adaptation"
\* (README.md:34): however bad one topic is, it is not "behind" between two
\* topics without fault.
OneTopicIsNoTrend ==
    "behind" \in Verdicts =>
        \E i, j \in Recent :
            /\ i # j
            /\ Signals[i] < SignalUnit(Expected)
            /\ Signals[j] < SignalUnit(Expected)

Rank(verdict) == CASE verdict = "behind" -> 1
                   [] verdict = "on_track" -> 2
                   [] verdict = "ahead" -> 3

\* Better answers or fewer days on the topic just completed never lower its
\* signal, and never make the verdict worse: the two regimes of the timing, its
\* cap and the clamp of its score fit together.
ImprovementHelps ==
    history # <<>> =>
        \A score \in history[Len(history)].score..10,
           days \in 1..history[Len(history)].days :
            LET signal == Signal(Expected, score, days)
                better == [Signals EXCEPT ![Len(history)] = signal]
            IN  /\ signal >= Signals[Len(history)]
                /\ signal > Signals[Len(history)] =>
                      \A before \in Verdicts, after \in Drifts(Expected, better) :
                          Rank(before) <= Rank(after)
=============================================================================
