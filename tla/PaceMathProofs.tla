--------------------------- MODULE PaceMathProofs ---------------------------
(***************************************************************************)
(* Bounds of the pace arithmetic that the proofs of Pace.tla and           *)
(* Coaching.tla rest on.                                                   *)
(***************************************************************************)
EXTENDS PaceMath, TLAPS

Pos == Nat \ {0}

-----------------------------------------------------------------------------
(* Bounds of one signal                                                    *)

\* Products of naturals grow with each factor.
LEMMA ProductMonotone ==
    ASSUME NEW a \in Nat, NEW b \in Nat, NEW c \in Nat, a <= b
    PROVE  a * c <= b * c
<1>1. PICK k \in Nat : b = a + k
    <2>1. b - a \in Nat /\ b = a + (b - a)
        OBVIOUS
    <2>2. QED
        BY <2>1
<1>2. (a + k) * c = a * c + k * c
    OBVIOUS
<1>3. k * c >= 0
    OBVIOUS
<1>4. a * c \in Int /\ k * c \in Int
    OBVIOUS
<1>5. QED
    BY <1>1, <1>2, <1>3, <1>4

\* How much timing weighs, and what it says, are fractions of e.
LEMMA InfluenceBounds ==
    ASSUME NEW e \in Pos, NEW days \in Nat
    PROVE  /\ Influence(e, days) \in 0..e
           /\ TimingScore(e, days) \in 0..e
BY SMT DEF Pos, Influence, TimingScore, Clamp, Larger, Smaller, Distance

\* The weighted mean of a score and a timing score, bounded by the weights.
LEMMA SignalBetween ==
    ASSUME NEW e \in Pos, NEW days \in Nat, NEW score \in Scores
    PROVE  /\ Signal(e, score, days) \in Nat
           /\ Signal(e, score, days) >= 4 * (score * (e * e))
           /\ Signal(e, score, days) <= (4 * score + 10) * (e * e)
<1> DEFINE m == Influence(e, days)
           c == TimingScore(e, days)
<1>1. m \in 0..e /\ c \in 0..e
    BY InfluenceBounds
<1> HIDE DEF m, c
<1>2. e \in Nat /\ e > 0 /\ score \in Nat /\ score >= 5 /\ score <= 10
    BY DEF Pos, Scores
<1>3. PICK k \in 0..e : e = m + k
    <2>1. e - m \in 0..e /\ e = m + (e - m)
        BY <1>1, <1>2
    <2>2. QED
        BY <2>1
<1>4. score * e \in Nat /\ e * e \in Nat /\ score * (e * e) \in Nat
    BY <1>2
<1>5. (5 * e - m) * (score * e) = 4 * (score * (e * e)) + k * (score * e)
    <2>1. 5 * e - m = 4 * e + k
        BY <1>1, <1>2, <1>3
    <2>2. (4 * e + k) * (score * e) = 4 * (score * (e * e)) + k * (score * e)
        BY <1>2, <1>3
    <2>3. QED
        BY <2>1, <2>2
<1>6. m * c \in Nat /\ m * c <= m * e
    <2>1. c * m <= e * m
        BY <1>1, <1>2, ProductMonotone
    <2>2. c * m = m * c /\ e * m = m * e /\ m * c \in Nat
        BY <1>1, <1>2
    <2>3. QED
        BY <2>1, <2>2
<1>7. k * (score * e) \in Nat /\ k * (score * e) <= 10 * (k * e)
    <2>1. score * (k * e) <= 10 * (k * e)
        <3>1. k * e \in Nat
            BY <1>2, <1>3
        <3>2. QED
            BY <1>2, <3>1, ProductMonotone
    <2>2. k * (score * e) = score * (k * e)
        BY <1>2, <1>3
    <2>3. k * (score * e) \in Nat
        BY <1>2, <1>3
    <2>4. QED
        BY <2>1, <2>2, <2>3
<1>8. k * e + m * e = e * e
    <2>1. (k + m) * e = k * e + m * e
        BY <1>1, <1>2, <1>3
    <2>2. k + m = e
        BY <1>1, <1>2, <1>3
    <2>3. QED
        BY <2>1, <2>2
<1>9. Signal(e, score, days)
        = 4 * (score * (e * e)) + k * (score * e) + 10 * (m * c)
    BY <1>5 DEF Signal, m, c
<1>10. k * e \in Nat /\ m * e \in Nat
    BY <1>1, <1>2, <1>3
<1>11. (4 * score + 10) * (e * e) = 4 * (score * (e * e)) + 10 * (e * e)
    BY <1>2, <1>4
<1>12. QED
    BY <1>4, <1>6, <1>7, <1>8, <1>9, <1>10, <1>11

\* A signal lies between nothing and the unit.
LEMMA SignalRange ==
    ASSUME NEW e \in Pos, NEW days \in Nat, NEW score \in Scores
    PROVE  Signal(e, score, days) \in 0..SignalUnit(e)
<1>1. score \in Nat /\ score >= 5 /\ score <= 10 /\ e \in Nat
    BY DEF Scores, Pos
<1>2. e * e \in Nat /\ SignalUnit(e) = 50 * (e * e)
    BY <1>1 DEF SignalUnit
<1>3. (4 * score + 10) * (e * e) <= 50 * (e * e)
    BY <1>1, <1>2, ProductMonotone
<1>4. (4 * score + 10) * (e * e) \in Int
    BY <1>1, <1>2
<1>5. QED
    BY <1>2, <1>3, <1>4, SignalBetween

-----------------------------------------------------------------------------
(* How the signal moves with the score and the days                        *)

LEMMA ProductsOrdered ==
    ASSUME NEW a \in Nat, NEW b \in Nat, NEW x \in Nat, NEW y \in Nat, a <= b, x <= y
    PROVE  a * x <= b * y
<1>1. a * x <= b * x
    BY ProductMonotone
<1>2. x * b <= y * b
    BY ProductMonotone
<1>3. a * x \in Int /\ b * x \in Int /\ b * y \in Int /\ x * b = b * x /\ y * b = b * y
    OBVIOUS
<1>4. QED
    BY <1>1, <1>2, <1>3

\* What timing adds to a score whose weighted part is k.
Bonus(e, k, days) == Influence(e, days) * (10 * TimingScore(e, days) - k)

LEMMA SignalIsScoreAndBonus ==
    ASSUME NEW e \in Pos, NEW score \in Scores, NEW days \in Nat
    PROVE  Signal(e, score, days) = 5 * (score * (e * e)) + Bonus(e, score * e, days)
<1> DEFINE m == Influence(e, days)
           c == TimingScore(e, days)
           k == score * e
<1>1. m \in Nat /\ c \in Nat /\ e \in Nat /\ score \in Nat
    BY InfluenceBounds DEF Pos, Scores
<1>2. Signal(e, score, days) = (5 * e - m) * k + 10 * (m * c)
    BY DEF Signal
<1>3. Bonus(e, k, days) = m * (10 * c - k)
    BY DEF Bonus
<1>4. k \in Nat /\ e * k = score * (e * e)
    BY <1>1
<1> HIDE DEF m, c, k
<1>5. (5 * e - m) * k = 5 * (e * k) - m * k
    BY <1>1, <1>4
<1>6. m * (10 * c - k) = 10 * (m * c) - m * k
    BY <1>1, <1>4
<1>7. e * k \in Int /\ m * k \in Int /\ m * c \in Int
    BY <1>1, <1>4
<1>8. k = score * e
    BY DEF k
<1>9. QED
    BY <1>2, <1>3, <1>4, <1>5, <1>6, <1>7, <1>8

\* Up to the expected days timing can only add, and adds less day by day; from
\* there on it can only take away, and takes away more.
LEMMA TimingRegimes ==
    ASSUME NEW e \in Pos, NEW k \in Nat, 5 * e <= k, k <= 10 * e,
           NEW few \in Nat, NEW many \in Nat, few <= many
    PROVE  /\ few <= e => 0 <= 10 * TimingScore(e, few) - k
           /\ many <= e => /\ Influence(e, many) <= Influence(e, few)
                           /\ TimingScore(e, many) = TimingScore(e, few)
           /\ e <= many => Influence(e, many) = 0 \/ 10 * TimingScore(e, many) - k <= 0
           /\ e <= few => /\ Influence(e, few) <= Influence(e, many)
                          /\ TimingScore(e, many) <= TimingScore(e, few)
BY SMT DEF Pos, Influence, TimingScore, Clamp, Larger, Smaller, Distance

LEMMA BonusFalls ==
    ASSUME NEW e \in Pos, NEW k \in Nat, 5 * e <= k, k <= 10 * e,
           NEW few \in Nat, NEW many \in Nat, few <= many
    PROVE  /\ Bonus(e, k, few) \in Int /\ Bonus(e, k, many) \in Int
           /\ Bonus(e, k, many) <= Bonus(e, k, few)
<1> DEFINE m == Influence(e, few)
           n == Influence(e, many)
           g == 10 * TimingScore(e, few) - k
           h == 10 * TimingScore(e, many) - k
<1>1. m \in Nat /\ n \in Nat /\ g \in Int /\ h \in Int /\ e \in Nat
    <2>1. Influence(e, few) \in 0..e /\ TimingScore(e, few) \in 0..e
        BY InfluenceBounds
    <2>2. Influence(e, many) \in 0..e /\ TimingScore(e, many) \in 0..e
        BY InfluenceBounds
    <2>3. QED
        BY <2>1, <2>2 DEF Pos
<1>2. /\ few <= e => 0 <= g
      /\ many <= e => n <= m /\ h = g
      /\ e <= many => n = 0 \/ h <= 0
      /\ e <= few => m <= n
    BY TimingRegimes
<1>3. e <= few => h <= g
    <2>1. e <= few => TimingScore(e, many) <= TimingScore(e, few)
        BY TimingRegimes
    <2>2. TimingScore(e, few) \in 0..e /\ TimingScore(e, many) \in 0..e
        BY InfluenceBounds
    <2>3. QED
        BY <2>1, <2>2 DEF Pos
<1>4. e <= few => m = 0 \/ g <= 0
    BY TimingRegimes
<1>5. Bonus(e, k, few) = m * g /\ Bonus(e, k, many) = n * h
    BY DEF Bonus
<1> HIDE DEF m, n, g, h
<1>6. m * g \in Int /\ n * h \in Int
    BY <1>1
<1>7. CASE many <= e
    <2>1. g \in Nat /\ h = g /\ n <= m
        BY <1>1, <1>2, <1>7
    <2>2. n * h <= m * g
        BY <1>1, <2>1, ProductMonotone
    <2>3. QED
        BY <1>5, <1>6, <2>2
<1>8. CASE few <= e /\ e <= many
    <2>1. g \in Nat
        BY <1>1, <1>2, <1>8
    <2>2. m * g >= 0
        BY <1>1, <2>1
    <2>3. n * h <= 0
        <3>1. CASE n = 0
            BY <1>1, <3>1
        <3>2. CASE h <= 0
            <4>1. -h \in Nat
                BY <1>1, <3>2
            <4>2. n * (-h) >= 0
                BY <1>1, <4>1
            <4>3. n * (-h) = -(n * h)
                BY <1>1
            <4>4. QED
                BY <1>6, <4>2, <4>3
        <3>3. QED
            BY <1>2, <1>8, <3>1, <3>2
    <2>4. QED
        BY <1>5, <1>6, <2>2, <2>3
<1>9. CASE e <= few
    <2>1. m <= n /\ h <= g
        BY <1>2, <1>3, <1>9
    <2>2. CASE g <= 0
        <3>1. -g \in Nat /\ -h \in Nat /\ -g <= -h
            BY <1>1, <2>1, <2>2
        <3>2. m * (-g) <= n * (-h)
            BY <1>1, <2>1, <3>1, ProductsOrdered
        <3>3. m * (-g) = -(m * g) /\ n * (-h) = -(n * h)
            BY <1>1
        <3>4. QED
            BY <1>5, <1>6, <3>2, <3>3
    <2>3. CASE ~(g <= 0)
        <3>1. m = 0 /\ m * g = 0
            BY <1>1, <1>4, <1>9, <2>3
        <3>2. e <= many
            BY <1>1, <1>9
        <3>3. n = 0 \/ h <= 0
            BY <1>2, <3>2
        <3>4. n * h <= 0
            <4>1. CASE n = 0
                BY <1>1, <4>1
            <4>2. CASE h <= 0
                <5>1. -h \in Nat
                    BY <1>1, <4>2
                <5>2. n * (-h) >= 0 /\ n * (-h) = -(n * h)
                    BY <1>1, <5>1
                <5>3. QED
                    BY <1>6, <5>2
            <4>3. QED
                BY <3>3, <4>1, <4>2
        <3>5. QED
            BY <1>5, <1>6, <3>1, <3>4
    <2>4. QED
        BY <2>2, <2>3
<1>10. QED
    BY <1>1, <1>5, <1>6, <1>7, <1>8, <1>9 DEF Pos

\* The same score in fewer days is never a lower signal: the reward of quick days
\* and the penalty of slow ones meet without a step
\* (calculate_combined_pace_signal).
THEOREM QuickerIsNeverLower ==
    ASSUME NEW e \in Pos, NEW score \in Scores,
           NEW few \in Nat, NEW many \in Nat, few <= many
    PROVE  Signal(e, score, many) <= Signal(e, score, few)
<1>1. score \in Nat /\ 5 <= score /\ score <= 10 /\ e \in Nat
    BY DEF Scores, Pos
<1>2. 5 * e <= score * e /\ score * e <= 10 * e /\ score * e \in Nat
    BY <1>1, ProductMonotone
<1>3. PICK k : k = score * e
    OBVIOUS
<1>4. /\ Bonus(e, k, few) \in Int /\ Bonus(e, k, many) \in Int
      /\ Bonus(e, k, many) <= Bonus(e, k, few)
    BY <1>2, <1>3, BonusFalls
<1>5. score * (e * e) \in Int
    BY <1>1
<1>6. /\ Signal(e, score, many) = 5 * (score * (e * e)) + Bonus(e, k, many)
      /\ Signal(e, score, few) = 5 * (score * (e * e)) + Bonus(e, k, few)
    BY <1>3, SignalIsScoreAndBonus
<1>7. QED
    BY <1>4, <1>5, <1>6

\* A better score in the same days is never a lower signal: at most a fifth of
\* the weight is timing's.
THEOREM BetterIsNeverLower ==
    ASSUME NEW e \in Pos, NEW low \in Scores, NEW high \in Scores, low <= high,
           NEW days \in Nat
    PROVE  Signal(e, low, days) <= Signal(e, high, days)
<1> DEFINE m == Influence(e, days)
           c == TimingScore(e, days)
<1>1. m \in 0..e /\ c \in 0..e
    BY InfluenceBounds
<1>2. /\ Signal(e, low, days) = (5 * e - m) * (low * e) + 10 * (m * c)
      /\ Signal(e, high, days) = (5 * e - m) * (high * e) + 10 * (m * c)
    BY DEF Signal
<1>3. low \in Nat /\ high \in Nat /\ e \in Nat
    BY DEF Scores, Pos
<1> HIDE DEF m, c
<1>4. 5 * e - m \in Nat /\ low * e \in Nat /\ high * e \in Nat
    BY <1>1, <1>3
<1>5. low * e <= high * e
    BY <1>3, ProductMonotone
<1>6. (5 * e - m) * (low * e) <= (5 * e - m) * (high * e)
    BY <1>4, <1>5, ProductsOrdered
<1>7. (5 * e - m) * (low * e) \in Int /\ (5 * e - m) * (high * e) \in Int /\ m * c \in Int
    BY <1>1, <1>3, <1>4
<1>8. QED
    BY <1>2, <1>6, <1>7

\* There is always a verdict: no mean falls between the thresholds.
LEMMA VerdictExists ==
    ASSUME NEW e \in Pos, NEW w, Total(w) \in Int
    PROVE  WindowDrifts(e, w) # {}
<1>1. PICK t \in Int, u \in Int : t = Total(w) /\ u = SignalUnit(e)
    BY DEF SignalUnit, Pos
<1>2. \/ 10 * t <= 21 * u
      \/ 100 * t >= 285 * u
      \/ 10 * t >= 21 * u /\ 100 * t <= 285 * u
    BY <1>1
<1>3. \/ "behind" \in WindowDrifts(e, w)
      \/ "ahead" \in WindowDrifts(e, w)
      \/ "on_track" \in WindowDrifts(e, w)
    BY <1>1, <1>2 DEF WindowDrifts
<1>4. QED
    BY <1>3
=============================================================================
