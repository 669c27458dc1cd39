------------------------ MODULE RolesRefreshProofs ------------------------
(***************************************************************************)
(* For any number of roles, sessions, skills and topics, whatever the      *)
(* sources answer and however batches overlap and die: the types, that a   *)
(* rise reaches whoever completed its topic, with the exceptions of        *)
(* RiseReachesLearner and, when batches do not overlap, without its races, *)
(* that a note is about a rise, and that a high tier rests on an earlier   *)
(* row.                                                                    *)
(***************************************************************************)
EXTENDS RolesRefresh, TLAPS

Grounded == {"read", "upsert", "match", "create"}
Noting == {"match", "create"}

\* What a batch has at hand at each of its steps; it owes nothing about a skill
\* that is not listed.
ShapeInv ==
    /\ \A w \in Refreshers :
          /\ at[w] \in Grounded \cup {"ground"} => todo[w] # <<>>
          /\ at[w] \in Grounded => live[w] \in StoredRows
          /\ at[w] # "create" => matched[w] = {}
          /\ at[w] = "check" => checking[w] \in Roles
          /\ at[w] \in Noting =>
                /\ \A s \in risen[w] : live[w][s] # Absent
                /\ \A t \in matched[w] : live[w][SkillOf[t]] # Absent
    /\ \A w \in Sessions \ checked : at[w] = "idle"

-----------------------------------------------------------------------------
(* The signal of the listings                                              *)

LEMMA RequiredFalls ==
    ASSUME NEW count \in Nat
    PROVE  /\ RequiredPercent(count) \in 20..60
           /\ RequiredPercent(count + 1) \in 20..60
           /\ RequiredPercent(count + 1) <= RequiredPercent(count)
BY DEF RequiredPercent

\* One more listing on topic, added or in the place of one that is not, never
\* costs a role its signal, at whatever point of the falling threshold.
THEOREM OnTopicNeverHurts ==
    ASSUME NEW count \in Nat, NEW relevant \in 0..count, UsableSignal(relevant, count)
    PROVE  /\ UsableSignal(relevant + 1, count + 1)
           /\ \A more \in relevant..count : UsableSignal(more, count)
<1>1. PICK p, q : p = RequiredPercent(count) /\ q = RequiredPercent(count + 1)
    OBVIOUS
<1>2. p \in 20..60 /\ q \in 20..60 /\ q <= p
    BY <1>1, RequiredFalls
<1>3. count > 0 /\ 100 * relevant >= p * count
    BY <1>1 DEF UsableSignal
<1>4. q * count <= p * count
    <2>1. (p - q) * count >= 0
        BY <1>2
    <2>2. (p - q) * count = p * count - q * count
        BY <1>2
    <2>3. QED
        BY <1>2, <2>1, <2>2
<1>5. q * (count + 1) = q * count + q
    BY <1>2
<1>6. 100 * (relevant + 1) >= q * (count + 1)
    BY <1>2, <1>3, <1>4, <1>5
<1>7. UsableSignal(relevant + 1, count + 1)
    BY <1>1, <1>3, <1>6 DEF UsableSignal
<1>8. \A more \in relevant..count : UsableSignal(more, count)
    BY <1>1, <1>2, <1>3 DEF UsableSignal
<1>9. QED
    BY <1>7, <1>8

\* One more listing off topic gives a role a signal it did not have in two cases
\* only, the 20th listing with 6 on topic and the 25th with 5: there the threshold
\* of has_usable_himalayas_signal falls faster than the share of the listings.
THEOREM OffTopicHelpsTwice ==
    ASSUME NEW count \in Nat, NEW relevant \in 0..count
    PROVE  ~UsableSignal(relevant, count) /\ UsableSignal(relevant, count + 1)
              <=> <<relevant, count>> \in {<<6, 19>>, <<5, 24>>}
<1>1. CASE count < 5
    BY <1>1 DEF UsableSignal, RequiredPercent
<1>2. CASE count >= 25
    BY <1>2 DEF UsableSignal, RequiredPercent
<1>3. CASE count \in 5..24
    <2>1. /\ RequiredPercent(count) = 70 - 2 * count
          /\ RequiredPercent(count + 1) = 68 - 2 * count
        BY <1>3 DEF RequiredPercent
    <2>2. CASE count \in 5..17
        <3>1. (68 - 2 * count) * (count + 1) = (70 - 2 * count) * count + (68 - 4 * count)
            BY <1>3
        <3>2. 68 - 4 * count >= 0
            BY <2>2
        <3>3. QED
            BY <2>1, <2>2, <3>1, <3>2 DEF UsableSignal
    <2>3. CASE count \in 18..24
        <3>1. CASE count = 18 BY <2>1, <3>1 DEF UsableSignal
        <3>2. CASE count = 19 BY <2>1, <3>2 DEF UsableSignal
        <3>3. CASE count = 20 BY <2>1, <3>3 DEF UsableSignal
        <3>4. CASE count = 21 BY <2>1, <3>4 DEF UsableSignal
        <3>5. CASE count = 22 BY <2>1, <3>5 DEF UsableSignal
        <3>6. CASE count = 23 BY <2>1, <3>6 DEF UsableSignal
        <3>7. CASE count = 24 BY <2>1, <3>7 DEF UsableSignal
        <3>8. QED
            BY <2>3, <3>1, <3>2, <3>3, <3>4, <3>5, <3>6, <3>7
    <2>4. QED
        BY <1>3, <2>2, <2>3
<1>4. QED
    BY <1>1, <1>2, <1>3

-----------------------------------------------------------------------------
(* Rows and levels                                                         *)

LEMMA LevelTypes ==
    ASSUME NEW rw \in StoredRows \cup {NoRow}, NEW s \in Skills
    PROVE  LevelIn(rw, s) \in {Absent} \cup LiveTiers
BY DEF StoredRows, NoRow, LevelIn

LEMMA ListedSkills ==
    ASSUME NEW rw \in StoredRows \cup {NoRow}
    PROVE  Listed(rw) \in SUBSET Skills
<1>1. CASE rw \in StoredRows
    BY <1>1 DEF StoredRows, Listed
<1>2. CASE rw = NoRow
    BY <1>2 DEF NoRow, Listed
<1>3. QED
    BY <1>1, <1>2

LEMMA LiveLevels == {Absent} \cup LiveTiers \subseteq Levels
BY DEF LiveTiers, Levels, Absent, Low, Medium, High

LEMMA LevelsAreIntegers == Levels \subseteq Int
BY DEF Levels, Absent, High

LEMMA ExcusedLevels ==
    ASSUME TypeOK, NEW r \in Roles, NEW t \in Topics
    PROVE  /\ excused[r][t] \in Levels /\ excused[r][t] >= excused[r][t]
           /\ raced[r][t] \in Levels /\ raced[r][t] >= raced[r][t]
<1>1. excused[r][t] \in Levels /\ raced[r][t] \in Levels
    BY DEF TypeOK
<1>2. excused[r][t] \in Int /\ raced[r][t] \in Int
    BY <1>1, LevelsAreIntegers
<1>3. QED
    BY <1>1, <1>2

\* Raising a history keeps its type, lowers nothing, and reaches the row.
LEMMA RaisedLevels ==
    ASSUME NEW levels \in [Roles -> [Topics -> Levels]], NEW r \in Roles,
           NEW topics \in SUBSET Topics, NEW rw \in StoredRows \cup {NoRow}
    PROVE  /\ Raised(levels, r, topics, rw) \in [Roles -> [Topics -> Levels]]
           /\ \A q \in Roles, t \in Topics :
                 Raised(levels, r, topics, rw)[q][t] >= levels[q][t]
           /\ \A t \in topics :
                 LevelIn(rw, SkillOf[t]) <= Raised(levels, r, topics, rw)[r][t]
<1> DEFINE shown(t) == LevelIn(rw, SkillOf[t])
           new == [t \in Topics |->
                     IF t \in topics THEN Larger(levels[r][t], shown(t)) ELSE levels[r][t]]
<1>1. \A t \in Topics : shown(t) \in Levels
    BY LevelTypes, LiveLevels, RefreshAssumption
<1>2. Raised(levels, r, topics, rw) = [levels EXCEPT ![r] = new]
    BY DEF Raised
<1>3. new \in [Topics -> Levels]
    BY <1>1 DEF Larger
<1>4. ASSUME NEW t \in Topics
      PROVE  /\ new[t] >= levels[r][t]
             /\ t \in topics => shown(t) <= new[t]
    <2>1. PICK l \in Levels : l = shown(t)
        BY <1>1
    <2>2. PICK m \in Levels : m = levels[r][t]
        OBVIOUS
    <2>3. l \in Int /\ m \in Int
        BY <2>1, <2>2, LevelsAreIntegers
    <2>4. new[t] = IF t \in topics THEN Larger(m, l) ELSE m
        BY <2>1, <2>2
    <2>5. QED
        BY <2>1, <2>2, <2>3, <2>4 DEF Larger
<1>5. ASSUME NEW q \in Roles, NEW t \in Topics
      PROVE  Raised(levels, r, topics, rw)[q][t] >= levels[q][t]
    <2>1. CASE q = r
        BY <1>2, <1>4, <2>1
    <2>2. CASE q # r
        <3>1. Raised(levels, r, topics, rw)[q][t] = levels[q][t]
            BY <1>2, <2>2
        <3>2. levels[q][t] \in Int
            BY LevelsAreIntegers
        <3>3. QED
            BY <3>1, <3>2
    <2>3. QED
        BY <2>1, <2>2
<1>6. QED
    BY <1>2, <1>3, <1>4, <1>5

\* A live result is a row that may be stored.
LEMMA LiveRowStored ==
    ASSUME NEW signal \in BOOLEAN, NEW himalayas, NEW tavily, NEW rw
    PROVE  LiveRow(signal, himalayas, tavily, rw) \in StoredRows
<1>1. Tier(signal, himalayas, tavily, rw) \in LiveTiers
    BY DEF Tier, LiveTiers
<1>2. QED
    BY <1>1 DEF LiveRow, StoredRows

\* A high tier comes of a skill the anchor lists too.
LEMMA HighIsAnchored ==
    ASSUME NEW signal \in BOOLEAN, NEW himalayas \in SUBSET Skills, NEW tavily,
           NEW rw \in StoredRows \cup {NoRow},
           NEW s \in Skills, LiveRow(signal, himalayas, tavily, rw)[s] = High
    PROVE  Listed(LiveRow(signal, himalayas, tavily, rw)) \cap Listed(rw) # {}
<1>1. Tier(signal, himalayas, tavily, rw) = High
    BY DEF LiveRow, Absent, High
<1>2. signal /\ Listed(rw) \cap himalayas # {}
    BY <1>1 DEF Tier, Anchor, Low, Medium, High
<1>3. PICK a \in himalayas : a \in Listed(rw)
    BY <1>2
<1>4. a \in Listed(LiveRow(signal, himalayas, tavily, rw))
    BY <1>1, <1>2, <1>3 DEF Listed, LiveRow, LiveSkills, Absent, High
<1>5. QED
    BY <1>3, <1>4

LEMMA LargestOfLevels ==
    ASSUME NEW S \in SUBSET Levels, S # {}
    PROVE  /\ LargestOf(S) \in S
           /\ \A m \in S : LargestOf(S) >= m
<1>1. \E l \in S : \A m \in S : l >= m
    <2> USE DEF Levels, Absent, High
    <2>1. CASE 4 \in S
        BY <2>1
    <2>2. CASE 4 \notin S /\ 3 \in S
        BY <2>2
    <2>3. CASE 4 \notin S /\ 3 \notin S /\ 2 \in S
        BY <2>3
    <2>4. CASE 4 \notin S /\ 3 \notin S /\ 2 \notin S /\ 1 \in S
        BY <2>4
    <2>5. CASE 4 \notin S /\ 3 \notin S /\ 2 \notin S /\ 1 \notin S
        <3>1. \A m \in S : m = 0
            BY <2>5
        <3>2. 0 \in S
            BY <3>1
        <3>3. QED
            BY <3>1, <3>2
    <2>6. QED
        BY <2>1, <2>2, <2>3, <2>4, <2>5
<1>2. QED
    BY <1>1 DEF LargestOf

LEMMA ComparedTypes ==
    ASSUME TypeOK, NEW r \in Roles, NEW t \in Topics
    PROVE  /\ LevelIn(row[r], SkillOf[t]) \in Levels
           /\ LevelsCompared(r, t) \in SUBSET Levels
           /\ LargestOf({Absent} \cup LevelsCompared(r, t)) \in Levels
           /\ \A l \in LevelsCompared(r, t) :
                 LargestOf({Absent} \cup LevelsCompared(r, t)) >= l
<1>1. SkillOf[t] \in Skills
    BY RefreshAssumption
<1>2. LevelIn(row[r], SkillOf[t]) \in Levels
    BY <1>1, LevelTypes, LiveLevels DEF TypeOK
<1>3. \A w \in Refreshers : LevelIn(previous[w], SkillOf[t]) \in Levels
    BY <1>1, LevelTypes, LiveLevels DEF TypeOK
<1>4. LevelsCompared(r, t) \in SUBSET Levels
    BY <1>3 DEF LevelsCompared
<1>5. {Absent} \cup LevelsCompared(r, t) \in SUBSET Levels
    BY <1>4, LiveLevels
<1>6. QED
    BY <1>2, <1>4, <1>5, LargestOfLevels

-----------------------------------------------------------------------------
(* Types and shape                                                         *)

LEMMA RefreshInit == Init => TypeOK /\ ShapeInv
<1> SUFFICES ASSUME Init
             PROVE  TypeOK /\ ShapeInv
    OBVIOUS
<1>1. TypeOK
    <2>1. /\ row \in [Roles -> StoredRows \cup {NoRow}]
          /\ live \in [Refreshers -> StoredRows \cup {NoRow}]
          /\ previous \in [Refreshers -> StoredRows \cup {NoRow}]
        BY DEF Init
    <2>2. /\ at \in [Refreshers -> Steps \cup {"idle"}]
          /\ todo \in [Refreshers -> Seq(Roles)]
          /\ risen \in [Refreshers -> SUBSET Skills]
          /\ matched \in [Refreshers -> SUBSET Topics]
        BY DEF Init
    <2>3. checking \in [Refreshers -> 0..NumRoles]
        BY RefreshAssumption DEF Init
    <2>4. /\ notes \in [Roles -> [Topics -> SUBSET LiveTiers]]
          /\ former \in [Roles -> SUBSET Skills]
        BY DEF Init
    <2>5. /\ excused \in [Roles -> [Topics -> Levels]]
          /\ raced \in [Roles -> [Topics -> Levels]]
          /\ lowest \in [Roles -> [Topics -> Levels \cup {Unshown}]]
          /\ highest \in [Roles -> [Topics -> Levels]]
        BY DEF Init, Levels, Absent, High
    <2>6. stale \subseteq Roles /\ completed \subseteq Topics /\ checked \subseteq Sessions
        BY DEF Init
    <2>7. crons \in Nat /\ months \in Nat /\ faults \in Nat
        BY DEF Init
    <2>8. QED
        BY <2>1, <2>2, <2>3, <2>4, <2>5, <2>6, <2>7 DEF TypeOK
<1>2. ShapeInv
    BY DEF Init, ShapeInv, Grounded, Refreshers
<1>3. QED
    BY <1>1, <1>2

\* Going on leaves every other batch alone, and this one in shape.
LEMMA ProceedShape ==
    ASSUME TypeOK, ShapeInv, NEW w \in Refreshers, todo[w] # <<>>,
           NEW skills \in SUBSET Skills, NEW topics \in SUBSET Topics,
           (skills = {} /\ topics = {}) \/ live[w] \in StoredRows,
           Proceed(w, skills, topics)
    PROVE  /\ risen' \in [Refreshers -> SUBSET Skills]
           /\ matched' \in [Refreshers -> SUBSET Topics]
           /\ todo' \in [Refreshers -> Seq(Roles)]
           /\ live' \in [Refreshers -> StoredRows \cup {NoRow}]
           /\ at' \in [Refreshers -> Steps \cup {"idle"}]
           /\ at'[w] \in Noting \cup {"ground", "idle"}
           /\ at'[w] \in Noting \cup {"ground"} => todo'[w] # <<>>
           /\ at'[w] \in Noting => live'[w] \in StoredRows
           /\ at'[w] # "create" => matched'[w] = {}
           /\ \A v \in Refreshers \ {w} :
                 /\ at'[v] = at[v] /\ todo'[v] = todo[v] /\ live'[v] = live[v]
                 /\ risen'[v] = risen[v] /\ matched'[v] = matched[v]
<1>1. /\ risen' = [risen EXCEPT ![w] = skills]
      /\ matched' = [matched EXCEPT ![w] = topics]
    BY DEF Proceed
<1>2. CASE skills = {} /\ topics = {}
    <2>1. Tail(todo[w]) \in Seq(Roles)
        BY DEF TypeOK
    <2>2. /\ todo' = [todo EXCEPT ![w] = Tail(todo[w])]
          /\ live' = [live EXCEPT ![w] = NoRow]
          /\ at' = [at EXCEPT ![w] = IF Tail(todo[w]) = <<>> THEN "idle" ELSE "ground"]
        BY <1>2 DEF Proceed, Goto
    <2>3. QED
        BY <1>1, <1>2, <2>1, <2>2 DEF TypeOK, Noting, Steps
<1>3. CASE ~(skills = {} /\ topics = {})
    <2>1. /\ todo' = todo /\ live' = live
          /\ at' = [at EXCEPT ![w] = IF topics = {} THEN "match" ELSE "create"]
        BY <1>3 DEF Proceed, Goto
    <2>2. QED
        BY <1>1, <1>3, <2>1 DEF TypeOK, Noting, Steps
<1>4. QED
    BY <1>2, <1>3

LEMMA ProceedKeepsShape ==
    ASSUME TypeOK, ShapeInv, NEW w \in Refreshers, todo[w] # <<>>, at[w] # "idle",
           NEW skills \in SUBSET Skills, NEW topics \in SUBSET Topics,
           (skills = {} /\ topics = {}) \/ live[w] \in StoredRows,
           \A s \in skills : live[w][s] # Absent,
           \A t \in topics : live[w][SkillOf[t]] # Absent,
           Proceed(w, skills, topics), UNCHANGED <<checking, checked>>
    PROVE  ShapeInv'
<1>1. ASSUME NEW v \in Refreshers
      PROVE  /\ at'[v] \in Grounded \cup {"ground"} => todo'[v] # <<>>
             /\ at'[v] \in Grounded => live'[v] \in StoredRows
             /\ at'[v] # "create" => matched'[v] = {}
             /\ at'[v] = "check" => checking'[v] \in Roles
             /\ at'[v] \in Noting =>
                   /\ \A s \in risen'[v] : live'[v][s] # Absent
                   /\ \A t \in matched'[v] : live'[v][SkillOf[t]] # Absent
    <2>1. CASE v = w
        <3>1. /\ at'[w] \in Noting \cup {"ground", "idle"}
              /\ at'[w] \in Noting \cup {"ground"} => todo'[w] # <<>>
              /\ at'[w] \in Noting => live'[w] \in StoredRows
              /\ at'[w] # "create" => matched'[w] = {}
            BY ProceedShape
        <3>2. /\ risen'[w] = skills /\ matched'[w] = topics
              /\ at'[w] \in Noting => live'[w] = live[w]
            <4>1. /\ risen'[w] = skills /\ matched'[w] = topics
                BY DEF Proceed, TypeOK
            <4>2. CASE skills = {} /\ topics = {}
                BY <4>1, <4>2 DEF Proceed, TypeOK, Goto, Noting
            <4>3. CASE ~(skills = {} /\ topics = {})
                BY <4>1, <4>3 DEF Proceed
            <4>4. QED
                BY <4>2, <4>3, <4>1
        <3>3. QED
            BY <2>1, <3>1, <3>2 DEF Grounded, Noting
    <2>2. CASE v # w
        <3>1. /\ at'[v] = at[v] /\ todo'[v] = todo[v] /\ live'[v] = live[v]
              /\ risen'[v] = risen[v] /\ matched'[v] = matched[v]
            BY <2>2, ProceedShape
        <3>2. QED
            BY <3>1 DEF ShapeInv
    <2>3. QED
        BY <2>1, <2>2
<1>2. ASSUME NEW v \in Sessions \ checked
      PROVE  at'[v] = "idle"
    <2>1. at[v] = "idle" /\ v \in Refreshers /\ v # w
        BY DEF ShapeInv, Refreshers
    <2>2. at'[v] = at[v]
        BY <2>1, ProceedShape
    <2>3. QED
        BY <2>1, <2>2
<1>3. QED
    BY <1>1, <1>2 DEF ShapeInv

\* The step of a batch that changes no table.
LEMMA QuietTypes ==
    ASSUME TypeOK, ShapeInv, NEW w \in Refreshers,
           CheckRole(w) \/ Ground(w) \/ Skip(w) \/ ReadPrevious(w) \/ MatchTopics(w)
    PROVE  TypeOK' /\ ShapeInv'
<1>1. CASE CheckRole(w)
    <2> DEFINE r == checking[w]
               left == IF StaleOrMissing(r) THEN Append(todo[w], r) ELSE todo[w]
    <2>1. r \in Roles /\ left \in Seq(Roles)
        BY <1>1 DEF CheckRole, ShapeInv, TypeOK
    <2>2. matched[w] = {}
        BY <1>1 DEF CheckRole, ShapeInv
    <2>3. todo' = [todo EXCEPT ![w] = left]
        BY <1>1 DEF CheckRole
    <2>4. CASE r < NumRoles
        <3>1. r + 1 \in Roles
            BY <2>1, <2>4, RefreshAssumption DEF Roles
        <3>2. checking' = [checking EXCEPT ![w] = r + 1] /\ UNCHANGED at
            BY <1>1, <2>4 DEF CheckRole
        <3>3. TypeOK'
            BY <1>1, <2>1, <2>3, <3>1, <3>2
               DEF CheckRole, TypeOK, tables, bounds, history, Roles
        <3>4. ShapeInv'
            BY <1>1, <2>1, <2>3, <3>1, <3>2
               DEF CheckRole, TypeOK, ShapeInv, tables, Grounded, Noting
        <3>5. QED
            BY <3>3, <3>4
    <2>5. CASE ~(r < NumRoles)
        <3>1. /\ checking' = [checking EXCEPT ![w] = 0]
              /\ at' = [at EXCEPT ![w] = IF left = <<>> THEN "idle" ELSE "ground"]
            BY <1>1, <2>5 DEF CheckRole, Goto
        <3>2. TypeOK'
            <4>1. checking' \in [Refreshers -> 0..NumRoles]
                BY <3>1, RefreshAssumption DEF TypeOK
            <4>2. at' \in [Refreshers -> Steps \cup {"idle"}]
                BY <3>1 DEF TypeOK, Steps
            <4>3. /\ UNCHANGED <<tables, bounds, history>>
                  /\ UNCHANGED <<live, previous, risen, matched, checked>>
                BY <1>1 DEF CheckRole
            <4>4. todo' \in [Refreshers -> Seq(Roles)]
                BY <2>1, <2>3 DEF TypeOK
            <4>5. QED
                BY <4>1, <4>2, <4>3, <4>4 DEF TypeOK, tables, bounds, history
        <3>3. w \in Sessions => w \in checked
            BY <1>1 DEF CheckRole, ShapeInv
        <3>4. ShapeInv'
            BY <1>1, <2>1, <2>2, <2>3, <3>1, <3>3
               DEF CheckRole, TypeOK, ShapeInv, tables, Grounded, Noting
        <3>5. QED
            BY <3>2, <3>4
    <2>6. QED
        BY <2>4, <2>5
<1>2. CASE Ground(w)
    <2>1. \E rw \in StoredRows : live' = [live EXCEPT ![w] = rw]
        <3>1. PICK a \in Answers[Role(w)] :
                 live' = [live EXCEPT ![w] =
                            LiveRow(UsableSignal(a.relevant, a.count), a.himalayas,
                                    a.tavily, row[Role(w)])]
            BY <1>2 DEF Ground
        <3>2. UsableSignal(a.relevant, a.count) \in BOOLEAN
            BY DEF UsableSignal
        <3>3. QED
            BY <3>1, <3>2, LiveRowStored
    <2>2. at' = [at EXCEPT ![w] = "read"] /\ at[w] = "ground"
        BY <1>2 DEF Ground, Goto
    <2>3. TypeOK'
        BY <1>2, <2>1, <2>2 DEF Ground, TypeOK, Steps, tables, bounds, history
    <2>4. ShapeInv'
        BY <1>2, <2>1, <2>2 DEF Ground, TypeOK, ShapeInv, Grounded, Noting
    <2>5. QED
        BY <2>3, <2>4
<1>3. CASE Skip(w)
    <2>1. /\ at[w] = "ground" /\ todo[w] # <<>> /\ Proceed(w, {}, {})
        BY <1>3 DEF Skip, ShapeInv
    <2>3. TypeOK'
        BY <1>3, <2>1, ProceedShape DEF Skip, TypeOK, tables, bounds, history
    <2>4. ShapeInv'
        BY <1>3, <2>1, ProceedKeepsShape DEF Skip
    <2>5. QED
        BY <2>3, <2>4
<1>4. CASE ReadPrevious(w)
    <2>1. at' = [at EXCEPT ![w] = "upsert"] /\ at[w] = "read"
        BY <1>4 DEF ReadPrevious, Goto
    <2>2. Role(w) \in Roles
        BY <2>1 DEF ShapeInv, TypeOK, Grounded, Role
    <2>3. previous' \in [Refreshers -> StoredRows \cup {NoRow}]
        BY <1>4, <2>2 DEF ReadPrevious, TypeOK
    <2>4. TypeOK'
        BY <1>4, <2>1, <2>3 DEF ReadPrevious, TypeOK, Steps, tables, bounds, history
    <2>5. ShapeInv'
        BY <1>4, <2>1 DEF ReadPrevious, TypeOK, ShapeInv, Grounded, Noting
    <2>6. QED
        BY <2>4, <2>5
<1>5. CASE MatchTopics(w)
    <2>1. /\ at[w] = "match" /\ todo[w] # <<>> /\ live[w] \in StoredRows
        BY <1>5 DEF MatchTopics, ShapeInv, Grounded
    <2>2. PICK s \in risen[w] :
             Proceed(w, risen[w] \ {s}, {t \in completed : SkillOf[t] = s})
        BY <1>5 DEF MatchTopics
    <2>3. /\ risen[w] \ {s} \in SUBSET Skills
          /\ {t \in completed : SkillOf[t] = s} \in SUBSET Topics
        BY DEF TypeOK
    <2>4. /\ \A u \in risen[w] \ {s} : live[w][u] # Absent
          /\ \A t \in {u \in completed : SkillOf[u] = s} :
                live[w][SkillOf[t]] # Absent
        BY <2>1, <2>2 DEF ShapeInv, Noting
    <2>5. TypeOK'
        BY <1>5, <2>1, <2>2, <2>3, ProceedShape
           DEF MatchTopics, TypeOK, tables, bounds, history
    <2>6. ShapeInv'
        BY <1>5, <2>1, <2>2, <2>3, <2>4, ProceedKeepsShape DEF MatchTopics
    <2>7. QED
        BY <2>5, <2>6
<1>6. QED
    BY <1>1, <1>2, <1>3, <1>4, <1>5

LEMMA UpsertTypes ==
    ASSUME TypeOK, ShapeInv, NEW w \in Refreshers, Upsert(w)
    PROVE  TypeOK' /\ ShapeInv'
<1>1. /\ at[w] = "upsert" /\ todo[w] # <<>> /\ live[w] \in StoredRows
      /\ Role(w) \in Roles
    BY DEF Upsert, ShapeInv, Grounded, TypeOK, Role
<1>2. PICK skills \in SUBSET Skills :
         skills = Risen(previous[w], live[w]) /\ Proceed(w, skills, {})
    BY DEF Upsert, Risen
<1>3. \A t \in Topics : LevelIn(live[w], SkillOf[t]) \in Levels
    BY <1>1, LevelTypes, LiveLevels, RefreshAssumption
<1>4. /\ row' = [row EXCEPT ![Role(w)] = live[w]]
      /\ stale' = stale \ {Role(w)}
      /\ previous' = [previous EXCEPT ![w] = NoRow]
    BY DEF Upsert
<1>5. /\ completed \in SUBSET Topics
      /\ excused \in [Roles -> [Topics -> Levels]]
      /\ raced \in [Roles -> [Topics -> Levels]]
    BY DEF TypeOK
<1>6. excused' \in [Roles -> [Topics -> Levels]]
    <2>1. Raised(excused, Role(w), completed, live[w]) \in [Roles -> [Topics -> Levels]]
        BY <1>1, <1>5, RaisedLevels
    <2>2. QED
        BY <1>5, <2>1 DEF Upsert
<1>7. raced' \in [Roles -> [Topics -> Levels]]
    <2>1. Raised(raced, Role(w), completed, live[w]) \in [Roles -> [Topics -> Levels]]
        BY <1>1, <1>5, RaisedLevels
    <2>2. QED
        BY <1>5, <2>1 DEF Upsert
<1>8. former' \in [Roles -> SUBSET Skills]
    <2>1. Listed(row[Role(w)]) \in SUBSET Skills
        BY <1>1, ListedSkills DEF TypeOK
    <2>2. former' = [former EXCEPT ![Role(w)] =
                       former[Role(w)] \cup Listed(row[Role(w)])]
        BY <1>1 DEF Upsert, TypeOK
    <2>3. QED
        BY <1>1, <2>1, <2>2 DEF TypeOK
<1>9. lowest' \in [Roles -> [Topics -> Levels \cup {Unshown}]]
    <2>1. [t \in Topics |-> Smaller(lowest[Role(w)][t], LevelIn(live[w], SkillOf[t]))]
            \in [Topics -> Levels \cup {Unshown}]
        BY <1>1, <1>3 DEF TypeOK, Smaller
    <2>2. lowest' = [lowest EXCEPT ![Role(w)] =
             [t \in Topics |->
                Smaller(lowest[Role(w)][t], LevelIn(live[w], SkillOf[t]))]]
        BY <1>1 DEF Upsert, TypeOK
    <2>3. QED
        BY <2>1, <2>2 DEF TypeOK
<1>10. highest' \in [Roles -> [Topics -> Levels]]
    <2>1. highest' = Raised(highest, Role(w), Topics, live[w])
        BY DEF Upsert
    <2>2. QED
        BY <1>1, <2>1, RaisedLevels DEF TypeOK
<1>11. TypeOK'
    <2>1. /\ risen' \in [Refreshers -> SUBSET Skills]
          /\ matched' \in [Refreshers -> SUBSET Topics]
          /\ todo' \in [Refreshers -> Seq(Roles)]
          /\ live' \in [Refreshers -> StoredRows \cup {NoRow}]
          /\ at' \in [Refreshers -> Steps \cup {"idle"}]
        BY <1>1, <1>2, ProceedShape
    <2>2. /\ row' \in [Roles -> StoredRows \cup {NoRow}]
          /\ previous' \in [Refreshers -> StoredRows \cup {NoRow}]
          /\ stale' \subseteq Roles
        BY <1>1, <1>4 DEF TypeOK
    <2>3. UNCHANGED <<completed, notes, checking, checked, crons, months, faults>>
        BY DEF Upsert, bounds
    <2>4. QED
        BY <1>8, <1>9, <1>10, <1>6, <1>7, <2>1, <2>2, <2>3 DEF TypeOK
<1>12. ShapeInv'
    <2>1. ASSUME NEW s \in skills
          PROVE  live[w][s] # Absent
        <3>1. s \in Skills /\ LevelIn(live[w], s) > LevelIn(previous[w], s)
            BY <1>2 DEF Risen, Significant
        <3>2. LevelIn(previous[w], s) \in Levels
            BY <3>1, LevelTypes, LiveLevels DEF TypeOK
        <3>3. LevelIn(live[w], s) # Absent
            BY <3>1, <3>2 DEF Levels, Absent, High
        <3>4. QED
            BY <1>1, <3>1, <3>3 DEF LevelIn, StoredRows
    <2>2. QED
        BY <1>1, <1>2, <2>1, ProceedKeepsShape DEF Upsert
<1>13. QED
    BY <1>11, <1>12

LEMMA CreateNoteTypes ==
    ASSUME TypeOK, ShapeInv, NEW w \in Refreshers, CreateNote(w)
    PROVE  TypeOK' /\ ShapeInv'
<1>1. /\ at[w] = "create" /\ todo[w] # <<>> /\ live[w] \in StoredRows
      /\ Role(w) \in Roles
    BY DEF CreateNote, ShapeInv, Grounded, TypeOK, Role
<1>2. PICK t \in matched[w] :
         /\ notes' = [notes EXCEPT ![Role(w)][t] =
                        notes[Role(w)][t] \cup {live[w][SkillOf[t]]}]
         /\ Proceed(w, risen[w], matched[w] \ {t})
    BY DEF CreateNote
<1>3. t \in Topics /\ risen[w] \in SUBSET Skills /\ matched[w] \ {t} \in SUBSET Topics
    BY DEF TypeOK
<1>4. live[w][SkillOf[t]] \in LiveTiers
    <2>1. SkillOf[t] \in Skills /\ live[w][SkillOf[t]] # Absent
        BY <1>1, <1>2, <1>3, RefreshAssumption DEF ShapeInv, Noting
    <2>2. QED
        BY <1>1, <2>1 DEF StoredRows
<1>5. notes' \in [Roles -> [Topics -> SUBSET LiveTiers]]
    BY <1>1, <1>2, <1>3, <1>4 DEF TypeOK
<1>6. TypeOK'
    <2>1. /\ risen' \in [Refreshers -> SUBSET Skills]
          /\ matched' \in [Refreshers -> SUBSET Topics]
          /\ todo' \in [Refreshers -> Seq(Roles)]
          /\ live' \in [Refreshers -> StoredRows \cup {NoRow}]
          /\ at' \in [Refreshers -> Steps \cup {"idle"}]
        BY <1>1, <1>2, <1>3, ProceedShape
    <2>2. /\ UNCHANGED <<row, stale, completed, checking, previous, checked>>
          /\ UNCHANGED <<crons, months, faults>>
          /\ UNCHANGED <<excused, raced, former, lowest, highest>>
        BY DEF CreateNote, bounds, history
    <2>3. QED
        BY <1>5, <2>1, <2>2 DEF TypeOK
<1>7. ShapeInv'
    <2>1. /\ \A s \in risen[w] : live[w][s] # Absent
          /\ \A u \in matched[w] \ {t} : live[w][SkillOf[u]] # Absent
        BY <1>1 DEF ShapeInv, Noting
    <2>2. QED
        BY <1>1, <1>2, <1>3, <2>1, ProceedKeepsShape DEF CreateNote
<1>8. QED
    BY <1>6, <1>7

LEMMA DieTypes ==
    ASSUME TypeOK, ShapeInv, NEW w \in Refreshers, Die(w)
    PROVE  TypeOK' /\ ShapeInv'
<1>1. /\ at' = [at EXCEPT ![w] = "idle"]
      /\ todo' = [todo EXCEPT ![w] = <<>>]
      /\ checking' = [checking EXCEPT ![w] = 0]
      /\ live' = [live EXCEPT ![w] = NoRow]
      /\ previous' = [previous EXCEPT ![w] = NoRow]
      /\ risen' = [risen EXCEPT ![w] = {}]
      /\ matched' = [matched EXCEPT ![w] = {}]
      /\ at[w] # "idle" /\ faults' = faults + 1
    BY DEF Die, Goto
<1>2. UNCHANGED <<row, stale, completed, notes, checked, crons, months, raced, former,
                  lowest, highest>>
    BY DEF Die, tables
<1>3. excused' \in [Roles -> [Topics -> Levels]]
    <2>1. CASE at[w] \notin {"match", "create"}
        BY <2>1 DEF Die, TypeOK
    <2>2. CASE at[w] \in {"match", "create"}
        <3>1. Role(w) \in Roles /\ live[w] \in StoredRows
            BY <2>2 DEF ShapeInv, Grounded, TypeOK, Role
        <3>2. \A t \in Topics : live[w][SkillOf[t]] \in Levels
            BY <3>1, LiveLevels, RefreshAssumption DEF StoredRows
        <3>3. [t \in Topics |->
                 IF Owes(w, t) THEN Larger(excused[Role(w)][t], live[w][SkillOf[t]])
                 ELSE excused[Role(w)][t]] \in [Topics -> Levels]
            BY <3>1, <3>2 DEF TypeOK, Larger
        <3>4. excused' = [excused EXCEPT ![Role(w)] = [t \in Topics |->
                 IF Owes(w, t) THEN Larger(excused[Role(w)][t], live[w][SkillOf[t]])
                 ELSE excused[Role(w)][t]]]
            BY <2>2, <3>1 DEF Die, TypeOK
        <3>5. QED
            BY <3>3, <3>4 DEF TypeOK
    <2>3. QED
        BY <2>1, <2>2
<1>4. TypeOK'
    BY <1>1, <1>2, <1>3, RefreshAssumption DEF TypeOK
<1>5. w \in Sessions => w \in checked
    BY <1>1 DEF ShapeInv
<1>6. ShapeInv'
    BY <1>1, <1>2, <1>5 DEF TypeOK, ShapeInv, Grounded, Noting
<1>7. QED
    BY <1>4, <1>6

\* A batch begins.
LEMMA StartTypes ==
    ASSUME TypeOK, ShapeInv, StartCron \/ \E w \in Sessions : StartSession(w)
    PROVE  TypeOK' /\ ShapeInv'
<1>1. CASE StartCron
    <2>1. Cron \in Refreshers /\ Cron \notin Sessions
        BY RefreshAssumption DEF Refreshers
    <2>2. [i \in Roles |-> i] \in Seq(Roles) /\ [i \in Roles |-> i] # <<>>
        <3>1. NumRoles \in Nat /\ NumRoles >= 1
            BY RefreshAssumption
        <3>2. [i \in 1..NumRoles |-> i] \in Seq(1..NumRoles)
            BY <3>1
        <3>3. DOMAIN [i \in 1..NumRoles |-> i] # {}
            BY <3>1
        <3>4. QED
            BY <3>2, <3>3 DEF Roles
    <2>3. /\ at[Cron] = "idle"
          /\ at' = [at EXCEPT ![Cron] = "ground"]
          /\ todo' = [todo EXCEPT ![Cron] = [i \in Roles |-> i]]
          /\ crons' = crons + 1
        BY <1>1 DEF StartCron, Goto
    <2>4. TypeOK'
        BY <1>1, <2>1, <2>2, <2>3 DEF StartCron, TypeOK, Steps, tables, history
    <2>5. matched[Cron] = {}
        BY <2>1, <2>3 DEF ShapeInv
    <2>6. ShapeInv'
        <3>1. at'[Cron] = "ground" /\ todo'[Cron] # <<>> /\ matched'[Cron] = {}
            BY <1>1, <2>1, <2>2, <2>3, <2>5 DEF StartCron, TypeOK
        <3>2. \A w \in Refreshers \ {Cron} : at'[w] = at[w] /\ todo'[w] = todo[w]
            BY <2>1, <2>3 DEF TypeOK
        <3>3. UNCHANGED <<matched, live, checking, risen, checked>>
            BY <1>1 DEF StartCron
        <3>4. QED
            BY <2>1, <3>1, <3>2, <3>3 DEF ShapeInv, Grounded, Noting, Refreshers
    <2>7. QED
        BY <2>4, <2>6
<1>2. ASSUME NEW w \in Sessions, StartSession(w)
      PROVE  TypeOK' /\ ShapeInv'
    <2>1. w \in Refreshers /\ w \notin checked /\ matched[w] = {} /\ 1 \in Roles
        <3>1. w \in Refreshers /\ w \notin checked
            BY <1>2 DEF StartSession, Refreshers
        <3>2. at[w] = "idle"
            BY <3>1, <1>2 DEF ShapeInv
        <3>3. QED
            BY <3>1, <3>2, RefreshAssumption DEF ShapeInv, Roles
    <2>2. /\ checked' = checked \cup {w}
          /\ checking' = [checking EXCEPT ![w] = 1]
          /\ at' = [at EXCEPT ![w] = "check"]
        BY <1>2 DEF StartSession, Goto
    <2>3. TypeOK'
        BY <1>2, <2>1, <2>2
           DEF StartSession, TypeOK, Steps, Roles, tables, bounds, history
    <2>4. ShapeInv'
        BY <1>2, <2>1, <2>2 DEF StartSession, TypeOK, ShapeInv, Grounded, Noting
    <2>5. QED
        BY <2>3, <2>4
<1>3. QED
    BY <1>1, <1>2

\* A topic is completed, or a row ages.
LEMMA AroundTypes ==
    ASSUME TypeOK, ShapeInv,
           (\E t \in Topics : Complete(t)) \/ (\E r \in Roles : RowAges(r))
    PROVE  TypeOK' /\ ShapeInv'
<1>1. ASSUME NEW t \in Topics, Complete(t)
      PROVE  TypeOK' /\ ShapeInv'
    <2>1. \A r \in Roles : /\ LevelIn(row[r], SkillOf[t]) \in Levels
                           /\ LargestOf({Absent} \cup LevelsCompared(r, t)) \in Levels
        BY ComparedTypes
    <2>2. /\ excused' = [r \in Roles |-> [excused[r] EXCEPT ![t] =
                Larger(excused[r][t], LevelIn(row[r], SkillOf[t]))]]
          /\ raced' = [r \in Roles |-> [raced[r] EXCEPT ![t] =
                Larger(raced[r][t], LargestOf({Absent} \cup LevelsCompared(r, t)))]]
        BY <1>1 DEF Complete, TypeOK
    <2>3. /\ excused' \in [Roles -> [Topics -> Levels]]
          /\ raced' \in [Roles -> [Topics -> Levels]]
        BY <2>1, <2>2 DEF TypeOK, Larger
    <2>4. completed' \subseteq Topics
        BY <1>1 DEF Complete, TypeOK
    <2>5. TypeOK'
        BY <1>1, <2>3, <2>4 DEF Complete, TypeOK, batch, bounds
    <2>6. ShapeInv'
        BY <1>1 DEF Complete, ShapeInv, batch
    <2>7. QED
        BY <2>5, <2>6
<1>2. ASSUME NEW r \in Roles, RowAges(r)
      PROVE  TypeOK' /\ ShapeInv'
    BY <1>2 DEF RowAges, TypeOK, ShapeInv, batch, history
<1>3. QED
    BY <1>1, <1>2

THEOREM RefreshShape == Spec => [](TypeOK /\ ShapeInv)
<1>1. Init => TypeOK /\ ShapeInv
    BY RefreshInit
<1>2. TypeOK /\ ShapeInv /\ [Next]_vars => TypeOK' /\ ShapeInv'
    <2> SUFFICES ASSUME TypeOK, ShapeInv, [Next]_vars
                 PROVE  TypeOK' /\ ShapeInv'
        OBVIOUS
    <2>1. CASE StartCron \/ \E w \in Sessions : StartSession(w)
        BY <2>1, StartTypes
    <2>2. ASSUME NEW w \in Refreshers, BatchStep(w) \/ Die(w)
          PROVE  TypeOK' /\ ShapeInv'
        BY <2>2, QuietTypes, UpsertTypes, CreateNoteTypes, DieTypes DEF BatchStep
    <2>3. CASE (\E t \in Topics : Complete(t)) \/ (\E r \in Roles : RowAges(r))
        BY <2>3, AroundTypes
    <2>4. CASE UNCHANGED vars
        BY <2>4 DEF TypeOK, ShapeInv, vars
    <2>5. QED
        BY <2>1, <2>2, <2>3, <2>4 DEF Next
<1>3. QED
    BY <1>1, <1>2, PTL DEF Spec

\* Every variable has its type, and no fallback is ever stored.
THEOREM RefreshTypes == Spec => []TypeOK
BY RefreshShape, PTL

\* What a batch has at hand leaves it only by its own steps.
LEMMA StepFrame ==
    ASSUME TypeOK, ShapeInv, NEW w \in Refreshers, BatchStep(w) \/ Die(w)
    PROVE  \A v \in Refreshers \ {w} :
              /\ at'[v] = at[v] /\ todo'[v] = todo[v] /\ live'[v] = live[v]
              /\ previous'[v] = previous[v]
              /\ risen'[v] = risen[v] /\ matched'[v] = matched[v]
<1>1. CASE CheckRole(w)
    <2>1. /\ UNCHANGED <<live, previous, risen, matched>>
          /\ \E left : todo' = [todo EXCEPT ![w] = left]
          /\ at' = at \/ \E i : at' = [at EXCEPT ![w] = i]
        BY <1>1 DEF CheckRole, Goto
    <2>2. QED
        BY <2>1 DEF TypeOK
<1>2. CASE Ground(w)
    <2>1. /\ UNCHANGED <<previous, risen, matched, todo>>
          /\ at' = [at EXCEPT ![w] = "read"]
          /\ \E rw : live' = [live EXCEPT ![w] = rw]
        BY <1>2 DEF Ground, Goto
    <2>2. QED
        BY <2>1 DEF TypeOK
<1>3. CASE ReadPrevious(w)
    BY <1>3 DEF ReadPrevious, Goto, TypeOK
<1>4. CASE Die(w)
    BY <1>4 DEF Die, Goto, TypeOK
<1>5. CASE Skip(w) \/ Upsert(w) \/ MatchTopics(w) \/ CreateNote(w)
    <2>1. \A v \in Refreshers \ {w} : previous'[v] = previous[v]
        BY <1>5 DEF Skip, Upsert, MatchTopics, CreateNote, TypeOK
    <2>2. todo[w] # <<>> /\ (at[w] # "ground" => live[w] \in StoredRows)
        BY <1>5 DEF Skip, Upsert, MatchTopics, CreateNote, ShapeInv, Grounded
    <2>3. PICK skills \in SUBSET Skills, topics \in SUBSET Topics :
             /\ Proceed(w, skills, topics)
             /\ at[w] = "ground" => skills = {} /\ topics = {}
        <3>1. CASE Skip(w)
            BY <3>1 DEF Skip
        <3>2. CASE Upsert(w)
            BY <3>2 DEF Upsert, Risen
        <3>3. CASE MatchTopics(w)
            <4>1. PICK s \in risen[w] :
                     Proceed(w, risen[w] \ {s}, {t \in completed : SkillOf[t] = s})
                BY <3>3 DEF MatchTopics
            <4>2. /\ risen[w] \ {s} \in SUBSET Skills
                  /\ {t \in completed : SkillOf[t] = s} \in SUBSET Topics
                BY DEF TypeOK
            <4>3. at[w] = "match"
                BY <3>3 DEF MatchTopics
            <4>4. QED
                BY <4>1, <4>2, <4>3
        <3>4. CASE CreateNote(w)
            <4>1. PICK t \in matched[w] : Proceed(w, risen[w], matched[w] \ {t})
                BY <3>4 DEF CreateNote
            <4>2. risen[w] \in SUBSET Skills /\ matched[w] \ {t} \in SUBSET Topics
                BY DEF TypeOK
            <4>3. at[w] = "create"
                BY <3>4 DEF CreateNote
            <4>4. QED
                BY <4>1, <4>2, <4>3
        <3>5. QED
            BY <1>5, <3>1, <3>2, <3>3, <3>4
    <2>4. QED
        BY <2>1, <2>2, <2>3, ProceedShape
<1>6. QED
    BY <1>1, <1>2, <1>3, <1>4, <1>5 DEF BatchStep

-----------------------------------------------------------------------------
(* A rise reaches the learner                                              *)

\* Batch w still owes a note on t, about role r, of level l or more.
Owing(w, r, t, l) ==
    /\ at[w] \in Noting /\ Role(w) = r
    /\ Owes(w, t)
    /\ LevelIn(live[w], SkillOf[t]) >= l

\* Nobody is excused less, nor is less lost.
Kept(r, t) ==
    /\ excused'[r][t] \in Levels /\ excused'[r][t] >= excused[r][t]
    /\ raced'[r][t] \in Levels /\ raced'[r][t] >= raced[r][t]

\* The row a batch compares with is covered as well as the row it overwrites:
\* what another batch wrote in between is of no account.
CoverInv ==
    /\ \A r \in Roles, t \in completed, l \in Levels :
          l = LevelIn(row[r], SkillOf[t]) => Covered(r, t, l)
    /\ \A w \in Refreshers, r \in Roles, t \in completed, l \in Levels :
          at[w] = "upsert" /\ r = Role(w) /\ l = LevelIn(previous[w], SkillOf[t])
             => Covered(r, t, l)

LEMMA HistoryKept ==
    ASSUME TypeOK, UNCHANGED <<excused, raced>>
    PROVE  \A r \in Roles, t \in Topics : Kept(r, t)
BY ExcusedLevels DEF Kept

LEMMA LevelAtMost ==
    ASSUME TypeOK, NEW r \in Roles, NEW t \in Topics, NEW l \in Levels, NEW m \in Levels,
           m <= l, Covered(r, t, l)
    PROVE  Covered(r, t, m)
<1>1. /\ excused[r][t] \in Levels /\ raced[r][t] \in Levels
      /\ notes[r][t] \in SUBSET LiveTiers
    BY DEF TypeOK
<1>2. \A w \in Refreshers : LevelIn(live[w], SkillOf[t]) \in Levels
    BY LevelTypes, LiveLevels, RefreshAssumption DEF TypeOK
<1>3. CASE l <= excused[r][t] \/ l <= raced[r][t]
    BY <1>1, <1>3 DEF Covered, Told, Levels, Absent, High
<1>4. CASE \E n \in notes[r][t] : n >= l
    <2>1. PICK n \in notes[r][t] : n >= l
        BY <1>4
    <2>2. n \in Int
        BY <1>1 DEF LiveTiers, Low, Medium, High
    <2>3. QED
        BY <2>1, <2>2 DEF Covered, Told, Levels, Absent, High
<1>5. CASE \E w \in Refreshers :
              /\ at[w] \in {"match", "create"} /\ Role(w) = r
              /\ Owes(w, t)
              /\ LevelIn(live[w], SkillOf[t]) >= l
    BY <1>2, <1>5 DEF Covered, Told, Levels, Absent, High
<1>6. QED
    BY <1>3, <1>4, <1>5 DEF Covered, Told

\* A step that takes nothing back of what was excused, noted or owed.
LEMMA StaysCovered ==
    ASSUME TypeOK, NEW r \in Roles, NEW t \in Topics, NEW l \in Levels, Covered(r, t, l),
           Kept(r, t), notes[r][t] \subseteq notes'[r][t],
           \A w \in Refreshers :
              Owing(w, r, t, l) =>
                 \/ Owing(w, r, t, l)'
                 \/ \E n \in notes'[r][t] : n >= l
                 \/ l <= excused'[r][t]
    PROVE  Covered(r, t, l)'
<1>1. CASE l <= excused[r][t]
    <2>1. PICK old \in Levels, new \in Levels :
             old = excused[r][t] /\ new = excused'[r][t] /\ new >= old
        BY ExcusedLevels DEF Kept
    <2>2. l <= excused'[r][t]
        BY <1>1, <2>1, LevelsAreIntegers
    <2>3. QED
        BY <2>2 DEF Covered, Told
<1>2. CASE l <= raced[r][t]
    <2>1. PICK old \in Levels, new \in Levels :
             old = raced[r][t] /\ new = raced'[r][t] /\ new >= old
        BY ExcusedLevels DEF Kept
    <2>2. l <= raced'[r][t]
        BY <1>2, <2>1, LevelsAreIntegers
    <2>3. QED
        BY <2>2 DEF Covered
<1>3. CASE \E n \in notes[r][t] : n >= l
    BY <1>3 DEF Covered, Told
<1>4. CASE \E w \in Refreshers :
              /\ at[w] \in {"match", "create"} /\ Role(w) = r
              /\ Owes(w, t)
              /\ LevelIn(live[w], SkillOf[t]) >= l
    BY <1>4 DEF Covered, Told, Owing, Noting
<1>5. QED
    BY <1>1, <1>2, <1>3, <1>4 DEF Covered, Told

\* What a batch owes does not depend on the other ones.
LEMMA OthersOwe ==
    ASSUME NEW w \in Refreshers, NEW r, NEW t, NEW l,
           at'[w] = at[w] /\ todo'[w] = todo[w] /\ live'[w] = live[w],
           risen'[w] = risen[w] /\ matched'[w] = matched[w],
           completed \subseteq completed',
           Owing(w, r, t, l)
    PROVE  Owing(w, r, t, l)'
BY DEF Owing, Owes, Role, LevelIn

\* A batch that is not at its notes takes nothing back.
LEMMA OutsideNoting ==
    ASSUME TypeOK, NEW w \in Refreshers, at[w] \notin Noting,
           \A v \in Refreshers \ {w} :
              /\ at'[v] = at[v] /\ todo'[v] = todo[v] /\ live'[v] = live[v]
              /\ risen'[v] = risen[v] /\ matched'[v] = matched[v],
           UNCHANGED <<completed, notes>>,
           NEW r \in Roles, NEW t \in Topics, NEW l \in Levels,
           Kept(r, t), Covered(r, t, l)
    PROVE  Covered(r, t, l)'
<1>1. \A v \in Refreshers : Owing(v, r, t, l) => Owing(v, r, t, l)'
    <2> SUFFICES ASSUME NEW v \in Refreshers, Owing(v, r, t, l)
                 PROVE  Owing(v, r, t, l)'
        OBVIOUS
    <2>1. v # w
        BY DEF Owing
    <2>2. QED
        BY <2>1, OthersOwe
<1>2. QED
    BY <1>1, StaysCovered

\* The start of a batch and its steps up to the second reading of the row.
LEMMA EarlyKeepsCover ==
    ASSUME TypeOK, ShapeInv, CoverInv, NEW w \in Refreshers,
           at[w] \notin Noting, at'[w] # "upsert",
           \A v \in Refreshers \ {w} :
              /\ at'[v] = at[v] /\ todo'[v] = todo[v] /\ live'[v] = live[v]
              /\ risen'[v] = risen[v] /\ matched'[v] = matched[v],
           UNCHANGED <<row, previous, completed, notes, excused, raced>>
    PROVE  CoverInv'
<1>1. \A r \in Roles, t \in Topics : Kept(r, t)
    BY HistoryKept
<1>2. ASSUME NEW r \in Roles, NEW t \in completed, NEW l \in Levels, Covered(r, t, l)
      PROVE  Covered(r, t, l)'
    <2>1. t \in Topics
        BY DEF TypeOK
    <2>2. QED
        BY <1>1, <1>2, <2>1, OutsideNoting
<1>3. ASSUME NEW r \in Roles, NEW t \in completed', NEW l \in Levels,
             l = LevelIn(row'[r], SkillOf[t])
      PROVE  Covered(r, t, l)'
    BY <1>2, <1>3 DEF CoverInv
<1>4. ASSUME NEW v \in Refreshers, NEW r \in Roles, NEW t \in completed', NEW l \in Levels,
             at'[v] = "upsert", r = Role(v)', l = LevelIn(previous'[v], SkillOf[t])
      PROVE  Covered(r, t, l)'
    <2>1. at[v] = "upsert" /\ r = Role(v)
        BY <1>4 DEF Role
    <2>2. QED
        BY <1>2, <1>4, <2>1 DEF CoverInv
<1>5. QED
    BY <1>3, <1>4 DEF CoverInv, LevelIn

LEMMA EarlySteps ==
    ASSUME TypeOK, ShapeInv, CoverInv,
           \/ StartCron
           \/ \E w \in Sessions : StartSession(w)
           \/ \E w \in Refreshers : CheckRole(w) \/ Ground(w) \/ Skip(w)
    PROVE  CoverInv'
<1>1. CASE StartCron
    <2>1. Cron \in Refreshers /\ at[Cron] = "idle"
        BY <1>1 DEF StartCron, Refreshers
    <2>2. /\ at' = [at EXCEPT ![Cron] = "ground"]
          /\ todo' = [todo EXCEPT ![Cron] = [i \in Roles |-> i]]
          /\ UNCHANGED <<row, previous, completed, notes, excused, raced, live, risen,
                         matched>>
        BY <1>1 DEF StartCron, Goto, tables, history
    <2>3. QED
        BY <2>1, <2>2, EarlyKeepsCover DEF TypeOK, Noting
<1>2. ASSUME NEW w \in Sessions, StartSession(w)
      PROVE  CoverInv'
    <2>1. w \in Refreshers /\ at[w] = "idle"
        BY <1>2 DEF StartSession, Refreshers, ShapeInv
    <2>2. /\ at' = [at EXCEPT ![w] = "check"]
          /\ UNCHANGED <<row, previous, completed, notes, excused, raced, live, risen,
                         matched, todo>>
        BY <1>2 DEF StartSession, Goto, tables, history
    <2>3. QED
        BY <2>1, <2>2, EarlyKeepsCover DEF TypeOK, Noting
<1>3. ASSUME NEW w \in Refreshers, CheckRole(w)
      PROVE  CoverInv'
    <2>1. /\ at[w] = "check"
          /\ UNCHANGED <<row, previous, completed, notes, excused, raced, live, risen,
                         matched>>
          /\ \E left : todo' = [todo EXCEPT ![w] = left]
          /\ at' = at \/ \E i \in {"idle", "ground"} : at' = [at EXCEPT ![w] = i]
        BY <1>3 DEF CheckRole, Goto, tables, history
    <2>2. at'[w] # "upsert" /\ \A v \in Refreshers \ {w} : at'[v] = at[v]
        BY <2>1 DEF TypeOK
    <2>3. QED
        BY <2>1, <2>2, EarlyKeepsCover DEF TypeOK, Noting
<1>4. ASSUME NEW w \in Refreshers, Ground(w)
      PROVE  CoverInv'
    <2>1. /\ at[w] = "ground"
          /\ at' = [at EXCEPT ![w] = "read"]
          /\ UNCHANGED <<row, previous, completed, notes, excused, raced, risen, matched,
                         todo>>
          /\ \E rw : live' = [live EXCEPT ![w] = rw]
        BY <1>4 DEF Ground, Goto, tables, history
    <2>2. QED
        BY <2>1, EarlyKeepsCover DEF TypeOK, Noting
<1>5. ASSUME NEW w \in Refreshers, Skip(w)
      PROVE  CoverInv'
    <2>1. /\ at[w] = "ground" /\ todo[w] # <<>> /\ Proceed(w, {}, {})
          /\ UNCHANGED <<row, previous, completed, notes, excused, raced>>
        BY <1>5 DEF Skip, ShapeInv, tables, history
    <2>2. /\ at'[w] \in Noting \cup {"ground", "idle"}
          /\ \A v \in Refreshers \ {w} :
                /\ at'[v] = at[v] /\ todo'[v] = todo[v] /\ live'[v] = live[v]
                /\ risen'[v] = risen[v] /\ matched'[v] = matched[v]
        BY <2>1, ProceedShape
    <2>3. QED
        BY <2>1, <2>2, EarlyKeepsCover DEF Noting
<1>6. QED
    BY <1>1, <1>2, <1>3, <1>4, <1>5

\* What is compared with is what is covered.
LEMMA ReadingKeepsCover ==
    ASSUME TypeOK, ShapeInv, CoverInv, NEW w \in Refreshers, ReadPrevious(w)
    PROVE  CoverInv'
<1>1. /\ at[w] = "read"
      /\ at' = [at EXCEPT ![w] = "upsert"]
      /\ previous' = [previous EXCEPT ![w] = row[Role(w)]]
      /\ UNCHANGED <<row, completed, notes, excused, raced, todo, live, risen, matched>>
    BY DEF ReadPrevious, Goto, tables, history
<1>2. ASSUME NEW r \in Roles, NEW t \in completed, NEW l \in Levels, Covered(r, t, l)
      PROVE  Covered(r, t, l)'
    <2>1. t \in Topics /\ Kept(r, t)
        BY <1>1, HistoryKept DEF TypeOK
    <2>2. QED
        BY <1>1, <1>2, <2>1, OutsideNoting DEF TypeOK, Noting
<1>3. ASSUME NEW r \in Roles, NEW t \in completed', NEW l \in Levels,
             l = LevelIn(row'[r], SkillOf[t])
      PROVE  Covered(r, t, l)'
    BY <1>1, <1>2, <1>3 DEF CoverInv
<1>4. ASSUME NEW v \in Refreshers, NEW r \in Roles, NEW t \in completed', NEW l \in Levels,
             at'[v] = "upsert", r = Role(v)', l = LevelIn(previous'[v], SkillOf[t])
      PROVE  Covered(r, t, l)'
    <2>1. r = Role(v) /\ t \in completed
        BY <1>1, <1>4 DEF Role
    <2>2. CASE v = w
        <3>1. previous'[w] = row[r]
            BY <1>1, <2>1, <2>2 DEF TypeOK
        <3>2. QED
            BY <1>2, <1>4, <2>1, <2>2, <3>1 DEF CoverInv
    <2>3. CASE v # w
        <3>1. at[v] = "upsert" /\ previous'[v] = previous[v]
            BY <1>1, <1>4, <2>3 DEF TypeOK
        <3>2. QED
            BY <1>2, <1>4, <2>1, <3>1 DEF CoverInv
    <2>4. QED
        BY <2>2, <2>3
<1>5. QED
    BY <1>3, <1>4 DEF CoverInv, LevelIn

\* Storing a row takes no excuse back.
LEMMA UpsertExcuses ==
    ASSUME TypeOK, ShapeInv, NEW w \in Refreshers, Upsert(w)
    PROVE  \A r \in Roles, t \in Topics : Kept(r, t)
<1>1. /\ Role(w) \in Roles /\ live[w] \in StoredRows \cup {NoRow}
      /\ completed \in SUBSET Topics
      /\ excused \in [Roles -> [Topics -> Levels]]
      /\ raced \in [Roles -> [Topics -> Levels]]
    BY DEF Upsert, ShapeInv, Grounded, TypeOK, Role
<1>2. /\ excused' = excused \/ excused' = Raised(excused, Role(w), completed, live[w])
      /\ raced' = raced \/ raced' = Raised(raced, Role(w), completed, live[w])
    BY DEF Upsert
<1>3. /\ excused' \in [Roles -> [Topics -> Levels]]
      /\ raced' \in [Roles -> [Topics -> Levels]]
    BY UpsertTypes DEF TypeOK
<1>4. \A r \in Roles, t \in Topics : excused'[r][t] >= excused[r][t]
    BY <1>1, <1>2, RaisedLevels, ExcusedLevels
<1>5. \A r \in Roles, t \in Topics : raced'[r][t] >= raced[r][t]
    BY <1>1, <1>2, RaisedLevels, ExcusedLevels
<1>6. QED
    BY <1>3, <1>4, <1>5 DEF Kept

\* What is written is covered: it was before, or the batch owes it now, or the
\* row is the role's first, or the batch compares it with nothing though another
\* one has stored a row.
LEMMA UpsertKeepsCover ==
    ASSUME TypeOK, ShapeInv, CoverInv, NEW w \in Refreshers, Upsert(w)
    PROVE  CoverInv'
<1>1. /\ at[w] = "upsert" /\ todo[w] # <<>> /\ live[w] \in StoredRows
      /\ Role(w) \in Roles
    BY DEF Upsert, ShapeInv, Grounded, TypeOK, Role
<1>2. PICK skills \in SUBSET Skills :
         skills = Risen(previous[w], live[w]) /\ Proceed(w, skills, {})
    BY DEF Upsert, Risen
<1>3. /\ row' = [row EXCEPT ![Role(w)] = live[w]]
      /\ previous' = [previous EXCEPT ![w] = NoRow]
      /\ UNCHANGED <<completed, notes>>
    BY DEF Upsert
<1>4. /\ at'[w] \in Noting \cup {"ground", "idle"}
      /\ \A v \in Refreshers \ {w} :
            /\ at'[v] = at[v] /\ todo'[v] = todo[v] /\ live'[v] = live[v]
            /\ risen'[v] = risen[v] /\ matched'[v] = matched[v]
    BY <1>1, <1>2, ProceedShape
<1>5. completed \in SUBSET Topics
    BY DEF TypeOK
<1>6. \A t \in Topics : LevelIn(live[w], SkillOf[t]) \in Levels
    BY <1>1, LevelTypes, LiveLevels, RefreshAssumption
<1>7. \A r \in Roles, t \in Topics : Kept(r, t)
    BY UpsertExcuses
<1>8. ASSUME NEW r \in Roles, NEW t \in completed, NEW l \in Levels, Covered(r, t, l)
      PROVE  Covered(r, t, l)'
    <2>1. t \in Topics /\ Kept(r, t)
        BY <1>5, <1>7
    <2>2. QED
        BY <1>1, <1>3, <1>4, <1>8, <2>1, OutsideNoting DEF Noting
<1>9. ASSUME NEW t \in completed, NEW l \in Levels, l = LevelIn(live[w], SkillOf[t])
      PROVE  \A r \in Roles : r = Role(w) => Covered(r, t, l)'
    <2>1. SUFFICES ASSUME NEW r \in Roles, r = Role(w)
                   PROVE  Covered(r, t, l)'
        OBVIOUS
    <2>2. PICK p \in Levels : p = LevelIn(previous[w], SkillOf[t])
        BY LevelTypes, LiveLevels, RefreshAssumption DEF TypeOK
    <2>3. t \in Topics /\ SkillOf[t] \in Skills
        BY RefreshAssumption DEF TypeOK
    <2>4. CASE previous[w] = NoRow
        <3>1. CASE row[r] = NoRow
            <4>1. excused' = Raised(excused, r, completed, live[w])
                BY <2>1, <3>1 DEF Upsert
            <4>2. l <= excused'[r][t]
                BY <1>1, <1>5, <1>9, <2>3, <4>1, RaisedLevels DEF TypeOK
            <4>3. QED
                BY <4>2 DEF Covered, Told
        <3>2. CASE row[r] # NoRow
            <4>1. raced' = Raised(raced, r, completed, live[w])
                BY <2>1, <2>4, <3>2 DEF Upsert
            <4>2. l <= raced'[r][t]
                BY <1>1, <1>5, <1>9, <2>3, <4>1, RaisedLevels DEF TypeOK
            <4>3. QED
                BY <4>2 DEF Covered
        <3>3. QED
            BY <3>1, <3>2
    <2>5. CASE previous[w] # NoRow /\ l <= p
        <3>1. Covered(r, t, p)
            BY <1>1, <2>1, <2>2 DEF CoverInv
        <3>2. Covered(r, t, l)
            BY <2>3, <2>5, <3>1, LevelAtMost
        <3>3. QED
            BY <1>8, <3>2
    <2>6. CASE previous[w] # NoRow /\ ~(l <= p)
        <3>1. l > p
            BY <2>6 DEF Levels, Absent, High
        <3>2. SkillOf[t] \in skills
            BY <1>2, <1>9, <2>2, <2>3, <2>6, <3>1 DEF Risen, Significant
        <3>3. /\ risen'[w] = skills /\ at'[w] = "match"
              /\ todo'[w] = todo[w] /\ live'[w] = live[w]
            BY <1>2, <3>2 DEF Proceed, Goto, TypeOK
        <3>4. Owing(w, r, t, l)'
            BY <1>3, <1>9, <2>1, <3>2, <3>3
               DEF Owing, Owes, Noting, Role, LevelIn, Levels, Absent, High
        <3>5. QED
            BY <3>4 DEF Covered, Told, Owing, Noting
    <2>7. QED
        BY <2>4, <2>5, <2>6
<1>10. ASSUME NEW r \in Roles, NEW t \in completed', NEW l \in Levels,
              l = LevelIn(row'[r], SkillOf[t])
       PROVE  Covered(r, t, l)'
    BY <1>3, <1>8, <1>9, <1>10 DEF CoverInv, TypeOK
<1>11. ASSUME NEW v \in Refreshers, NEW r \in Roles, NEW t \in completed', NEW l \in Levels,
              at'[v] = "upsert", r = Role(v)', l = LevelIn(previous'[v], SkillOf[t])
       PROVE  Covered(r, t, l)'
    <2>1. v # w
        BY <1>4, <1>11 DEF Noting
    <2>2. /\ at[v] = "upsert" /\ r = Role(v) /\ t \in completed
          /\ previous'[v] = previous[v]
        BY <1>3, <1>4, <1>11, <2>1 DEF Role, TypeOK
    <2>3. QED
        BY <1>8, <1>11, <2>2 DEF CoverInv
<1>12. QED
    BY <1>10, <1>11 DEF CoverInv, LevelIn

\* A step of a batch at its notes: whatever note it no longer owes is created
\* or excused.
LEMMA NotingKeepsCover ==
    ASSUME TypeOK, CoverInv, NEW w \in Refreshers, at[w] \in Noting, at'[w] # "upsert",
           \A v \in Refreshers \ {w} :
              /\ at'[v] = at[v] /\ todo'[v] = todo[v] /\ live'[v] = live[v]
              /\ risen'[v] = risen[v] /\ matched'[v] = matched[v],
           UNCHANGED <<row, completed>>,
           \A v \in Refreshers \ {w} : previous'[v] = previous[v],
           \A r \in Roles, t \in Topics :
              notes[r][t] \subseteq notes'[r][t] /\ Kept(r, t),
           \A r \in Roles, t \in Topics, l \in Levels :
              Owing(w, r, t, l) =>
                 \/ Owing(w, r, t, l)'
                 \/ \E n \in notes'[r][t] : n >= l
                 \/ l <= excused'[r][t]
    PROVE  CoverInv'
<1>1. ASSUME NEW r \in Roles, NEW t \in completed, NEW l \in Levels, Covered(r, t, l)
      PROVE  Covered(r, t, l)'
    <2>1. t \in Topics
        BY DEF TypeOK
    <2>2. \A v \in Refreshers \ {w} : Owing(v, r, t, l) => Owing(v, r, t, l)'
        BY OthersOwe
    <2>3. QED
        BY <1>1, <2>1, <2>2, StaysCovered
<1>2. ASSUME NEW r \in Roles, NEW t \in completed', NEW l \in Levels,
             l = LevelIn(row'[r], SkillOf[t])
      PROVE  Covered(r, t, l)'
    BY <1>1, <1>2 DEF CoverInv
<1>3. ASSUME NEW v \in Refreshers, NEW r \in Roles, NEW t \in completed', NEW l \in Levels,
             at'[v] = "upsert", r = Role(v)', l = LevelIn(previous'[v], SkillOf[t])
      PROVE  Covered(r, t, l)'
    <2>1. at[v] = "upsert" /\ r = Role(v) /\ previous'[v] = previous[v]
        BY <1>3 DEF Role
    <2>2. QED
        BY <1>1, <1>3, <2>1 DEF CoverInv
<1>4. QED
    BY <1>2, <1>3 DEF CoverInv, LevelIn

LEMMA MatchKeepsCover ==
    ASSUME TypeOK, ShapeInv, CoverInv, NEW w \in Refreshers, MatchTopics(w)
    PROVE  CoverInv'
<1>1. /\ at[w] = "match" /\ todo[w] # <<>> /\ live[w] \in StoredRows /\ matched[w] = {}
      /\ UNCHANGED <<row, stale, completed, notes, previous, excused, raced>>
    BY DEF MatchTopics, ShapeInv, Grounded, tables, history
<1>2. PICK s \in risen[w] :
         Proceed(w, risen[w] \ {s}, {t \in completed : SkillOf[t] = s})
    BY DEF MatchTopics
<1> DEFINE topics == {t \in completed : SkillOf[t] = s}
<1>3. risen[w] \ {s} \in SUBSET Skills /\ topics \in SUBSET Topics
    BY DEF TypeOK
<1>4. /\ at'[w] \in Noting \cup {"ground", "idle"}
      /\ \A v \in Refreshers \ {w} :
            /\ at'[v] = at[v] /\ todo'[v] = todo[v] /\ live'[v] = live[v]
            /\ risen'[v] = risen[v] /\ matched'[v] = matched[v]
    BY <1>1, <1>2, <1>3, ProceedShape
<1>5. ASSUME NEW r \in Roles, NEW t \in Topics, NEW l \in Levels, Owing(w, r, t, l)
      PROVE  Owing(w, r, t, l)'
    <2>1. t \in completed /\ SkillOf[t] \in risen[w]
        BY <1>1, <1>5 DEF Owing, Owes
    <2>2. t \in topics \/ SkillOf[t] \in risen[w] \ {s}
        BY <2>1
    <2>3. /\ risen'[w] = risen[w] \ {s} /\ matched'[w] = topics
          /\ todo' = todo /\ live' = live
          /\ at'[w] \in Noting
        BY <1>2, <2>2 DEF Proceed, Goto, TypeOK, Noting
    <2>4. QED
        BY <1>1, <1>5, <2>1, <2>2, <2>3 DEF Owing, Owes, Role, LevelIn
<1>6. \A r \in Roles, t \in Topics : Kept(r, t)
    BY <1>1, HistoryKept
<1>7. QED
    BY <1>1, <1>4, <1>5, <1>6, NotingKeepsCover DEF Noting

LEMMA CreateKeepsCover ==
    ASSUME TypeOK, ShapeInv, CoverInv, NEW w \in Refreshers, CreateNote(w)
    PROVE  CoverInv'
<1>1. /\ at[w] = "create" /\ todo[w] # <<>> /\ live[w] \in StoredRows
      /\ Role(w) \in Roles
      /\ UNCHANGED <<row, completed, previous, excused, raced>>
    BY DEF CreateNote, ShapeInv, Grounded, TypeOK, Role, history
<1>2. PICK u \in matched[w] :
         /\ notes' = [notes EXCEPT ![Role(w)][u] =
                        notes[Role(w)][u] \cup {live[w][SkillOf[u]]}]
         /\ Proceed(w, risen[w], matched[w] \ {u})
    BY DEF CreateNote
<1>3. u \in Topics /\ risen[w] \in SUBSET Skills /\ matched[w] \ {u} \in SUBSET Topics
    BY DEF TypeOK
<1>4. /\ at'[w] \in Noting \cup {"ground", "idle"}
      /\ \A v \in Refreshers \ {w} :
            /\ at'[v] = at[v] /\ todo'[v] = todo[v] /\ live'[v] = live[v]
            /\ risen'[v] = risen[v] /\ matched'[v] = matched[v]
    BY <1>1, <1>2, <1>3, ProceedShape
<1>5. \A r \in Roles, t \in Topics : notes[r][t] \subseteq notes'[r][t]
    BY <1>2 DEF TypeOK
<1>6. ASSUME NEW r \in Roles, NEW t \in Topics, NEW l \in Levels, Owing(w, r, t, l)
      PROVE  Owing(w, r, t, l)' \/ \E n \in notes'[r][t] : n >= l
    <2>1. CASE t = u
        <3>1. r = Role(w) /\ LevelIn(live[w], SkillOf[t]) >= l
            BY <1>6 DEF Owing
        <3>2. live[w][SkillOf[t]] = LevelIn(live[w], SkillOf[t])
            BY <1>1, RefreshAssumption DEF StoredRows, LevelIn
        <3>3. live[w][SkillOf[t]] \in notes'[r][t]
            BY <1>1, <1>2, <2>1, <3>1 DEF TypeOK
        <3>4. QED
            BY <3>1, <3>2, <3>3
    <2>2. CASE t # u
        <3>1. t \in completed /\ (t \in matched[w] \ {u} \/ SkillOf[t] \in risen[w])
            BY <1>6, <2>2 DEF Owing, Owes
        <3>2. /\ risen'[w] = risen[w] /\ matched'[w] = matched[w] \ {u}
              /\ todo' = todo /\ live' = live
              /\ at'[w] \in Noting
            BY <1>2, <3>1 DEF Proceed, Goto, TypeOK, Noting
        <3>3. QED
            BY <1>1, <1>6, <3>1, <3>2 DEF Owing, Owes, Role, LevelIn
    <2>3. QED
        BY <2>1, <2>2
<1>7. \A r \in Roles, t \in Topics : Kept(r, t)
    BY <1>1, HistoryKept
<1>8. QED
    BY <1>1, <1>4, <1>5, <1>6, <1>7, NotingKeepsCover DEF Noting

\* A batch that dies excuses the notes it owed, and nothing else changes.
LEMMA DeathExcuses ==
    ASSUME TypeOK, ShapeInv, NEW w \in Refreshers, Die(w)
    PROVE  \A r \in Roles, t \in Topics :
              /\ Kept(r, t)
              /\ at[w] \in Noting /\ r = Role(w) /\ Owes(w, t)
                    => excused'[r][t] >= live[w][SkillOf[t]]
<1>1. excused' \in [Roles -> [Topics -> Levels]]
    BY DieTypes DEF TypeOK
<1>2. UNCHANGED raced
    BY DEF Die
<1>3. CASE at[w] \in Noting
    <2>1. Role(w) \in Roles /\ live[w] \in StoredRows
        BY <1>3 DEF ShapeInv, Grounded, Noting, TypeOK, Role
    <2>2. excused' = [excused EXCEPT ![Role(w)] = [t \in Topics |->
             IF Owes(w, t) THEN Larger(excused[Role(w)][t], live[w][SkillOf[t]])
             ELSE excused[Role(w)][t]]]
        BY <1>3, <2>1 DEF Die, Noting, TypeOK
    <2>3. ASSUME NEW r \in Roles, NEW t \in Topics
          PROVE  /\ excused'[r][t] >= excused[r][t]
                 /\ r = Role(w) /\ Owes(w, t) => excused'[r][t] >= live[w][SkillOf[t]]
        <3>1. excused[r][t] \in Int
            BY ExcusedLevels, LevelsAreIntegers
        <3>2. PICK l \in Levels : l = live[w][SkillOf[t]]
            BY <2>1, LiveLevels, RefreshAssumption DEF StoredRows
        <3>3. CASE r = Role(w) /\ Owes(w, t)
            <4>1. excused'[r][t] = Larger(excused[r][t], l)
                BY <2>2, <3>2, <3>3 DEF TypeOK
            <4>2. QED
                BY <3>1, <3>2, <4>1, LevelsAreIntegers DEF Larger
        <3>4. CASE ~(r = Role(w) /\ Owes(w, t))
            <4>1. excused'[r][t] = excused[r][t]
                BY <2>1, <2>2, <3>4 DEF TypeOK
            <4>2. QED
                BY <3>1, <3>4, <4>1
        <3>5. QED
            BY <3>3, <3>4
    <2>4. QED
        BY <1>1, <1>2, <2>3, ExcusedLevels DEF Kept
<1>4. CASE at[w] \notin Noting
    <2>1. UNCHANGED <<excused, raced>>
        BY <1>2, <1>4 DEF Die, Noting
    <2>2. QED
        BY <1>4, <2>1, HistoryKept
<1>5. QED
    BY <1>3, <1>4

LEMMA DeathKeepsCover ==
    ASSUME TypeOK, ShapeInv, CoverInv, NEW w \in Refreshers, Die(w)
    PROVE  CoverInv'
<1>1. /\ at' = [at EXCEPT ![w] = "idle"]
      /\ todo' = [todo EXCEPT ![w] = <<>>]
      /\ live' = [live EXCEPT ![w] = NoRow]
      /\ previous' = [previous EXCEPT ![w] = NoRow]
      /\ risen' = [risen EXCEPT ![w] = {}]
      /\ matched' = [matched EXCEPT ![w] = {}]
      /\ UNCHANGED <<row, completed, notes, raced>>
    BY DEF Die, Goto, tables
<1>2. /\ at'[w] # "upsert"
      /\ \A v \in Refreshers \ {w} :
            /\ at'[v] = at[v] /\ todo'[v] = todo[v] /\ live'[v] = live[v]
            /\ risen'[v] = risen[v] /\ matched'[v] = matched[v]
            /\ previous'[v] = previous[v]
    BY <1>1 DEF TypeOK
<1>3. \A r \in Roles, t \in Topics : Kept(r, t)
    BY DeathExcuses
<1>4. CASE at[w] \in Noting
    <2>1. live[w] \in StoredRows
        BY <1>4 DEF ShapeInv, Grounded, Noting
    <2>2. ASSUME NEW r \in Roles, NEW t \in Topics, NEW l \in Levels, Owing(w, r, t, l)
          PROVE  l <= excused'[r][t]
        <3>1. excused'[r][t] >= live[w][SkillOf[t]]
            BY <1>4, <2>2, DeathExcuses DEF Owing
        <3>2. live[w][SkillOf[t]] >= l
            BY <2>1, <2>2, RefreshAssumption DEF Owing, LevelIn, StoredRows
        <3>3. live[w][SkillOf[t]] \in Levels
            BY <2>1, LiveLevels, RefreshAssumption DEF StoredRows
        <3>4. excused'[r][t] \in Levels
            BY <1>3 DEF Kept
        <3>5. excused'[r][t] \in Int /\ live[w][SkillOf[t]] \in Int /\ l \in Int
            BY <3>3, <3>4, LevelsAreIntegers
        <3>6. QED
            BY <3>1, <3>2, <3>5
    <2>3. QED
        BY <1>1, <1>2, <1>3, <1>4, <2>2, NotingKeepsCover
<1>5. CASE at[w] \notin Noting
    <2>1. ASSUME NEW r \in Roles, NEW t \in completed, NEW l \in Levels, Covered(r, t, l)
          PROVE  Covered(r, t, l)'
        <3>1. t \in Topics /\ Kept(r, t)
            BY <1>3 DEF TypeOK
        <3>2. QED
            BY <1>1, <1>2, <1>5, <2>1, <3>1, OutsideNoting
    <2>2. ASSUME NEW r \in Roles, NEW t \in completed', NEW l \in Levels,
                 l = LevelIn(row'[r], SkillOf[t])
          PROVE  Covered(r, t, l)'
        BY <1>1, <2>1, <2>2 DEF CoverInv
    <2>3. ASSUME NEW v \in Refreshers, NEW r \in Roles, NEW t \in completed',
                 NEW l \in Levels, at'[v] = "upsert", r = Role(v)',
                 l = LevelIn(previous'[v], SkillOf[t])
          PROVE  Covered(r, t, l)'
        <3>1. /\ at[v] = "upsert" /\ r = Role(v) /\ previous'[v] = previous[v]
              /\ t \in completed
            BY <1>1, <1>2, <2>3 DEF Role
        <3>2. QED
            BY <2>1, <2>3, <3>1 DEF CoverInv
    <2>4. QED
        BY <2>2, <2>3 DEF CoverInv, LevelIn
<1>6. QED
    BY <1>4, <1>5

\* Whoever completes a topic is excused the level the row shows; that of a row a
\* batch has read before it was overwritten is lost.
LEMMA CompletionKeepsCover ==
    ASSUME TypeOK, ShapeInv, CoverInv, NEW c \in Topics, Complete(c)
    PROVE  CoverInv'
<1>1. /\ completed' = completed \cup {c}
      /\ UNCHANGED <<row, notes, at, todo, live, previous, risen, matched>>
    BY DEF Complete, batch
<1> DEFINE lost(r) == LargestOf({Absent} \cup LevelsCompared(r, c))
           shown(r) == LevelIn(row[r], SkillOf[c])
<1>2. ASSUME NEW r \in Roles
      PROVE  /\ \A t \in Topics \ {c} :
                   excused'[r][t] = excused[r][t] /\ raced'[r][t] = raced[r][t]
             /\ excused'[r][c] >= excused[r][c] /\ excused'[r][c] >= shown(r)
             /\ raced'[r][c] >= raced[r][c] /\ raced'[r][c] >= lost(r)
    <2>1. PICK s \in Levels, l \in Levels : s = shown(r) /\ l = lost(r)
        BY ComparedTypes
    <2>2. PICK e \in Levels, m \in Levels : e = excused[r][c] /\ m = raced[r][c]
        BY ExcusedLevels
    <2>3. /\ excused'[r] = [excused[r] EXCEPT ![c] = Larger(e, s)]
          /\ raced'[r] = [raced[r] EXCEPT ![c] = Larger(m, l)]
        BY <2>1, <2>2 DEF Complete, TypeOK
    <2>4. /\ \A t \in Topics \ {c} :
                excused'[r][t] = excused[r][t] /\ raced'[r][t] = raced[r][t]
          /\ excused'[r][c] = Larger(e, s) /\ raced'[r][c] = Larger(m, l)
        BY <2>3 DEF TypeOK
    <2>5. /\ Larger(e, s) >= e /\ Larger(e, s) >= s
          /\ Larger(m, l) >= m /\ Larger(m, l) >= l
        BY LevelsAreIntegers DEF Larger
    <2>6. QED
        BY <2>1, <2>2, <2>4, <2>5
<1>3. ASSUME NEW r \in Roles, NEW t \in Topics
      PROVE  Kept(r, t)
    <2>1. excused'[r][t] \in Levels /\ raced'[r][t] \in Levels
        BY AroundTypes DEF TypeOK
    <2>2. CASE t = c
        BY <1>2, <2>1, <2>2 DEF Kept
    <2>3. CASE t # c
        <3>1. excused'[r][t] = excused[r][t] /\ raced'[r][t] = raced[r][t]
            BY <1>2, <2>3 DEF TypeOK
        <3>2. QED
            BY <3>1, ExcusedLevels DEF Kept
    <2>4. QED
        BY <2>2, <2>3
<1>4. ASSUME NEW r \in Roles, NEW l \in Levels, l = shown(r) \/ l \in LevelsCompared(r, c)
      PROVE  Covered(r, c, l)'
    <2>1. CASE l = shown(r)
        <3>1. PICK e \in Levels : e = excused'[r][c]
            BY AroundTypes DEF TypeOK
        <3>2. e >= l
            BY <1>2, <2>1, <3>1
        <3>3. l <= excused'[r][c]
            BY <3>1, <3>2, LevelsAreIntegers
        <3>4. QED
            BY <3>3 DEF Covered, Told
    <2>2. CASE l \in LevelsCompared(r, c)
        <3>1. PICK k \in Levels, m \in Levels : k = lost(r) /\ m = raced'[r][c]
            <4>1. lost(r) \in Levels
                BY ComparedTypes
            <4>2. raced'[r][c] \in Levels
                BY AroundTypes DEF TypeOK
            <4>3. QED
                BY <4>1, <4>2
        <3>2. m >= k /\ k >= l
            BY <1>2, <2>2, <3>1, ComparedTypes
        <3>3. l <= raced'[r][c]
            BY <3>1, <3>2, LevelsAreIntegers
        <3>4. QED
            BY <3>3 DEF Covered
    <2>3. QED
        BY <1>4, <2>1, <2>2
<1>5. ASSUME NEW r \in Roles, NEW t \in completed, NEW l \in Levels, Covered(r, t, l)
      PROVE  Covered(r, t, l)'
    <2>1. t \in Topics
        BY DEF TypeOK
    <2>2. \A v \in Refreshers : Owing(v, r, t, l) => Owing(v, r, t, l)'
        BY <1>1, OthersOwe
    <2>3. QED
        BY <1>1, <1>5, <1>3, <2>1, <2>2, StaysCovered
<1>6. ASSUME NEW r \in Roles, NEW t \in completed', NEW l \in Levels,
             l = LevelIn(row'[r], SkillOf[t])
      PROVE  Covered(r, t, l)'
    <2>1. CASE t = c
        <3>1. l = shown(r)
            BY <1>1, <1>6, <2>1
        <3>2. QED
            BY <1>4, <2>1, <3>1
    <2>2. CASE t # c
        BY <1>1, <1>5, <1>6, <2>2 DEF CoverInv
    <2>3. QED
        BY <2>1, <2>2
<1>7. ASSUME NEW v \in Refreshers, NEW r \in Roles, NEW t \in completed', NEW l \in Levels,
             at'[v] = "upsert", r = Role(v)', l = LevelIn(previous'[v], SkillOf[t])
      PROVE  Covered(r, t, l)'
    <2>1. at[v] = "upsert" /\ Role(v) = r /\ l = LevelIn(previous[v], SkillOf[t])
        BY <1>1, <1>7 DEF Role
    <2>2. CASE t = c
        <3>1. l \in LevelsCompared(r, c)
            BY <2>1, <2>2 DEF LevelsCompared
        <3>2. QED
            BY <1>4, <2>2, <3>1
    <2>3. CASE t # c
        BY <1>1, <1>5, <1>7, <2>1, <2>3 DEF CoverInv
    <2>4. QED
        BY <2>2, <2>3
<1>8. QED
    BY <1>6, <1>7 DEF CoverInv, LevelIn

\* A step that changes nothing that matters here.
LEMMA AgeingKeepsCover ==
    ASSUME CoverInv,
           UNCHANGED <<row, completed, notes, at, todo, live, previous, risen, matched,
                       excused, raced>>
    PROVE  CoverInv'
BY DEF CoverInv, Covered, Told, Owes, LevelIn, Role

LEMMA StepCovers ==
    ASSUME TypeOK, ShapeInv, CoverInv, [Next]_vars
    PROVE  CoverInv'
<1>1. CASE StartCron \/ \E w \in Sessions : StartSession(w)
    BY <1>1, EarlySteps
<1>2. ASSUME NEW w \in Refreshers, BatchStep(w) \/ Die(w)
      PROVE  CoverInv'
    BY <1>2, EarlySteps, ReadingKeepsCover, UpsertKeepsCover, MatchKeepsCover,
       CreateKeepsCover, DeathKeepsCover DEF BatchStep
<1>3. ASSUME NEW t \in Topics, Complete(t)
      PROVE  CoverInv'
    BY <1>3, CompletionKeepsCover
<1>4. ASSUME NEW r \in Roles, RowAges(r)
      PROVE  CoverInv'
    BY <1>4, AgeingKeepsCover DEF RowAges, batch, history
<1>5. CASE UNCHANGED vars
    BY <1>5, AgeingKeepsCover DEF vars
<1>6. QED
    BY <1>1, <1>2, <1>3, <1>4, <1>5 DEF Next

\* However many batches overlap and die, and whatever the sources answer, a rise
\* of a skill reaches the learners who had completed its topic, but for the five
\* exceptions RiseReachesLearner names; two of them are races of batches.
THEOREM RiseIsTold == Spec => []RiseReachesLearner
<1>1. Init => CoverInv
    BY DEF Init, CoverInv
<1>2. TypeOK /\ ShapeInv /\ CoverInv /\ [Next]_vars => CoverInv'
    BY StepCovers
<1>3. TypeOK /\ CoverInv => RiseReachesLearner
    <2> SUFFICES ASSUME TypeOK, CoverInv, NEW r \in Roles, NEW t \in completed
                 PROVE  Covered(r, t, LevelIn(row[r], SkillOf[t]))
        BY DEF RiseReachesLearner
    <2>1. LevelIn(row[r], SkillOf[t]) \in Levels
        BY LevelTypes, LiveLevels, RefreshAssumption DEF TypeOK
    <2>2. QED
        BY <2>1 DEF CoverInv
<1>4. QED
    BY <1>1, <1>2, <1>3, RefreshShape, PTL DEF Spec

-----------------------------------------------------------------------------
(* Batches that do not overlap lose nothing                                *)

\* No two batches are between reading a role's row and storing theirs at once.
Apart ==
    \A v, w \in Refreshers :
        at[v] = "upsert" /\ at[w] = "upsert" /\ Role(v) = Role(w) => v = w

\* The row a batch compares with is the present one, so nothing is lost that was
\* not excused anyway.
ApartInv ==
    /\ \A w \in Refreshers : at[w] = "upsert" => previous[w] = row[Role(w)]
    /\ \A r \in Roles, t \in Topics : raced[r][t] <= excused[r][t]

\* A step that stores no row and completes no topic.
LEMMA ElsewhereApart ==
    ASSUME TypeOK, ApartInv, UNCHANGED <<row, raced>>,
           \A r \in Roles, t \in Topics : Kept(r, t),
           \A v \in Refreshers : at'[v] = "upsert" =>
              \/ previous'[v] = row[Role(v)] /\ Role(v)' = Role(v)
              \/ at[v] = "upsert" /\ previous'[v] = previous[v] /\ Role(v)' = Role(v)
    PROVE  ApartInv'
<1>1. ASSUME NEW r \in Roles, NEW t \in Topics
      PROVE  raced'[r][t] <= excused'[r][t]
    <2>1. PICK old \in Levels, new \in Levels, lost \in Levels :
             old = excused[r][t] /\ new = excused'[r][t] /\ lost = raced[r][t]
        BY ExcusedLevels DEF Kept
    <2>2. new >= old /\ lost <= old
        BY <2>1 DEF Kept, ApartInv
    <2>3. lost <= new
        BY <2>2, LevelsAreIntegers
    <2>4. QED
        BY <2>1, <2>3
<1>2. ASSUME NEW v \in Refreshers, at'[v] = "upsert"
      PROVE  previous'[v] = row'[Role(v)']
    BY <1>2 DEF ApartInv
<1>3. QED
    BY <1>1, <1>2 DEF ApartInv, Role

LEMMA StartsApart ==
    ASSUME TypeOK, ShapeInv, ApartInv, StartCron \/ \E w \in Sessions : StartSession(w)
    PROVE  ApartInv'
<1>1. UNCHANGED <<row, raced, excused, previous>>
    BY DEF StartCron, StartSession, tables, history
<1>2. ASSUME NEW v \in Refreshers, at'[v] = "upsert"
      PROVE  at[v] = "upsert" /\ Role(v)' = Role(v)
    <2>1. CASE StartCron
        BY <1>2, <2>1 DEF StartCron, Goto, Role, TypeOK
    <2>2. CASE \E w \in Sessions : StartSession(w)
        BY <1>2, <2>2 DEF StartSession, Goto, Role, TypeOK
    <2>3. QED
        BY <2>1, <2>2
<1>3. QED
    BY <1>1, <1>2, HistoryKept, ElsewhereApart

\* The steps of a batch other than storing a row, and its death.
LEMMA BatchesApart ==
    ASSUME TypeOK, ShapeInv, ApartInv, NEW w \in Refreshers,
           BatchStep(w) \/ Die(w), ~Upsert(w)
    PROVE  ApartInv'
<1>1. UNCHANGED <<row, raced>>
    BY DEF BatchStep, CheckRole, Ground, Skip, ReadPrevious, MatchTopics, CreateNote, Die,
           tables, history
<1>2. \A r \in Roles, t \in Topics : Kept(r, t)
    <2>1. CASE Die(w)
        BY <2>1, DeathExcuses
    <2>2. CASE ~Die(w)
        <3>1. UNCHANGED excused
            BY <2>2 DEF BatchStep, CheckRole, Ground, Skip, ReadPrevious, MatchTopics,
                        CreateNote, history
        <3>2. QED
            BY <1>1, <3>1, HistoryKept
    <2>3. QED
        BY <2>1, <2>2
<1>3. \A v \in Refreshers \ {w} :
         at'[v] = at[v] /\ todo'[v] = todo[v] /\ previous'[v] = previous[v]
    BY StepFrame
<1>4. ASSUME at'[w] = "upsert"
      PROVE  ReadPrevious(w)
    <2>1. CASE Skip(w) \/ MatchTopics(w) \/ CreateNote(w)
        <3>1. at'[w] \in Noting \cup {"ground", "idle"}
            BY <2>1 DEF Skip, MatchTopics, CreateNote, Proceed, Goto, TypeOK, Noting
        <3>2. QED
            BY <1>4, <3>1 DEF Noting
    <2>2. CASE CheckRole(w) \/ Ground(w) \/ Die(w)
        BY <1>4, <2>2 DEF CheckRole, Ground, Die, Goto, TypeOK
    <2>3. QED
        BY <2>1, <2>2 DEF BatchStep
<1>5. ASSUME NEW v \in Refreshers, at'[v] = "upsert"
      PROVE  \/ previous'[v] = row[Role(v)] /\ Role(v)' = Role(v)
             \/ at[v] = "upsert" /\ previous'[v] = previous[v] /\ Role(v)' = Role(v)
    <2>1. CASE v = w
        BY <1>4, <1>5, <2>1 DEF ReadPrevious, Role, TypeOK
    <2>2. CASE v # w
        BY <1>3, <1>5, <2>2 DEF Role
    <2>3. QED
        BY <2>1, <2>2
<1>6. QED
    BY <1>1, <1>2, <1>5, ElsewhereApart

\* With nobody in between, the row overwritten is the one compared with.
LEMMA StoringApart ==
    ASSUME TypeOK, ShapeInv, ApartInv, Apart, NEW w \in Refreshers, Upsert(w)
    PROVE  ApartInv'
<1>1. /\ at[w] = "upsert" /\ todo[w] # <<>> /\ Role(w) \in Roles
      /\ live[w] \in StoredRows
    BY DEF Upsert, ShapeInv, Grounded, TypeOK, Role
<1>2. UNCHANGED raced
    BY <1>1 DEF Upsert, ApartInv
<1>3. ASSUME NEW r \in Roles, NEW t \in Topics
      PROVE  raced'[r][t] <= excused'[r][t]
    <2>1. PICK old \in Levels, new \in Levels, lost \in Levels :
             old = excused[r][t] /\ new = excused'[r][t] /\ lost = raced[r][t]
        BY ExcusedLevels, UpsertExcuses DEF Kept
    <2>2. new >= old /\ lost <= old
        BY <2>1, UpsertExcuses DEF Kept, ApartInv
    <2>3. lost <= new
        BY <2>2, LevelsAreIntegers
    <2>4. QED
        BY <1>2, <2>1, <2>3
<1>4. PICK skills \in SUBSET Skills : Proceed(w, skills, {})
    BY DEF Upsert, Risen
<1>5. /\ at'[w] # "upsert"
      /\ \A v \in Refreshers \ {w} : at'[v] = at[v] /\ todo'[v] = todo[v]
    BY <1>1, <1>4, ProceedShape DEF Noting
<1>6. ASSUME NEW v \in Refreshers, at'[v] = "upsert"
      PROVE  previous'[v] = row'[Role(v)']
    <2>1. v # w /\ at[v] = "upsert" /\ Role(v)' = Role(v)
        BY <1>5, <1>6 DEF Role
    <2>2. Role(v) # Role(w) /\ previous[v] = row[Role(v)]
        BY <1>1, <2>1 DEF Apart, ApartInv
    <2>3. previous'[v] = previous[v] /\ row'[Role(v)] = row[Role(v)]
        BY <2>1, <2>2 DEF Upsert, TypeOK
    <2>4. QED
        BY <2>1, <2>2, <2>3
<1>7. QED
    BY <1>3, <1>6 DEF ApartInv, Role

\* The rows that batches compare with then are what the learner has seen.
LEMMA CompletingApart ==
    ASSUME TypeOK, ShapeInv, ApartInv, NEW c \in Topics, Complete(c)
    PROVE  ApartInv'
<1>1. UNCHANGED <<row, at, todo, previous>>
    BY DEF Complete, batch
<1>2. ASSUME NEW r \in Roles, NEW t \in Topics
      PROVE  raced'[r][t] <= excused'[r][t]
    <2>1. PICK old \in Levels, lost \in Levels :
             /\ old = excused[r][t] /\ lost = raced[r][t] /\ lost <= old
        BY ExcusedLevels DEF ApartInv
    <2>2. CASE t # c
        <3>1. excused'[r][t] = excused[r][t] /\ raced'[r][t] = raced[r][t]
            BY <2>2 DEF Complete, TypeOK
        <3>2. QED
            BY <2>1, <3>1
    <2>3. CASE t = c
        <3>1. PICK s \in Levels, l \in Levels :
                 /\ s = LevelIn(row[r], SkillOf[c])
                 /\ l = LargestOf({Absent} \cup LevelsCompared(r, c))
            BY ComparedTypes
        <3>2. l \in {Absent} \cup LevelsCompared(r, c)
            <4>1. {Absent} \cup LevelsCompared(r, c) \in SUBSET Levels
                BY ComparedTypes, LiveLevels
            <4>2. QED
                BY <3>1, <4>1, LargestOfLevels
        <3>3. \A m \in LevelsCompared(r, c) : m = s
            BY <3>1 DEF LevelsCompared, ApartInv
        <3>4. l <= s
            <4>1. CASE l = Absent
                BY <4>1 DEF Levels, Absent, High
            <4>2. CASE l = s
                BY <4>2, LevelsAreIntegers
            <4>3. QED
                BY <3>2, <3>3, <4>1, <4>2
        <3>5. excused'[r][t] = Larger(old, s) /\ raced'[r][t] = Larger(lost, l)
            BY <2>1, <2>3, <3>1 DEF Complete, TypeOK
        <3>6. Larger(lost, l) <= Larger(old, s)
            BY <2>1, <3>4, LevelsAreIntegers DEF Larger
        <3>7. QED
            BY <3>5, <3>6
    <2>4. QED
        BY <2>2, <2>3
<1>3. QED
    BY <1>1, <1>2 DEF ApartInv, Role

LEMMA StepApart ==
    ASSUME TypeOK, ShapeInv, ApartInv, Apart, [Next]_vars
    PROVE  ApartInv'
<1>1. CASE StartCron \/ \E w \in Sessions : StartSession(w)
    BY <1>1, StartsApart
<1>2. ASSUME NEW w \in Refreshers, BatchStep(w) \/ Die(w)
      PROVE  ApartInv'
    BY <1>2, BatchesApart, StoringApart
<1>3. ASSUME NEW t \in Topics, Complete(t)
      PROVE  ApartInv'
    BY <1>3, CompletingApart
<1>4. CASE UNCHANGED vars \/ \E r \in Roles : RowAges(r)
    BY <1>4 DEF RowAges, vars, batch, history, ApartInv, Role
<1>5. QED
    BY <1>1, <1>2, <1>3, <1>4 DEF Next

\* As long as no two batches are between reading a role's row and storing theirs
\* at once, a rise is lost neither to a row stored meanwhile nor to a completion
\* in between: there is a note of every level a row shows, or a batch owes one,
\* unless it was the role's first, the learner completed the topic at that level
\* or a batch died.
THEOREM RiseIsToldApart ==
    Spec /\ []Apart
        => [](\A r \in Roles : \A t \in completed : Told(r, t, LevelIn(row[r], SkillOf[t])))
<1> DEFINE EachTold == \A r \in Roles : \A t \in completed :
                           Told(r, t, LevelIn(row[r], SkillOf[t]))
<1>1. Init => ApartInv
    BY DEF Init, ApartInv, Absent
<1>2. TypeOK /\ ShapeInv /\ ApartInv /\ Apart /\ [Next]_vars => ApartInv'
    BY StepApart
<1>3. TypeOK /\ ApartInv /\ RiseReachesLearner => EachTold
    <2> SUFFICES ASSUME TypeOK, ApartInv, RiseReachesLearner,
                        NEW r \in Roles, NEW t \in completed
                 PROVE  Told(r, t, LevelIn(row[r], SkillOf[t]))
        OBVIOUS
    <2>1. PICK l \in Levels : l = LevelIn(row[r], SkillOf[t])
        BY LevelTypes, LiveLevels, RefreshAssumption DEF TypeOK
    <2>2. CASE l <= raced[r][t]
        <3>1. PICK lost \in Levels, old \in Levels :
                 lost = raced[r][t] /\ old = excused[r][t] /\ lost <= old
            BY ExcusedLevels DEF TypeOK, ApartInv
        <3>2. l <= excused[r][t]
            BY <2>2, <3>1, LevelsAreIntegers
        <3>3. QED
            BY <2>1, <3>2 DEF Told
    <2>3. CASE ~(l <= raced[r][t])
        BY <2>1, <2>3 DEF RiseReachesLearner, Covered
    <2>4. QED
        BY <2>2, <2>3
<1>4. QED
    BY <1>1, <1>2, <1>3, RefreshShape, RiseIsTold, PTL DEF Spec

-----------------------------------------------------------------------------
(* What a note tells of                                                    *)

\* The levels a row has shown of a topic span the row, what a batch compares it
\* with, and what it has a note to create about.
SpansRow ==
    \A r \in Roles, t \in Topics :
       row[r] # NoRow => lowest[r][t] <= LevelIn(row[r], SkillOf[t])

SpansCompared ==
    \A w \in Refreshers, r \in Roles, t \in Topics :
       at[w] = "upsert" /\ r = Role(w) /\ previous[w] # NoRow
          => lowest[r][t] <= LevelIn(previous[w], SkillOf[t])

SpansPending ==
    \A w \in Refreshers, r \in Roles, t \in Topics :
       at[w] \in Noting /\ r = Role(w) /\ (t \in matched[w] \/ SkillOf[t] \in risen[w])
          => lowest[r][t] < live[w][SkillOf[t]] /\ live[w][SkillOf[t]] <= highest[r][t]

NotesInv ==
    /\ NotesJustified
    /\ SpansRow /\ SpansCompared /\ SpansPending
    /\ \A w \in Refreshers : matched[w] \subseteq completed

\* A step of batch w that writes no row.
LEMMA NotesKept ==
    ASSUME TypeOK, NotesInv, NEW w \in Refreshers,
           \A v \in Refreshers \ {w} :
              /\ at'[v] = at[v] /\ todo'[v] = todo[v] /\ live'[v] = live[v]
              /\ previous'[v] = previous[v]
              /\ risen'[v] = risen[v] /\ matched'[v] = matched[v],
           UNCHANGED <<row, lowest, highest, completed>>,
           \A r \in Roles, t \in Topics : \A l \in notes'[r][t] :
              \/ l \in notes[r][t]
              \/ t \in completed /\ lowest[r][t] < l /\ l <= highest[r][t],
           at'[w] = "upsert" =>
              Role(w)' = Role(w) /\ (Role(w) \in Roles => previous'[w] = row[Role(w)]),
           at'[w] \in Noting =>
              /\ at[w] \in Noting /\ todo'[w] = todo[w] /\ live'[w] = live[w]
              /\ risen'[w] \subseteq risen[w]
              /\ \A t \in matched'[w] : t \in matched[w] \/ SkillOf[t] \in risen[w],
           matched'[w] \subseteq completed
    PROVE  NotesInv'
<1>1. NotesJustified'
    BY DEF NotesInv, NotesJustified
<1>2. ASSUME NEW r \in Roles, NEW t \in Topics, row'[r] # NoRow
      PROVE  lowest'[r][t] <= LevelIn(row'[r], SkillOf[t])
    BY <1>2 DEF NotesInv, SpansRow, SpansCompared, SpansPending
<1>3. ASSUME NEW v \in Refreshers, NEW r \in Roles, NEW t \in Topics,
             at'[v] = "upsert", r = Role(v)', previous'[v] # NoRow
      PROVE  lowest'[r][t] <= LevelIn(previous'[v], SkillOf[t])
    <2>1. CASE v = w
        BY <1>2, <1>3, <2>1
    <2>2. CASE v # w
        <3>1. at[v] = "upsert" /\ r = Role(v) /\ previous'[v] = previous[v]
            BY <1>3, <2>2 DEF Role
        <3>2. QED
            BY <1>3, <3>1 DEF NotesInv, SpansRow, SpansCompared, SpansPending
    <2>3. QED
        BY <2>1, <2>2
<1>4. ASSUME NEW v \in Refreshers, NEW r \in Roles, NEW t \in Topics,
             at'[v] \in Noting, r = Role(v)',
             t \in matched'[v] \/ SkillOf[t] \in risen'[v]
      PROVE  /\ lowest'[r][t] < live'[v][SkillOf[t]]
             /\ live'[v][SkillOf[t]] <= highest'[r][t]
    <2>1. /\ at[v] \in Noting /\ r = Role(v) /\ live'[v] = live[v]
          /\ t \in matched[v] \/ SkillOf[t] \in risen[v]
        BY <1>4 DEF Role
    <2>2. QED
        BY <2>1 DEF NotesInv, SpansRow, SpansCompared, SpansPending
<1>5. \A v \in Refreshers : matched'[v] \subseteq completed'
    BY DEF NotesInv, SpansRow, SpansCompared, SpansPending
<1>6. SpansRow'
    BY <1>2 DEF SpansRow, LevelIn
<1>7. SpansCompared'
    BY <1>3 DEF SpansCompared, LevelIn, Role
<1>8. SpansPending'
    BY <1>4 DEF SpansPending, Role
<1>9. QED
    BY <1>1, <1>5, <1>6, <1>7, <1>8 DEF NotesInv

\* A step that touches neither rows nor batches; topics may be completed.
LEMMA NotesUntouched ==
    ASSUME NotesInv, completed \subseteq completed',
           UNCHANGED <<row, notes, at, todo, live, previous, risen, matched, lowest,
                       highest>>
    PROVE  NotesInv'
<1>1. NotesJustified'
    BY DEF NotesInv, NotesJustified
<1>2. \A r \in Roles, t \in Topics :
         row'[r] # NoRow => lowest'[r][t] <= LevelIn(row'[r], SkillOf[t])
    BY DEF NotesInv, SpansRow, SpansCompared, SpansPending
<1>3. \A w \in Refreshers, r \in Roles, t \in Topics :
         at'[w] = "upsert" /\ r = Role(w)' /\ previous'[w] # NoRow
            => lowest'[r][t] <= LevelIn(previous'[w], SkillOf[t])
    BY DEF NotesInv, SpansCompared, SpansPending, Role
<1>4. \A w \in Refreshers, r \in Roles, t \in Topics :
         at'[w] \in Noting /\ r = Role(w)'
         /\ (t \in matched'[w] \/ SkillOf[t] \in risen'[w])
            => /\ lowest'[r][t] < live'[w][SkillOf[t]]
               /\ live'[w][SkillOf[t]] <= highest'[r][t]
    BY DEF NotesInv, SpansCompared, SpansPending, Role
<1>5. \A w \in Refreshers : matched'[w] \subseteq completed'
    BY DEF NotesInv, SpansRow, SpansCompared, SpansPending
<1>6. SpansRow'
    BY <1>2 DEF SpansRow, LevelIn
<1>7. SpansCompared'
    BY <1>3 DEF SpansCompared, LevelIn, Role
<1>8. SpansPending'
    BY <1>4 DEF SpansPending, Role
<1>9. QED
    BY <1>1, <1>5, <1>6, <1>7, <1>8 DEF NotesInv

LEMMA StartNotes ==
    ASSUME TypeOK, ShapeInv, NotesInv, StartCron \/ \E w \in Sessions : StartSession(w)
    PROVE  NotesInv'
<1>1. CASE StartCron
    <2>1. Cron \in Refreshers /\ at[Cron] = "idle"
        BY <1>1 DEF StartCron, Refreshers
    <2>2. /\ at' = [at EXCEPT ![Cron] = "ground"]
          /\ todo' = [todo EXCEPT ![Cron] = [i \in Roles |-> i]]
          /\ UNCHANGED <<row, previous, completed, notes, lowest, highest, live, risen,
                         matched>>
        BY <1>1 DEF StartCron, Goto, tables, history
    <2>3. at'[Cron] = "ground" /\ matched'[Cron] \subseteq completed
        BY <2>1, <2>2 DEF TypeOK, NotesInv
    <2>4. QED
        BY <2>1, <2>2, <2>3, NotesKept DEF TypeOK, Noting
<1>2. ASSUME NEW w \in Sessions, StartSession(w)
      PROVE  NotesInv'
    <2>1. w \in Refreshers
        BY DEF Refreshers
    <2>2. /\ at' = [at EXCEPT ![w] = "check"]
          /\ UNCHANGED <<row, previous, completed, notes, lowest, highest, live, risen,
                         matched, todo>>
        BY <1>2 DEF StartSession, Goto, tables, history
    <2>3. at'[w] = "check" /\ matched'[w] \subseteq completed
        BY <2>1, <2>2 DEF TypeOK, NotesInv
    <2>4. QED
        BY <2>1, <2>2, <2>3, NotesKept DEF TypeOK, Noting
<1>3. QED
    BY <1>1, <1>2

\* The steps of a batch that owes no note before or after.
LEMMA QuietNotes ==
    ASSUME TypeOK, ShapeInv, NotesInv, NEW w \in Refreshers,
           CheckRole(w) \/ Ground(w) \/ Skip(w) \/ ReadPrevious(w) \/ Die(w)
    PROVE  NotesInv'
<1>1. /\ UNCHANGED <<row, lowest, highest, completed, notes>>
    BY DEF CheckRole, Ground, Skip, ReadPrevious, Die, tables, history
<1>2. at'[w] \notin Noting
    <2>1. CASE CheckRole(w)
        BY <2>1 DEF CheckRole, Goto, TypeOK, Noting
    <2>2. CASE Skip(w)
        BY <2>2 DEF Skip, Proceed, Goto, TypeOK, Noting
    <2>3. CASE Ground(w) \/ ReadPrevious(w) \/ Die(w)
        BY <2>3 DEF Ground, ReadPrevious, Die, Goto, TypeOK, Noting
    <2>4. QED
        BY <2>1, <2>2, <2>3
<1>3. matched'[w] \subseteq completed
    <2>1. CASE Skip(w) \/ Die(w)
        BY <2>1 DEF Skip, Proceed, Die, TypeOK
    <2>2. CASE ~(Skip(w) \/ Die(w))
        <3>1. matched' = matched
            BY <2>2 DEF CheckRole, Ground, ReadPrevious
        <3>2. QED
            BY <3>1 DEF NotesInv, SpansRow, SpansCompared, SpansPending
    <2>3. QED
        BY <2>1, <2>2
<1>4. at'[w] = "upsert" =>
         Role(w)' = Role(w) /\ (Role(w) \in Roles => previous'[w] = row[Role(w)])
    <2>1. CASE ReadPrevious(w)
        BY <2>1 DEF ReadPrevious, Role, TypeOK
    <2>2. CASE CheckRole(w)
        BY <2>2 DEF CheckRole, Goto, TypeOK
    <2>3. CASE Skip(w)
        BY <2>3 DEF Skip, Proceed, Goto, TypeOK
    <2>4. CASE Ground(w) \/ Die(w)
        BY <2>4 DEF Ground, Die, Goto, TypeOK
    <2>5. QED
        BY <2>1, <2>2, <2>3, <2>4
<1>5. QED
    BY <1>1, <1>2, <1>3, <1>4, StepFrame, NotesKept DEF BatchStep

LEMMA MatchNotes ==
    ASSUME TypeOK, ShapeInv, NotesInv, NEW w \in Refreshers, MatchTopics(w)
    PROVE  NotesInv'
<1>1. /\ at[w] = "match" /\ todo[w] # <<>> /\ live[w] \in StoredRows
      /\ UNCHANGED <<row, completed, notes, lowest, highest>>
    BY DEF MatchTopics, ShapeInv, Grounded, tables, history
<1>2. PICK s \in risen[w] :
         Proceed(w, risen[w] \ {s}, {t \in completed : SkillOf[t] = s})
    BY DEF MatchTopics
<1>3. /\ risen'[w] = risen[w] \ {s}
      /\ matched'[w] = {t \in completed : SkillOf[t] = s}
    BY <1>2 DEF Proceed, TypeOK
<1>4. /\ at'[w] # "upsert"
      /\ at'[w] \in Noting => todo'[w] = todo[w] /\ live'[w] = live[w]
    BY <1>2 DEF Proceed, Goto, TypeOK, Noting
<1>5. QED
    BY <1>1, <1>2, <1>3, <1>4, StepFrame, NotesKept DEF BatchStep, Noting

LEMMA CreateNotes ==
    ASSUME TypeOK, ShapeInv, NotesInv, NEW w \in Refreshers, CreateNote(w)
    PROVE  NotesInv'
<1>1. /\ at[w] = "create" /\ todo[w] # <<>> /\ live[w] \in StoredRows
      /\ Role(w) \in Roles
      /\ UNCHANGED <<row, completed, lowest, highest>>
    BY DEF CreateNote, ShapeInv, Grounded, TypeOK, Role, history
<1>2. PICK u \in matched[w] :
         /\ notes' = [notes EXCEPT ![Role(w)][u] =
                        notes[Role(w)][u] \cup {live[w][SkillOf[u]]}]
         /\ Proceed(w, risen[w], matched[w] \ {u})
    BY DEF CreateNote
<1>3. /\ risen'[w] = risen[w] /\ matched'[w] = matched[w] \ {u}
      /\ at'[w] # "upsert"
      /\ at'[w] \in Noting => todo'[w] = todo[w] /\ live'[w] = live[w]
    BY <1>2 DEF Proceed, Goto, TypeOK, Noting
<1>4. ASSUME NEW r \in Roles, NEW t \in Topics, NEW l \in notes'[r][t]
      PROVE  \/ l \in notes[r][t]
             \/ t \in completed /\ lowest[r][t] < l /\ l <= highest[r][t]
    <2>1. CASE r = Role(w) /\ t = u
        <3>1. t \in completed
            BY <2>1 DEF NotesInv, SpansRow, SpansCompared, SpansPending
        <3>2. /\ lowest[r][t] < live[w][SkillOf[t]]
              /\ live[w][SkillOf[t]] <= highest[r][t]
            BY <1>1, <2>1 DEF NotesInv, SpansPending, Noting
        <3>3. l \in notes[r][t] \/ l = live[w][SkillOf[t]]
            BY <1>2, <2>1 DEF TypeOK
        <3>4. QED
            BY <3>1, <3>2, <3>3
    <2>2. CASE ~(r = Role(w) /\ t = u)
        BY <1>2, <2>2 DEF TypeOK
    <2>3. QED
        BY <2>1, <2>2
<1>5. matched'[w] \subseteq completed
    BY <1>3 DEF NotesInv, SpansRow, SpansCompared, SpansPending
<1>6. QED
    BY <1>1, <1>3, <1>4, <1>5, StepFrame, NotesKept DEF BatchStep, Noting

\* Writing a row widens the span of its role, and the skills it raises are
\* above what it was compared with.
LEMMA UpsertNotes ==
    ASSUME TypeOK, ShapeInv, NotesInv, NEW w \in Refreshers, Upsert(w)
    PROVE  NotesInv'
<1>1. /\ at[w] = "upsert" /\ todo[w] # <<>> /\ live[w] \in StoredRows
    BY DEF Upsert, ShapeInv, Grounded
<1>2. PICK r0 \in Roles : r0 = Role(w)
    BY <1>1 DEF TypeOK, Role
<1>3. PICK skills \in SUBSET Skills :
         skills = Risen(previous[w], live[w]) /\ Proceed(w, skills, {})
    BY DEF Upsert, Risen
<1>4. /\ row' = [row EXCEPT ![r0] = live[w]]
      /\ UNCHANGED <<completed, notes>>
    BY <1>2 DEF Upsert
<1>5. \A v \in Refreshers \ {w} :
         /\ at'[v] = at[v] /\ todo'[v] = todo[v] /\ live'[v] = live[v]
         /\ previous'[v] = previous[v]
         /\ risen'[v] = risen[v] /\ matched'[v] = matched[v]
    BY StepFrame DEF BatchStep
<1>6. ASSUME NEW t \in Topics
      PROVE  LevelIn(live[w], SkillOf[t]) = live[w][SkillOf[t]]
    BY <1>1, RefreshAssumption DEF StoredRows, LevelIn
<1>7. ASSUME NEW r \in Roles, NEW t \in Topics
      PROVE  /\ lowest[r][t] \in Int /\ lowest'[r][t] \in Int
             /\ highest[r][t] \in Int /\ highest'[r][t] \in Int
             /\ lowest'[r][t] <= lowest[r][t] /\ highest[r][t] <= highest'[r][t]
             /\ live[w][SkillOf[t]] \in Int
             /\ r = r0 => /\ lowest'[r][t] <= live[w][SkillOf[t]]
                          /\ live[w][SkillOf[t]] <= highest'[r][t]
    <2>1. lowest[r][t] \in Levels \cup {Unshown} /\ highest[r][t] \in Levels
        BY DEF TypeOK
    <2>2. PICK l \in Levels : l = live[w][SkillOf[t]]
        BY <1>6, <1>1, LevelTypes, LiveLevels, RefreshAssumption
    <2>3. lowest[r][t] \in Int /\ highest[r][t] \in Int /\ l \in Int
        BY <2>1, <2>2 DEF Levels, Unshown, Absent, High
    <2>4. CASE r = r0
        <3>1. /\ lowest' = [lowest EXCEPT ![r0] = [u \in Topics |->
                    Smaller(lowest[r0][u], LevelIn(live[w], SkillOf[u]))]]
              /\ highest' = [highest EXCEPT ![r0] = [u \in Topics |->
                    Larger(highest[r0][u], LevelIn(live[w], SkillOf[u]))]]
            BY <1>2 DEF Upsert, Raised, TypeOK
        <3>2. /\ lowest'[r][t] = Smaller(lowest[r][t], l)
              /\ highest'[r][t] = Larger(highest[r][t], l)
            BY <1>6, <2>2, <2>4, <3>1 DEF TypeOK
        <3>3. QED
            BY <2>2, <2>3, <3>2 DEF Smaller, Larger
    <2>5. CASE r # r0
        <3>1. lowest'[r] = lowest[r] /\ highest'[r] = highest[r]
            BY <1>2, <2>5 DEF Upsert, Raised, TypeOK
        <3>2. QED
            BY <2>2, <2>3, <2>5, <3>1
    <2>6. QED
        BY <2>4, <2>5
<1>8. ASSUME NEW r \in Roles, NEW t \in Topics
      PROVE  /\ \A l \in Int : lowest[r][t] <= l => lowest'[r][t] <= l
             /\ \A l \in Int : lowest[r][t] < l => lowest'[r][t] < l
             /\ \A l \in Int : l <= highest[r][t] => l <= highest'[r][t]
    BY <1>7
<1>9. NotesJustified'
    <2> SUFFICES ASSUME NEW r \in Roles, NEW t \in Topics, NEW l \in notes'[r][t]
                 PROVE  t \in completed' /\ lowest'[r][t] < l /\ l <= highest'[r][t]
        BY DEF NotesJustified
    <2>1. l \in notes[r][t]
        BY <1>4
    <2>2. l \in LiveTiers
        BY <2>1 DEF TypeOK
    <2>3. l \in Int
        BY <2>2 DEF LiveTiers, Low, Medium, High
    <2>4. t \in completed /\ lowest[r][t] < l /\ l <= highest[r][t]
        BY <2>1 DEF NotesInv, NotesJustified
    <2>5. QED
        BY <1>4, <1>8, <2>3, <2>4
<1>10. ASSUME NEW r \in Roles, NEW t \in Topics, row'[r] # NoRow
       PROVE  lowest'[r][t] <= LevelIn(row'[r], SkillOf[t])
    <2>1. CASE r = r0
        BY <1>4, <1>6, <1>7, <2>1 DEF TypeOK
    <2>2. CASE r # r0
        <3>1. row'[r] = row[r]
            BY <1>4, <2>2 DEF TypeOK
        <3>2. LevelIn(row[r], SkillOf[t]) \in Int
            BY LevelTypes, LiveLevels, LevelsAreIntegers, RefreshAssumption DEF TypeOK
        <3>3. QED
            BY <1>8, <1>10, <3>1, <3>2 DEF NotesInv, SpansRow, SpansCompared, SpansPending
    <2>3. QED
        BY <2>1, <2>2
<1>11. at'[w] \in Noting \cup {"ground", "idle"}
    BY <1>1, <1>3, ProceedShape
<1>12. ASSUME NEW v \in Refreshers, NEW r \in Roles, NEW t \in Topics,
              at'[v] = "upsert", r = Role(v)', previous'[v] # NoRow
       PROVE  lowest'[r][t] <= LevelIn(previous'[v], SkillOf[t])
    <2>1. v # w
        BY <1>11, <1>12 DEF Noting
    <2>2. at[v] = "upsert" /\ r = Role(v) /\ previous'[v] = previous[v]
        BY <1>5, <1>12, <2>1 DEF Role
    <2>3. LevelIn(previous[v], SkillOf[t]) \in Int
        BY LevelTypes, LiveLevels, LevelsAreIntegers, RefreshAssumption DEF TypeOK
    <2>4. QED
        BY <1>8, <1>12, <2>2, <2>3 DEF NotesInv, SpansRow, SpansCompared, SpansPending
<1>13. ASSUME NEW v \in Refreshers, NEW r \in Roles, NEW t \in Topics,
              at'[v] \in Noting, r = Role(v)',
              t \in matched'[v] \/ SkillOf[t] \in risen'[v]
       PROVE  /\ lowest'[r][t] < live'[v][SkillOf[t]]
              /\ live'[v][SkillOf[t]] <= highest'[r][t]
    <2>1. CASE v = w
        <3>1. risen'[w] = skills /\ matched'[w] = {}
            BY <1>3 DEF Proceed, TypeOK
        <3>2. SkillOf[t] \in Risen(previous[w], live[w])
            BY <1>3, <1>13, <2>1, <3>1
        <3>3. todo'[w] = todo[w] /\ live'[w] = live[w]
            BY <1>3, <1>13, <2>1 DEF Proceed, Goto, TypeOK, Noting
        <3>4. r = r0
            BY <1>2, <1>13, <2>1, <3>3 DEF Role
        <3>5. previous[w] # NoRow
            BY <3>2 DEF Risen
        <3>6. PICK p \in Levels : p = LevelIn(previous[w], SkillOf[t])
            BY LevelTypes, LiveLevels, RefreshAssumption DEF TypeOK
        <3>7. live[w][SkillOf[t]] > p
            BY <1>6, <3>2, <3>5, <3>6 DEF Risen, Significant
        <3>8. lowest[r][t] <= p
            BY <1>1, <1>2, <3>4, <3>5, <3>6 DEF NotesInv, SpansRow, SpansCompared, SpansPending
        <3>9. p \in Int
            BY <3>6, LevelsAreIntegers
        <3>10. QED
            BY <1>7, <2>1, <3>3, <3>4, <3>7, <3>8, <3>9
    <2>2. CASE v # w
        <3>1. /\ at[v] \in Noting /\ r = Role(v) /\ live'[v] = live[v]
              /\ t \in matched[v] \/ SkillOf[t] \in risen[v]
            BY <1>5, <1>13, <2>2 DEF Role
        <3>2. live[v] \in StoredRows
            BY <3>1 DEF ShapeInv, Grounded, Noting
        <3>3. live[v][SkillOf[t]] \in Levels
            BY <3>2, LiveLevels, RefreshAssumption DEF StoredRows
        <3>4. live[v][SkillOf[t]] \in Int
            BY <3>3, LevelsAreIntegers
        <3>5. QED
            BY <1>8, <3>1, <3>4 DEF NotesInv, SpansRow, SpansCompared, SpansPending
    <2>3. QED
        BY <2>1, <2>2
<1>14. ASSUME NEW v \in Refreshers
       PROVE  matched'[v] \subseteq completed'
    <2>1. CASE v = w
        BY <1>3, <2>1 DEF Proceed, TypeOK
    <2>2. CASE v # w
        BY <1>4, <1>5, <2>2 DEF NotesInv, SpansRow, SpansCompared, SpansPending
    <2>3. QED
        BY <2>1, <2>2
<1>15. SpansRow'
    BY <1>10 DEF SpansRow, LevelIn
<1>16. SpansCompared'
    BY <1>12 DEF SpansCompared, LevelIn, Role
<1>17. SpansPending'
    BY <1>13 DEF SpansPending, Role
<1>18. QED
    BY <1>9, <1>14, <1>15, <1>16, <1>17 DEF NotesInv

LEMMA NotesAlways == Spec => []NotesInv
<1>1. Init => NotesInv
    BY DEF Init, NotesInv, NotesJustified, SpansRow, SpansCompared, SpansPending, Noting
<1>2. TypeOK /\ ShapeInv /\ NotesInv /\ [Next]_vars => NotesInv'
    <2> SUFFICES ASSUME TypeOK, ShapeInv, NotesInv, [Next]_vars
                 PROVE  NotesInv'
        OBVIOUS
    <2>1. CASE StartCron \/ \E w \in Sessions : StartSession(w)
        BY <2>1, StartNotes
    <2>2. ASSUME NEW w \in Refreshers, BatchStep(w) \/ Die(w)
          PROVE  NotesInv'
        BY <2>2, QuietNotes, MatchNotes, CreateNotes, UpsertNotes DEF BatchStep
    <2>3. CASE (\E t \in Topics : Complete(t)) \/ (\E r \in Roles : RowAges(r))
        BY <2>3, NotesUntouched DEF Complete, RowAges, batch, history
    <2>4. CASE UNCHANGED vars
        BY <2>4, NotesUntouched DEF vars
    <2>5. QED
        BY <2>1, <2>2, <2>3, <2>4 DEF Next
<1>3. QED
    BY <1>1, <1>2, RefreshShape, PTL DEF Spec

\* A note is created only on a completed topic, and only at a level to which
\* the rows of its role have risen.
THEOREM NotesAreJustified == Spec => []NotesJustified
<1>1. NotesInv => NotesJustified
    BY DEF NotesInv
<1>2. QED
    BY <1>1, NotesAlways, PTL

\* One note, about a topic that is completed, at a tier of a live result: all
\* that Coaching.NoteCreated lets a refresh do to the notes of a learner.
OneNoteComes ==
    \E r \in Roles, t \in completed, l \in LiveTiers :
        notes' = [notes EXCEPT ![r][t] = notes[r][t] \cup {l}]

\* What Coaching takes the refresh to be is what the refresh is: with any number
\* of batches that overlap and die, notes come one at a time, about topics that
\* are completed by then, and none is taken back.
THEOREM NotesComeAsInCoaching == Spec => [][OneNoteComes]_notes
<1>1. ASSUME TypeOK, ShapeInv, NotesInv, [Next]_vars, notes' # notes
      PROVE  OneNoteComes
    <2>1. PICK w \in Refreshers : CreateNote(w)
        BY <1>1 DEF Next, vars, StartCron, StartSession, BatchStep, CheckRole, Ground, Skip,
           ReadPrevious, Upsert, MatchTopics, Die, Complete, RowAges, tables
    <2>2. /\ at[w] = "create" /\ todo[w] # <<>> /\ live[w] \in StoredRows
          /\ Role(w) \in Roles
        BY <1>1, <2>1 DEF CreateNote, ShapeInv, Grounded, TypeOK, Role
    <2>3. PICK t \in matched[w] :
             notes' = [notes EXCEPT ![Role(w)][t] =
                          notes[Role(w)][t] \cup {live[w][SkillOf[t]]}]
        BY <2>1 DEF CreateNote
    <2>4. t \in completed /\ t \in Topics
        BY <1>1, <2>3 DEF NotesInv, TypeOK
    <2>5. live[w][SkillOf[t]] \in LiveTiers
        <3>1. live[w][SkillOf[t]] # Absent
            BY <1>1, <2>2, <2>3 DEF ShapeInv, Noting
        <3>2. SkillOf[t] \in Skills
            BY <2>4, RefreshAssumption
        <3>3. QED
            BY <2>2, <3>1, <3>2 DEF StoredRows
    <2>6. QED
        BY <2>2, <2>3, <2>4, <2>5 DEF OneNoteComes
<1>2. TypeOK /\ ShapeInv /\ NotesInv /\ [Next]_vars => [OneNoteComes]_notes
    BY <1>1
<1>3. QED
    BY <1>2, RefreshShape, NotesAlways, PTL DEF Spec

-----------------------------------------------------------------------------
(* What a high tier rests on                                               *)

\* A high tier that a batch is about to write has a skill in common with the
\* row that is there, or with one before it.
HighBatches ==
    \A w \in Refreshers, r \in Roles :
       at[w] \in {"read", "upsert"} /\ r = Role(w)
       /\ (\E s \in Listed(live[w]) : live[w][s] = High)
          => \E s \in Listed(live[w]) : s \in former[r] \cup Listed(row[r])

HighInv == HighNeedsAnchor /\ HighBatches

\* A step that grounds and writes no row.
LEMMA HighKept ==
    ASSUME HighInv, NEW w \in Refreshers,
           \A v \in Refreshers \ {w} :
              at'[v] = at[v] /\ todo'[v] = todo[v] /\ live'[v] = live[v],
           UNCHANGED <<row, former>>,
           at'[w] \in {"read", "upsert"} =>
              at[w] \in {"read", "upsert"} /\ todo'[w] = todo[w] /\ live'[w] = live[w]
    PROVE  HighInv'
<1>1. HighNeedsAnchor'
    BY DEF HighInv, HighNeedsAnchor, Listed
<1>2. ASSUME NEW v \in Refreshers, NEW r \in Roles,
             at'[v] \in {"read", "upsert"}, r = Role(v)',
             \E s \in Listed(live'[v]) : live'[v][s] = High
      PROVE  \E s \in Listed(live'[v]) : s \in former'[r] \cup Listed(row'[r])
    <2>1. at[v] \in {"read", "upsert"} /\ r = Role(v) /\ live'[v] = live[v]
        BY <1>2 DEF Role
    <2>2. QED
        BY <1>2, <2>1 DEF HighInv, HighBatches
<1>3. HighBatches'
    BY <1>2 DEF HighBatches, Listed, Role
<1>4. QED
    BY <1>1, <1>3 DEF HighInv

LEMMA GroundKeepsHigh ==
    ASSUME TypeOK, ShapeInv, HighInv, NEW w \in Refreshers, Ground(w)
    PROVE  HighInv'
<1>1. /\ at[w] = "ground" /\ todo[w] # <<>>
      /\ at' = [at EXCEPT ![w] = "read"]
      /\ UNCHANGED <<row, former, todo>>
    BY DEF Ground, Goto, ShapeInv, tables, history
<1>2. PICK r0 \in Roles : r0 = Role(w)
    BY <1>1 DEF TypeOK, Role
<1>3. PICK a \in Answers[r0], signal \in BOOLEAN :
         live' = [live EXCEPT ![w] = LiveRow(signal, a.himalayas, a.tavily, row[r0])]
    <2>1. PICK a \in Answers[r0] :
             live' = [live EXCEPT ![w] =
                        LiveRow(UsableSignal(a.relevant, a.count), a.himalayas,
                                a.tavily, row[r0])]
        BY <1>2 DEF Ground
    <2>2. UsableSignal(a.relevant, a.count) \in BOOLEAN
        BY DEF UsableSignal
    <2>3. QED
        BY <2>1, <2>2
<1>4. PICK rw \in StoredRows : rw = LiveRow(signal, a.himalayas, a.tavily, row[r0])
    BY LiveRowStored
<1>5. HighNeedsAnchor'
    BY <1>1 DEF HighInv, HighNeedsAnchor, Listed
<1>6. ASSUME NEW v \in Refreshers, NEW r \in Roles,
             at'[v] \in {"read", "upsert"}, r = Role(v)',
             \E s \in Listed(live'[v]) : live'[v][s] = High
      PROVE  \E s \in Listed(live'[v]) : s \in former'[r] \cup Listed(row'[r])
    <2>1. r = Role(v)
        BY <1>1, <1>6 DEF Role
    <2>2. CASE v = w
        <3>1. live'[w] = rw /\ r = r0
            BY <1>2, <1>3, <1>4, <2>1, <2>2 DEF TypeOK
        <3>2. PICK s \in Skills : rw[s] = High
            BY <1>6, <2>2, <3>1, <1>4, ListedSkills
        <3>3. a.himalayas \in SUBSET Skills
            BY RefreshAssumption
        <3>4. row[r0] \in StoredRows \cup {NoRow}
            BY DEF TypeOK
        <3>5. Listed(rw) \cap Listed(row[r0]) # {}
            BY <1>4, <3>2, <3>3, <3>4, HighIsAnchored
        <3>6. QED
            BY <1>1, <2>2, <3>1, <3>5
    <2>3. CASE v # w
        <3>1. at[v] \in {"read", "upsert"} /\ live'[v] = live[v]
            BY <1>1, <1>3, <1>6, <2>3 DEF TypeOK
        <3>2. QED
            BY <1>1, <1>6, <2>1, <3>1 DEF HighInv, HighBatches
    <2>4. QED
        BY <2>2, <2>3
<1>7. HighBatches'
    BY <1>6 DEF HighBatches, Listed, Role
<1>8. QED
    BY <1>5, <1>7 DEF HighInv

LEMMA UpsertKeepsHigh ==
    ASSUME TypeOK, ShapeInv, HighInv, NEW w \in Refreshers, Upsert(w)
    PROVE  HighInv'
<1>1. at[w] = "upsert" /\ todo[w] # <<>>
    BY DEF Upsert, ShapeInv, Grounded
<1>2. PICK r0 \in Roles : r0 = Role(w)
    BY <1>1 DEF TypeOK, Role
<1>3. /\ row' = [row EXCEPT ![r0] = live[w]]
      /\ former' = [former EXCEPT ![r0] = former[r0] \cup Listed(row[r0])]
    BY <1>2 DEF Upsert, TypeOK
<1>4. \A r \in Roles : former[r] \cup Listed(row[r]) \subseteq former'[r] \cup Listed(row'[r])
    BY <1>3 DEF TypeOK
<1>5. ASSUME NEW r \in Roles, \E s \in Listed(row'[r]) : row'[r][s] = High
      PROVE  \E s \in Listed(row'[r]) : s \in former'[r]
    <2>1. CASE r = r0
        <3>1. row'[r] = live[w] /\ former'[r] = former[r] \cup Listed(row[r])
            BY <1>3, <2>1 DEF TypeOK
        <3>2. QED
            BY <1>1, <1>2, <1>5, <2>1, <3>1 DEF HighInv, HighBatches
    <2>2. CASE r # r0
        <3>1. row'[r] = row[r] /\ former'[r] = former[r]
            BY <1>3, <2>2 DEF TypeOK
        <3>2. QED
            BY <1>5, <3>1 DEF HighInv, HighNeedsAnchor
    <2>3. QED
        BY <2>1, <2>2
<1>6. HighNeedsAnchor'
    BY <1>5 DEF HighNeedsAnchor, Listed
<1>7. at'[w] \notin {"read", "upsert"}
    <2>1. PICK skills : Proceed(w, skills, {})
        BY DEF Upsert
    <2>2. QED
        BY <2>1 DEF Proceed, Goto, TypeOK
<1>8. ASSUME NEW v \in Refreshers, NEW r \in Roles,
             at'[v] \in {"read", "upsert"}, r = Role(v)',
             \E s \in Listed(live'[v]) : live'[v][s] = High
      PROVE  \E s \in Listed(live'[v]) : s \in former'[r] \cup Listed(row'[r])
    <2>1. v # w
        BY <1>7, <1>8
    <2>2. at[v] \in {"read", "upsert"} /\ r = Role(v) /\ live'[v] = live[v]
        BY <1>8, <2>1, StepFrame DEF BatchStep, Role
    <2>3. \E s \in Listed(live[v]) : s \in former[r] \cup Listed(row[r])
        BY <1>8, <2>2 DEF HighInv, HighBatches
    <2>4. QED
        BY <1>4, <2>2, <2>3
<1>9. HighBatches'
    BY <1>8 DEF HighBatches, Listed, Role
<1>10. QED
    BY <1>6, <1>9 DEF HighInv

LEMMA OtherStepsKeepHigh ==
    ASSUME TypeOK, ShapeInv, HighInv, NEW w \in Refreshers,
           CheckRole(w) \/ Skip(w) \/ ReadPrevious(w) \/ MatchTopics(w) \/ CreateNote(w)
              \/ Die(w)
    PROVE  HighInv'
<1>1. UNCHANGED <<row, former>>
    BY DEF CheckRole, Skip, ReadPrevious, MatchTopics, CreateNote, Die, tables, history
<1>2. at'[w] \in {"read", "upsert"} =>
         at[w] \in {"read", "upsert"} /\ todo'[w] = todo[w] /\ live'[w] = live[w]
    <2>1. CASE CheckRole(w)
        BY <2>1 DEF CheckRole, Goto, TypeOK
    <2>2. CASE ReadPrevious(w)
        BY <2>2 DEF ReadPrevious, Goto, TypeOK
    <2>3. CASE Die(w)
        BY <2>3 DEF Die, Goto, TypeOK
    <2>4. CASE Skip(w) \/ MatchTopics(w) \/ CreateNote(w)
        <3>1. PICK skills, topics : Proceed(w, skills, topics)
            BY <2>4 DEF Skip, MatchTopics, CreateNote
        <3>2. QED
            BY <3>1 DEF Proceed, Goto, TypeOK
    <2>5. QED
        BY <2>1, <2>2, <2>3, <2>4
<1>3. QED
    BY <1>1, <1>2, StepFrame, HighKept DEF BatchStep

LEMMA StartKeepsHigh ==
    ASSUME TypeOK, ShapeInv, HighInv, StartCron \/ \E w \in Sessions : StartSession(w)
    PROVE  HighInv'
<1>1. CASE StartCron
    <2>1. Cron \in Refreshers
        BY DEF Refreshers
    <2>2. /\ at' = [at EXCEPT ![Cron] = "ground"]
          /\ todo' = [todo EXCEPT ![Cron] = [i \in Roles |-> i]]
          /\ UNCHANGED <<row, former, live>>
        BY <1>1 DEF StartCron, Goto, tables, history
    <2>3. QED
        BY <2>1, <2>2, HighKept DEF TypeOK
<1>2. ASSUME NEW w \in Sessions, StartSession(w)
      PROVE  HighInv'
    <2>1. w \in Refreshers
        BY DEF Refreshers
    <2>2. /\ at' = [at EXCEPT ![w] = "check"]
          /\ UNCHANGED <<row, former, live, todo>>
        BY <1>2 DEF StartSession, Goto, tables, history
    <2>3. QED
        BY <2>1, <2>2, HighKept DEF TypeOK
<1>3. QED
    BY <1>1, <1>2

LEMMA HighUntouched ==
    ASSUME HighInv, UNCHANGED <<row, former, at, todo, live>>
    PROVE  HighInv'
<1>1. HighNeedsAnchor'
    BY DEF HighInv, HighNeedsAnchor, Listed
<1>2. HighBatches'
    BY DEF HighInv, HighBatches, Listed, Role
<1>3. QED
    BY <1>1, <1>2 DEF HighInv

\* A row reaches the high tier only with a skill an earlier row of the role
\* listed, whichever batch wrote that row.
THEOREM HighIsEarned == Spec => []HighNeedsAnchor
<1>1. Init => HighInv
    BY DEF Init, HighInv, HighNeedsAnchor, HighBatches, Listed, NoRow
<1>2. TypeOK /\ ShapeInv /\ HighInv /\ [Next]_vars => HighInv'
    <2> SUFFICES ASSUME TypeOK, ShapeInv, HighInv, [Next]_vars
                 PROVE  HighInv'
        OBVIOUS
    <2>1. CASE StartCron \/ \E w \in Sessions : StartSession(w)
        BY <2>1, StartKeepsHigh
    <2>2. ASSUME NEW w \in Refreshers, BatchStep(w) \/ Die(w)
          PROVE  HighInv'
        BY <2>2, GroundKeepsHigh, UpsertKeepsHigh, OtherStepsKeepHigh DEF BatchStep
    <2>3. CASE (\E t \in Topics : Complete(t)) \/ (\E r \in Roles : RowAges(r))
        BY <2>3, HighUntouched DEF Complete, RowAges, batch, history
    <2>4. CASE UNCHANGED vars
        BY <2>4, HighUntouched DEF vars
    <2>5. QED
        BY <2>1, <2>2, <2>3, <2>4 DEF Next
<1>3. HighInv => HighNeedsAnchor
    BY DEF HighInv
<1>4. QED
    BY <1>1, <1>2, <1>3, RefreshShape, PTL DEF Spec
=============================================================================
