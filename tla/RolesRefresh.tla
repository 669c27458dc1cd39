---------------------------- MODULE RolesRefresh ----------------------------
(***************************************************************************)
(* The refresh of the roles cache: cron/refresh_roles.py, run by the       *)
(* scheduled job over all seed roles and by main once per browser session  *)
(* over those that are stale or missing, with the patch-notes either       *)
(* derives from what rose.                                                 *)
(*                                                                         *)
(* Both run the same batch: per role, in order, ground it (the sources may *)
(* fail or be silent), read the row again, overwrite it, and then, skill   *)
(* by skill and learner by learner, commit a patch-note for every          *)
(* completed topic a risen skill names.  Nothing locks a role, so two      *)
(* batches may be anywhere in the same one.  A database error in a batch,  *)
(* like the death of its process, drops whatever it still had to do.       *)
(***************************************************************************)
EXTENDS Grounding, Sequences

CONSTANTS
    NumRoles,           \* SEED_ROLES, by position
    Cron,               \* the scheduled job
    Sessions,           \* browser sessions
    Topics,             \* outline topics of all learners
    SkillOf,            \* the skill a topic is named after
    Answers,            \* per role, what the two sources may say of it
    MaxCron,            \* bound: scheduled runs
    MaxMonths,          \* bound: rows that age past the staleness floor
    MaxFaults           \* bound: batches that die

Roles == 1..NumRoles
Refreshers == {Cron} \cup Sessions

ASSUME RefreshAssumption ==
    /\ NumRoles \in Nat \ {0}
    /\ Cron \notin Sessions
    /\ SkillOf \in [Topics -> Skills]
    /\ \A r \in Roles :
          Answers[r] \subseteq [count : Nat, relevant : Nat,
                                himalayas : SUBSET Skills, tavily : SUBSET Skills]
    /\ MaxCron \in Nat
    /\ MaxMonths \in Nat
    /\ MaxFaults \in Nat

VARIABLES
    row,            \* roles_cache: a row or NoRow, per role
    stale,          \* the roles whose row is past the staleness floor
    completed,      \* topics with a completion status
    notes,          \* per role and topic, the levels of the patch-notes created
    at,             \* the step each batch is about to take, or "idle"
    todo,           \* the roles it still has to do, the current one first
    checking,       \* the role a session's staleness check is at
    live,           \* the row it has grounded
    previous,       \* the row it has read before overwriting it
    risen,          \* the risen skills it has not looked up topics for
    matched,        \* the topics of one of them that wait for their note
    checked,        \* sessions with startup_staleness_checked set
    crons, months, faults,      \* counters of the bounds
    \* History, for the properties only:
    excused,        \* per role and topic, the level the learner need not be told
    raced,          \* the level a rise was lost to, two batches having overlapped
    former,         \* the skills that rows before the present one listed
    lowest,         \* the lowest level a row has shown of each topic's skill
    highest         \* and the highest

tables == <<row, stale, completed, notes>>
batch == <<at, todo, checking, live, previous, risen, matched>>
bounds == <<crons, months, faults>>
history == <<excused, raced, former, lowest, highest>>
vars == <<row, stale, completed, notes, at, todo, checking, live, previous, risen,
          matched, checked, crons, months, faults, excused, raced, former, lowest,
          highest>>

-----------------------------------------------------------------------------
Steps == {"check", "ground", "read", "upsert", "match", "create"}
Unshown == High + 1

Init ==
    /\ row = [r \in Roles |-> NoRow]
    /\ stale = {}
    /\ completed = {}
    /\ notes = [r \in Roles |-> [t \in Topics |-> {}]]
    /\ at = [w \in Refreshers |-> "idle"]
    /\ todo = [w \in Refreshers |-> <<>>]
    /\ checking = [w \in Refreshers |-> 0]
    /\ live = [w \in Refreshers |-> NoRow]
    /\ previous = [w \in Refreshers |-> NoRow]
    /\ risen = [w \in Refreshers |-> {}]
    /\ matched = [w \in Refreshers |-> {}]
    /\ checked = {}
    /\ crons = 0 /\ months = 0 /\ faults = 0
    /\ excused = [r \in Roles |-> [t \in Topics |-> Absent]]
    /\ raced = [r \in Roles |-> [t \in Topics |-> Absent]]
    /\ former = [r \in Roles |-> {}]
    /\ lowest = [r \in Roles |-> [t \in Topics |-> Unshown]]
    /\ highest = [r \in Roles |-> [t \in Topics |-> Absent]]

Role(w) == Head(todo[w])
Goto(w, step) == at' = [at EXCEPT ![w] = step]
Larger(a, b) == IF a >= b THEN a ELSE b
Smaller(a, b) == IF a <= b THEN a ELSE b

\* The level a row shows of a skill; what is not there is absent.
LevelIn(rw, s) == IF s \in DOMAIN rw THEN rw[s] ELSE Absent

-----------------------------------------------------------------------------
(* Starting a batch                                                        *)

\* The scheduled job takes every seed role, fresh or not.
StartCron ==
    /\ at[Cron] = "idle"
    /\ crons < MaxCron
    /\ crons' = crons + 1
    /\ todo' = [todo EXCEPT ![Cron] = [i \in Roles |-> i]]
    /\ Goto(Cron, "ground")
    /\ UNCHANGED <<tables, checking, live, previous, risen, matched, checked,
                   months, faults, history>>

\* _maybe_check_stale_roles: the flag is set before anything is tried.
StartSession(w) ==
    /\ w \notin checked
    /\ checked' = checked \cup {w}
    /\ checking' = [checking EXCEPT ![w] = 1]
    /\ Goto(w, "check")
    /\ UNCHANGED <<tables, todo, live, previous, risen, matched, bounds, history>>

StaleOrMissing(r) == row[r] = NoRow \/ r \in stale

\* get_stale_or_missing_roles, one role: what is fresh now is not refreshed.
CheckRole(w) ==
    /\ at[w] = "check"
    /\ LET r == checking[w]
           left == IF StaleOrMissing(r) THEN Append(todo[w], r) ELSE todo[w]
       IN  /\ todo' = [todo EXCEPT ![w] = left]
           /\ IF r < NumRoles
              THEN /\ checking' = [checking EXCEPT ![w] = r + 1]
                   /\ UNCHANGED at
              ELSE /\ checking' = [checking EXCEPT ![w] = 0]
                   /\ Goto(w, IF left = <<>> THEN "idle" ELSE "ground")
    /\ UNCHANGED <<tables, live, previous, risen, matched, checked, bounds, history>>

-----------------------------------------------------------------------------
(* refresh_roles_cache, one role                                           *)

\* On with these skills to look up and these topics to create a note for, or
\* to the next role when there are none.
Proceed(w, skills, topics) ==
    /\ risen' = [risen EXCEPT ![w] = skills]
    /\ matched' = [matched EXCEPT ![w] = topics]
    /\ IF skills = {} /\ topics = {}
       THEN /\ todo' = [todo EXCEPT ![w] = Tail(@)]
            /\ live' = [live EXCEPT ![w] = NoRow]
            /\ Goto(w, IF Tail(todo[w]) = <<>> THEN "idle" ELSE "ground")
       ELSE /\ Goto(w, IF topics = {} THEN "match" ELSE "create")
            /\ UNCHANGED <<todo, live>>

\* Mutated form of Ground: a cached fallback is written back.
GroundOrFallback(w) ==
    /\ at[w] = "ground"
    /\ \E a \in Answers[Role(w)] :
          LET signal == UsableSignal(a.relevant, a.count)
          IN  live' = [live EXCEPT ![w] =
                        IF Rejected(signal, a.tavily)
                        THEN Fallback(row[Role(w)])
                        ELSE LiveRow(signal, a.himalayas, a.tavily, row[Role(w)])]
    /\ Goto(w, "read")
    /\ UNCHANGED <<tables, todo, checking, previous, risen, matched, checked, bounds,
                   history>>

\* ground_role found a live signal.  The anchor is the row as it is now.
Ground(w) ==
    /\ at[w] = "ground"
    /\ \E a \in Answers[Role(w)] :
          LET signal == UsableSignal(a.relevant, a.count)
          IN  /\ ~Rejected(signal, a.tavily)
              /\ live' = [live EXCEPT ![w] =
                            LiveRow(signal, a.himalayas, a.tavily, row[Role(w)])]
    /\ Goto(w, "read")
    /\ UNCHANGED <<tables, todo, checking, previous, risen, matched, checked, bounds,
                   history>>

\* It found none, raised or took longer than ROLE_REFRESH_TIMEOUT_SECONDS: the
\* row stays what it is, and is not tried again in this batch.
Skip(w) ==
    /\ at[w] = "ground"
    /\ Proceed(w, {}, {})
    /\ UNCHANGED <<tables, checking, previous, checked, bounds, history>>

\* get_role, once more.
ReadPrevious(w) ==
    /\ at[w] = "read"
    /\ previous' = [previous EXCEPT ![w] = row[Role(w)]]
    /\ Goto(w, "upsert")
    /\ UNCHANGED <<tables, todo, checking, live, risen, matched, checked, bounds,
                   history>>

\* Mutated form of Risen: the tiers of a skill listed before are not compared.
RisenWhenNew(old, new) ==
    IF old = NoRow THEN {}
    ELSE {s \in Skills : s \notin Listed(old) /\ s \in Listed(new)}

\* The diff of create_patch_notes_for_significant_events; a first-ever row has
\* none.
Risen(old, new) ==
    IF old = NoRow THEN {}
    ELSE {s \in Skills : Significant(LevelIn(old, s), LevelIn(new, s))}

\* A history of role r, raised for these topics to the levels a row shows.
Raised(levels, r, topics, rw) ==
    [levels EXCEPT ![r] = [t \in Topics |->
        IF t \in topics THEN Larger(@[t], LevelIn(rw, SkillOf[t])) ELSE @[t]]]

\* upsert_role, and the diff against the row read before.  There is none when
\* that was no row, though another batch may have stored one meanwhile.
Upsert(w) ==
    /\ at[w] = "upsert"
    /\ LET r == Role(w)
       IN  /\ row' = [row EXCEPT ![r] = live[w]]
           /\ stale' = stale \ {r}
           /\ excused' = IF row[r] = NoRow
                         THEN Raised(excused, r, completed, live[w]) ELSE excused
           /\ raced' = IF previous[w] = NoRow /\ row[r] # NoRow
                       THEN Raised(raced, r, completed, live[w]) ELSE raced
           /\ former' = [former EXCEPT ![r] = @ \cup Listed(row[r])]
           /\ lowest' = [lowest EXCEPT ![r] = [t \in Topics |->
                           Smaller(@[t], LevelIn(live[w], SkillOf[t]))]]
           /\ highest' = Raised(highest, r, Topics, live[w])
    /\ previous' = [previous EXCEPT ![w] = NoRow]
    /\ Proceed(w, Risen(previous[w], live[w]), {})
    /\ UNCHANGED <<completed, notes, checking, checked, bounds>>

\* get_completed_topics_matching_skill, over all learners whatever their role.
MatchTopics(w) ==
    /\ at[w] = "match"
    /\ \E s \in risen[w] :
          Proceed(w, risen[w] \ {s}, {t \in completed : SkillOf[t] = s})
    /\ UNCHANGED <<tables, checking, previous, checked, bounds, history>>

\* create_patch_note, a commit of its own.
CreateNote(w) ==
    /\ at[w] = "create"
    /\ \E t \in matched[w] :
          /\ notes' = [notes EXCEPT ![Role(w)][t] = @ \cup {live[w][SkillOf[t]]}]
          /\ Proceed(w, risen[w], matched[w] \ {t})
    /\ UNCHANGED <<row, stale, completed, checking, previous, checked, bounds,
                   history>>

-----------------------------------------------------------------------------
(* What happens around a batch                                             *)

\* The batch still has to create a note on topic t.
Owes(w, t) == t \in completed /\ (t \in matched[w] \/ SkillOf[t] \in risen[w])

\* A database error, or the end of the process.
Die(w) ==
    /\ at[w] # "idle"
    /\ faults < MaxFaults
    /\ faults' = faults + 1
    /\ Goto(w, "idle")
    /\ todo' = [todo EXCEPT ![w] = <<>>]
    /\ checking' = [checking EXCEPT ![w] = 0]
    /\ live' = [live EXCEPT ![w] = NoRow]
    /\ previous' = [previous EXCEPT ![w] = NoRow]
    /\ risen' = [risen EXCEPT ![w] = {}]
    /\ matched' = [matched EXCEPT ![w] = {}]
    /\ excused' =
          IF at[w] \notin {"match", "create"} THEN excused
          ELSE [excused EXCEPT ![Role(w)] = [t \in Topics |->
                  IF Owes(w, t) THEN Larger(@[t], live[w][SkillOf[t]]) ELSE @[t]]]
    /\ UNCHANGED <<tables, checked, crons, months, raced, former, lowest, highest>>

\* The levels of topic t's skill in the rows of role r that batches have read and
\* not yet overwritten: their diff starts there, whatever the row shows by now.
LevelsCompared(r, t) ==
    {LevelIn(previous[w], SkillOf[t]) :
        w \in {v \in Refreshers : at[v] = "upsert" /\ Role(v) = r}}

LargestOf(S) == CHOOSE l \in S : \A m \in S : l >= m

\* A learner completes a topic (Coaching.MarkCompleted).
Complete(t) ==
    /\ t \notin completed
    /\ completed' = completed \cup {t}
    /\ excused' = [r \in Roles |->
                     [excused[r] EXCEPT ![t] = Larger(@, LevelIn(row[r], SkillOf[t]))]]
    /\ raced' = [r \in Roles |->
                   [raced[r] EXCEPT ![t] =
                      Larger(@, LargestOf({Absent} \cup LevelsCompared(r, t)))]]
    /\ UNCHANGED <<row, stale, notes, batch, checked, bounds, former, lowest, highest>>

\* is_stale: the row of a role passes STALENESS_FLOOR_DAYS.
RowAges(r) ==
    /\ row[r] # NoRow /\ r \notin stale
    /\ months < MaxMonths
    /\ months' = months + 1
    /\ stale' = stale \cup {r}
    /\ UNCHANGED <<row, completed, notes, batch, checked, crons, faults, history>>

-----------------------------------------------------------------------------
BatchStep(w) ==
    \/ CheckRole(w)
    \/ Ground(w)
    \/ Skip(w)
    \/ ReadPrevious(w)
    \/ Upsert(w)
    \/ MatchTopics(w)
    \/ CreateNote(w)

Next ==
    \/ StartCron
    \/ \E w \in Sessions : StartSession(w)
    \/ \E w \in Refreshers : BatchStep(w) \/ Die(w)
    \/ \E t \in Topics : Complete(t)
    \/ \E r \in Roles : RowAges(r)

Spec == Init /\ [][Next]_vars

-----------------------------------------------------------------------------
(* Properties                                                              *)

\* What a refresh may store: never the lowest tier, of a row that is only shown
\* again.
StoredRows == [Skills -> {Absent} \cup LiveTiers]

\* Every variable has its type; in particular no row holds what was only a
\* fallback.
TypeOK ==
    /\ row \in [Roles -> StoredRows \cup {NoRow}]
    /\ stale \subseteq Roles
    /\ completed \subseteq Topics
    /\ notes \in [Roles -> [Topics -> SUBSET LiveTiers]]
    /\ at \in [Refreshers -> Steps \cup {"idle"}]
    /\ todo \in [Refreshers -> Seq(Roles)]
    /\ checking \in [Refreshers -> 0..NumRoles]
    /\ live \in [Refreshers -> StoredRows \cup {NoRow}]
    /\ previous \in [Refreshers -> StoredRows \cup {NoRow}]
    /\ risen \in [Refreshers -> SUBSET Skills]
    /\ matched \in [Refreshers -> SUBSET Topics]
    /\ checked \subseteq Sessions
    /\ crons \in Nat /\ months \in Nat /\ faults \in Nat
    /\ excused \in [Roles -> [Topics -> Levels]]
    /\ raced \in [Roles -> [Topics -> Levels]]
    /\ former \in [Roles -> SUBSET Skills]
    /\ lowest \in [Roles -> [Topics -> Levels \cup {Unshown}]]
    /\ highest \in [Roles -> [Topics -> Levels]]

\* The learner of topic t has been told that role r now asks for level l of
\* its skill, or is about to be, or need not be.
Told(r, t, l) ==
    \/ l <= excused[r][t]
    \/ \E n \in notes[r][t] : n >= l
    \/ \E w \in Refreshers :
          /\ at[w] \in {"match", "create"} /\ Role(w) = r
          /\ Owes(w, t)
          /\ LevelIn(live[w], SkillOf[t]) >= l

\* Or will never be, two batches having overlapped in the role.
Covered(r, t, l) == Told(r, t, l) \/ l <= raced[r][t]

\* A learner who completed a topic hears of every rise of its skill
\* (README.md:35), with five exceptions.  The level a row shows is one there is a
\* note of, or a batch still owes a note of, unless that level or a higher one
\*   - was in the row when the learner completed the topic;
\*   - was in the role's first row, stored after that;
\*   - was one a batch owed a note of when it died;
\*   - was in a row stored after that, over one of another batch, by a batch that
\*     had found the role without a row, and so compared it with nothing;
\*   - was in the row a batch was about to compare its own with when the learner
\*     completed the topic, though the row was by then another batch's.
\* The last two are rises that overlapping batches lose, though nothing failed.
RiseReachesLearner ==
    \A r \in Roles : \A t \in completed : Covered(r, t, LevelIn(row[r], SkillOf[t]))

\* A note tells of something that happened: its topic is completed, and the
\* role's row has shown the skill at that level and below it.
NotesJustified ==
    \A r \in Roles : \A t \in Topics : \A l \in notes[r][t] :
        /\ t \in completed
        /\ lowest[r][t] < l
        /\ l <= highest[r][t]

\* A row is at the high tier only with a skill an earlier row of the role
\* listed: "agreement" is with the anchor, whoever wrote the row in between.
HighNeedsAnchor ==
    \A r \in Roles :
        (\E s \in Listed(row[r]) : row[r][s] = High)
            => \E s \in Listed(row[r]) : s \in former[r]
=============================================================================
