# North Star: a verification project

TLA+ models of North Star (the career-learning program of this repository),
TLC runs that check them on small instances, and TLAPS proofs of what matters
most for every size. Everything is translated from the code under `src/`; where
the README of the program, a docstring or a message to the learner promises
something the code does not do, a run shows it.

## The system

One Streamlit app (`src/main.py`) takes a learner through pages; one browser
session keeps its place in `st.session_state` and everything else in Postgres.
Two agents (`agents/`) call Gemini and two job-market sources and do the
multi-step work of a page. A monthly job (`cron/refresh_roles.py`) refreshes the
cached market data, and so does every new browser session if the cache is stale.

| Component | State | Operations | Hard about it |
|---|---|---|---|
| Intake and Clarify Gate (`main.py` 236-350, `research_outline_agent.py` 531-669, `input_gate.py`) | gate stage, rounds, resolved role | first turn, narrowing, proposal, explanation, own words | bounded loop driven by a language model; both ends lead on |
| Research grounding (`research_outline_agent.py` 753-857, `cross_validation.py`, `grounding_fallback.py`) | grounding result, role on the user's row | two sources in parallel, cache, floor | a source may fail one time and answer the next |
| Outline creation and confirmation (`main.py` 413-604) | `outline_topics` rows, outline shown, review turn | create, replace, question, concern, addition, confirm | rows are committed before the session is written |
| Day-by-day coaching (`main.py` 667-790) | current topic, day, step | next step, next day, test-out | content generated anew, log row per day |
| Verification (`main.py` 879-984, `coaching_pace_agent.py` 471-566 and 767-800) | slot in the session, `verification_attempts` rows | ask, grade, retry, resolve, complete | row committed before the retry exists; log read back for the credit |
| Completion (`coaching_pace_agent.py` 803-920) | `pace_snapshots`, `pace_extension_days`, `patch_notes`, topic status | snapshot, adapt, deliver a note, mark | up to six commits, each of which can be the last |
| Pace (`pace/calculator.py`) | none | score, signal, drift | thresholds met exactly; floating point |
| Patch delivery (`patches/patch_manager.py`, `coaching_pace_agent.py` 661-764) | note status, topic content | deliver high, offer low, learn now, defer | two commits for one decision; looked at only while completing |
| Roles refresh (`cron/refresh_roles.py`, `main.py` 145-170, `significant_event.py`) | `roles_cache`, new notes | check staleness, ground, overwrite, diff, create notes | two refreshers without a lock; row written before the notes |
| Hierarchy (`outline/hierarchy.py`) | topic order | insert, augment | renumbering |
| Gemini runtime (`utils/adk_runtime.py`) | one lock, time of last call | paced call, timeout, retry | one asyncio lock, an event loop per script run |

How they interact: the pages call the agents and store what they return; the
agents call the data functions, each of which commits by itself; the refresh
writes notes that completion later reads. A click on a page that is still busy
starts a second script run (Streamlit's `fastReruns`): the first one goes on
until its next use of `st.session_state`, so what it commits stays and what it
would have put into the session is lost. This, a database error between two
commits, and a Gemini call that raises are the failures the models have.

## Modules

| Module | Models | Corresponds to |
|---|---|---|
| `Quiz` | abstract | what one topic's verification promises: slots resolve in order, completion comes last |
| `Verification` | one topic's quiz | session slot, attempt log, retries, cap, completion from the log; refines `Quiz` |
| `VerificationProofs` | proofs about `Verification` | |
| `PaceMath` | operators | `calculator.py` in exact arithmetic, fractions multiplied out |
| `Pace` | one learner's history | any sequence of topics measured; verdicts kept beside the rows |
| `PaceProofs` | proofs about `Pace` | |
| `Journey` | abstract | what coaching promises: topics complete in order and for good, then the goal |
| `Coaching` | all topics of an outline | `complete_topic_verification` commit by commit, patch notes, banner, next topic, goal; refines `Journey` |
| `LearningPlan` | abstract | what onboarding promises of the stored plan: one role, its grounded skills and at most one addition, frozen from day one on |
| `Onboarding` | intake to day one | gate, grounding, outline creation and review; refines `LearningPlan` |
| `OnboardingProofs` | proofs about `Onboarding` | |
| `Hierarchy` | operators | `insert_new_topic`: where a topic goes, what raises, what an insertion owes |
| `HierarchyProofs`, `PaceMathProofs`, `CoachingProofs` | proofs about `Hierarchy`, `PaceMath`, `Coaching` | |
| `Grounding` | operators | `ground_role` on the sources' answers and the cached row: signal, citation, tier, the row it becomes, the fallback; `is_significant_event` |
| `RolesRefresh` | `roles_cache`, the notes of all learners | the scheduled job and the staleness check of each browser session, commit by commit; built on `Grounding` |
| `RolesRefreshProofs` | proofs about `RolesRefresh` | |
| `GeminiCalls` | the process | `_pace_gemini_call` and `call_agent_json` for concurrent script runs, with the statements of `asyncio.Lock` |
| `GeminiCallsProofs` | proofs about `GeminiCalls` | |
| `MCVerification`, `MCCoaching`, `MCRolesRefresh` | instances for TLC | model values and symmetry |

Each variable is named after the column or session key it models, each action
after the function or button. Actions have the size of a transaction: what one
data function commits is one step, and the session write that follows is the
next. A transaction is atomic in the models, and one is less than that in the code:
`insert_outline_topics` selects the rows, deletes those it has read and inserts the
new ones, so two insertions that overlap (of a stopped run and of the next) may both
leave their outline; `InsertRows` and `LateInsert` of `Onboarding` take it as one
step. `Verification` takes the completion of a topic as one step and checks what
it may credit; `Coaching` takes the quiz as one step and checks the order of the
commits in the completion. The two share `status`, in `Verification` of one topic.

An operator introduced as the "mutated form" of a definition is that definition
with a plausible bug. No specification uses it; put in place of the definition it
makes a property of the runs fail, which shows that the property depends on the
code there.

What is abstracted: texts, prompts, days of content, urls and dates are left out;
a question is a model value, an outline the set of skills it covers, a patch-note
its topic, confidence and status. What a learner answers, what the language model
decides (a grade, an intent, a role) and what a source finds are choices.

### Script runs

`Verification` and `Onboarding` follow the run that serves the page and keep the
commits of stopped runs aside until they happen (`orphans`, `late`), or never do.
`Coaching` has a process per run (`runs`, of which `page` serves the page), since
there a stopped run still has several steps to go: `complete_topic_verification`
does not touch the session until it returns. The page closes the database session
of the previous run; a stopped run that is hit by this between two statements
fails like one with a database error.

### The refresh and its history variables

A batch of `RolesRefresh` (`at`, `todo`, `live`, `previous`, `risen`, `matched`)
is one run of `refresh_roles_cache` with the local variables of its functions; the
scheduled job and any number of sessions run theirs at once. `row` and `notes` are
the tables. `excused`, `raced`, `former`, `lowest` and `highest` are in no table,
and no guard reads them. `excused` remembers what a learner need not be told (the
level of the row when they completed the topic, the role's first row, what a dying
batch owed), `raced` what two overlapping batches lost, and the others what rows
have shown, so that the properties can speak of it. `Coaching` keeps the
refresh's effects on one learner (`NoteCreated`, `RoleRefreshed`).

### One lock, many event loops

`main._run_async` gives every script run an event loop of its own, in its own
thread, and all of them enter the one module-level `asyncio.Lock`. Nothing under
`src/` shows what that does, so `GeminiCalls` models CPython's
`asyncio.Lock.acquire` and `release` as external code, one step for each statement
between which the interpreter may switch threads: the test of a free lock is one
step while no queue has been made and two afterwards; the lock binds itself to the
loop of the first caller that waits and raises `RuntimeError` in every other;
waking a waiter sets its future and schedules a callback on its loop, which a
loop blocked in its selector does not notice, as nothing else is due on it. What
the model shows rests on this reading of the library.

### The pace in whole numbers

With `e` expected days, `Signal` is the combined signal times `50 e^2`, a topic
score is in tenths. A comparison in floating point may go either way when both
sides are equal; `Drifts` returns the set of verdicts possible then, and
everything that uses a verdict chooses from it.

## Runs

| Run | Checks | Bounds and why they are enough |
|---|---|---|
| `verification` | `TypeOK`, `EarlierAttemptsFailed`, `CompletionSound`, `FreshRetry`, `CapUpToFaults`, `QuizPromise`, `QuizEnds` | 2 slots, the code's 3 attempts, 3 texts per retry pool, 2 lost results: enough for two rows that tie, for a slot behind its log and for both in one quiz |
| `retry_cap` (violation) | `RetryCap` | 1 failed generation |
| `pace` | `TypeOK`, `UnderstandingDecides`, `OneTopicIsNoTrend`, `ImprovementHelps` | all scores, 1-7 days, 1, 3 and 5 days expected, histories of 3 topics: the window of `detect_sustained_drift` |
| `coaching` | `TypeOK`, `CompletedMeasured`, `ExtensionEarned`, `NeverReopened`, `JourneyPromise` | 3 topics (a full window), 2 runs, 1 note, 1 failed or interrupted run |
| `coaching_live` | `NotesSound`, `GoalReached` | 2 topics, 2 notes (two that compete), 1 fault |
| `sustained_trend` (violation) | `SustainedTrend` | 2 faults in the completion of one topic |
| `high_delivered` (violation) | `HighDelivered` | 1 note, no fault |
| `onboarding` | `TypeOK`, `RowsGrounded`, `ShownIsStored`, `OutlineFrozen`, `PlanPromise`, `GateEnds`, `PlanReached` | 3 skills (one grounded, two added), the code's 2 rounds in both loops, 2 failed or stopped runs |
| `roles_refresh` | `TypeOK`, `RiseReachesLearner`, `NotesJustified`, `HighNeedsAnchor` | 2 roles (a batch with something left to do), 2 skills that together clear the trust threshold of 2, 2 topics of one skill (a note can be created for one and not yet for the other), the cron twice and 1 session (two batches in one role), 1 month, 1 death: rows rise, fall and rise again, and a batch dies between any two commits |
| `gemini_calls` | `TypeOK`, `Spaced`, `OneHangs`, `HangIsFinal`, `OthersEnd`, `HangFailsTheRest` | 3 callers (one in the lock, one waiting, one that comes later), an interval of 2 ticks, 2 attempts |
| `exit_builds_nothing` (violation) | `ExitBuildsNothing` | no fault |
| `additive_only` (violation) | `AdditiveOnly` | no fault |

Bounds on attempts, narrowing rounds and review rounds are the code's own
constants. `MaxFaults`, `MaxNotes`, `MaxDays`, `MaxTopics`, `MaxCron` and
`MaxMonths` bound the runs only; the theorems hold for every value of them.
Deadlock is checked in `gemini_calls`, where the clock always goes on. It is not
checked elsewhere: a finished quiz, a reached goal, the floor of grounding and a
refreshed cache are ends of the program. `coaching` treats its two script runs as
interchangeable (`RunSymmetry`), and `roles_refresh` its two topics
(`TopicSymmetry`); runs with liveness properties use no symmetry.

`MCCoaching` also checks an assumption, `InsertionChecked`, that TLC evaluates in
every run of it: inserting a topic into any outline of up to three of four topics,
with any prerequisites, is sound, or raises where it should.

### Where a promise ends

Some of the properties say what is left of a promise, and by that where the code
breaks it.

* `CapUpToFaults` is what is left of the cap of 3 attempts that `retry_cap` sees
  violated: each lost result costs at most one answer too many, also when the row
  of a stopped run is still on its way.
* `TrendsAreSustained`, a theorem, is what is left of `SustainedTrend`: as long as
  no run fails or is stopped, an extension of the pacing takes three topics. The
  commits that a broken run repeats are all that stands behind the violation.
* `FullPassMeansFullCredits`, a theorem, says that a test-out is a full pass exactly
  when all its credits are full, as long as no result is lost.
  `complete_topic_test_out` reads the credits once for `full_pass`
  (`coaching_pace_agent.py:908`) and `complete_topic_verification` reads them again;
  with a lost result two rows may tie for the last of a slot, nothing orders them,
  and the two readings may differ.
* `OneAdditionIsKept`, a theorem, is what is left of `AdditiveOnly`: a learner who
  asks for one skill only, however often and whatever insertions fail, loses nothing
  unless a run is stopped. Both conditions are needed.
* `OffTopicHelpsTwice`, a theorem, marks where `has_usable_himalayas_signal` is not
  what one expects of it: with 6 of 19 listings on topic a role has no signal, and
  with 6 of 20 it has, as the threshold falls faster than the share (likewise 5 of 24
  and 5 of 25). Nowhere else does one more off-topic listing help.
* `PlanPromise` keeps one way open to replace the plan after day one: the insertion
  of a run that was stopped before, once each, and none after the first progress.
* `RiseReachesLearner` names five exceptions. Three are what one expects: the row
  showed the level when the learner completed the topic, it was the role's first
  row, or the batch that owed the note died. Two are rises that overlapping batches
  lose though nothing fails, and the code permits both. Two batches find a role
  without a row; one stores a low row, the learner completes the topic, the other
  stores a medium one and, having read no row, skips the diff
  (`refresh_roles.py:70-78`). Or batch A reads a high row, batch B stores a low one,
  the learner completes the topic, and A stores a high row again and compares it
  with the high one it had read (`refresh_roles.py:70-81`). The run checks that
  these are all the ways to lose a rise (either one left out of `raced`, it fails);
  `RiseIsToldApart`, a theorem, is the same without `raced` for batches that do not
  overlap between reading and storing. Overlapping batches may also create two notes
  of one rise.
* `Spaced` ends with the first contention of the lock. From then on two callers
  can pass its test together, read the same last start and begin at once,
  and the second `release` raises. `OneHangs` and `HangFailsTheRest` say what became of
  the waiter: it is never woken, and as it stays in the queue, every later call is
  refused with a `RuntimeError`, which is not among `_STAGE_EXCEPTIONS` (`main.py:87`)
  and so reaches the learner as a traceback. `OthersEnd` is the good news: no call
  but that one hangs.

### What the violations show

* `retry_cap`: the attempt row is committed before the next question is
  generated. If that fails the page keeps the old attempt, the learner answers it
  again, and the slot collects more rows than the cap of 3. The credit stays
  sound (`CompletionSound`), as completion reads the last row.
* `sustained_trend`: a completion that ends between its commits is begun again
  from the snapshot on; three snapshots of one topic are a full window, and the
  pacing is extended for "a single day".
* `high_delivered`: patch-notes are looked for only while a topic completes, one
  at a time, so a high-confidence note that comes after the last completion, or
  loses to another there, stays pending.
* `exit_builds_nothing`: the page leaves the gate by the same door whether it
  resolved or exited, and grounding is asked once more.
* `additive_only`: a review addition is never merged into the grounding result, so
  the next addition regenerates the outline without it.

### Fairness

In the models of a learner, the learner answers, goes on and confirms in the end;
a script run that neither fails nor is stopped ends; a call that raises is
repeated (the page offers the same control again) until it succeeds. The code
justifies the second: every external call has a timeout. The first and third are
assumptions on the learner and on the services, and the liveness properties say
nothing without them. No fairness is assumed of market updates, faults, late
commits or of the refresh. `GoalReached` has the premise that in the end no
emerging skill is cached, because enrichment always raises (see below), and
`PlanReached` that grounding found a skill, because outline creation raises
without one and offers nothing else.

`GeminiCalls` assumes that the clock goes on, and that each thread that can take a
step takes one (`Step`): threads are scheduled by the operating system, a sleeping
coroutine wakes after its time, and the model call ends by its timeout. No caller
has to begin a call, and a parked caller has no step. `RolesRefresh` states no
fairness and has no liveness property: what nobody runs, nobody promises.

## Proofs

* `VerificationProofs`. `TypeCorrect`, `CompletionIsSound`, `RetriesFollowFailures`,
  `RetriesAreFresh` and `Implements` (`Verification` implements `Quiz`), for any
  number of slots, attempts, texts and lost results, from `VerificationAssumption`. The inductive
  invariant `IInv` adds to the three properties that the rows and orphans of the
  question on screen are of its present or an earlier attempt, with texts the
  learner has been asked (`OnScreen`), that no row belongs to a later question,
  and that a row's credit is the one its attempt and grade give
  (`CreditsInRows`); without the first, a late commit could repeat a text, and
  without the last, completion could read a credit nobody earned.
  Three more rest on it. `CapHoldsUpToFaults`: the cap alone is not inductive, as it
  says nothing of a slot on the way to it; `CapInv` counts the rows of the slot on
  screen by its attempt number. `FullPassMeansFullCredits`: without a lost result
  there is one row for each slot and attempt (`OneRowEach`), so two readings of
  the log agree. `ScoresFeedThePace` composes two modules: the credits of a quiz as
  long as the calculator expects (`QuizLength`) add up to a score the pace is
  defined on, which `CoachingAssumption` takes for granted of `Outcomes`.
* `PaceProofs`. `SignalsBounded`, `PaceIsUnderstanding` and `BehindIsATrend`, for
  any hours per week, days and history. The argument is a bound on one signal by
  its score and the largest influence timing has (0.2), and a bound on the sum of
  a window by its smallest rows. `ImprovementAlwaysHelps`: better answers or fewer
  days on the last topic never make the verdict worse, for every history; the
  window is the last three rows, so one signal decides, and a verdict that rounds
  either way still falls on the right side, since a strictly larger sum leaves the
  tie.
* `OnboardingProofs`. `TypeCorrect` (with the bounds of both loops),
  `RowsAreGrounded`, `StoredIsShown` and `OutlineIsFrozen`, for any set of skills
  and any number of faults. `RowsGrounded` alone is not inductive: an outline
  reaches the rows by way of a run or of a stopped run's insertion, so `PlanInv`
  says of these that they cover the grounded skills too, and that there are none
  before the role is stored. `ShownInv` and `FrozenInv` play the same part.
  `OnboardingKeepsPromise` (`Onboarding` implements `LearningPlan`) maps every step
  to one of the abstract module or to a stutter; it needs `LeanInv`, that the role
  is stored on the way to creation only and that a run never holds more than the
  grounded skills and one addition. `OneAdditionIsKept` rests on `AddInv`: the run
  that inserts an outline has in it what was asked for until then.
* `PaceMathProofs`. The bounds of one signal by its score and by its unit, the
  lemmas that `PaceProofs` and `CoachingProofs` share, and two laws of the signal
  for every expectation: `QuickerIsNeverLower` and `BetterIsNeverLower`. For the
  first the signal is the score and a bonus of timing (`SignalIsScoreAndBonus`): up
  to the expected days timing can only add, and adds less day by day; from there on
  it can only take away, and takes away more (`TimingRegimes`).
* `CoachingProofs`, for any outline, any outcomes, any number of script runs at
  once, notes and faults, from `CoachingAssumption`: `CoachingTypes`,
  `CompletedIsMeasured`, `StatusIsFinal`, `CoachingKeepsPromise` (`Coaching`
  implements `Journey`), `NotesAreSound` and `ExtensionIsEarned`. `CourseInv` says
  of each script run where its topic stands (`RunsInv`: a run past its snapshot
  has its topic measured and is of a topic the page has reached) and of the
  outline that the topics before the current one are completed and none after it
  (`OrderInv`); only with both does a late run, still completing a topic the page
  has left, have nothing to change. `NotesInv` follows a note from a run's choice
  to its topic: `ProvenanceInv` (a topic carries notes about itself), `RunNote` (a
  run about to deliver has augmented first), `BannerInv` (the banner offers low
  notes only). `PaceInv` is a count: each topic has one turn to extend the pacing,
  a fault pays for one more, and a run that no longer serves the page and may
  still extend has had its fault (`Budget`, over the cardinality of `Late`);
  without faults a full window takes three topics (`FaultlessInv`), from which
  `TrendsAreSustained` follows with `OrderInv` and `RunsInv`: topics before the
  current one are completed, and what is completed, or has had its turn to extend,
  is measured.
* `RolesRefreshProofs`, for any number of roles, sessions, topics and deaths, from
  `RefreshAssumption` and `GroundingAssumption`: `RefreshTypes`, `RiseIsTold`,
  `RiseIsToldApart`, `NotesAreJustified` and `HighIsEarned`.
  `NotesComeAsInCoaching` composes the two models of a note's life: what a batch does to the notes is what `NoteCreated` of
  `Coaching` allows. `OnTopicNeverHurts` and `OffTopicHelpsTwice` are laws of the
  signal, for any number of listings. Here each property has an invariant of
  its own over what the batches hold. `CoverInv`: what a batch has read before its
  upsert is covered too, so comparing with it loses no more than `raced` records,
  though the row may have changed since. `RiseIsToldApart` assumes `[]Apart`, that no
  two batches are between reading and storing the row of one role, which the code
  does not ensure; under it what a batch compares with is the present row, and
  `raced` stays within `excused` (`ApartInv`). `NotesInv`: the row, what is compared with it and what is
  pending all lie between the lowest and the highest level shown. `HighInv`: a
  batch that holds a high row has its anchor among the skills of earlier rows.
* `GeminiCallsProofs`, for any number of callers, any interval and number of
  attempts, from `GeminiAssumption`: `GeminiTypes`, `GeminiLock`,
  `StartsAreSpaced`, `OneCallHangs` and `HangsAreFinal`. `UncontendedInv` is the
  lock as it should be (whoever paces holds it, alone, and sleeps for what is left
  of the interval),
  true while no queue has been made; `QueueInv` says that whoever waits owns the
  loop the lock is bound to, and `ParkedInv` that a parked call stays in the queue,
  which is what the lock tests before it lets anyone in. `HangsAreFinal` is thus the
  safety half of `HangFailsTheRest`: after a hang nobody but those already admitted
  can start a call. That the others then end is liveness.
* `HierarchyProofs`. `InsertionIsSound`, for outlines of any length: every topic
  stays in its order, and the new one comes right after the latest prerequisite.
  That there is a latest one is the least element of a set of numbers
  (`LeastNatural`, from the library's well-founded induction).

Only model-checked: all liveness (`QuizEnds`, `GoalReached`, `GateEnds`,
`PlanReached`, `OthersEnd`, `HangFailsTheRest`), which is out of the prover's
reach. Every invariant and every action property of a passing run is proved.

## Not modelled, and why

* The text side: prompts, day content, parsing of the two sources
  (`himalayas_parser.py`, `tavily_parser.py`), the rules that classify a stated
  goal, the output guard, layout. These are functions of free text; their verdicts
  are choices of the models.
* What an insertion would do to an outline in a running course:
  `maybe_trigger_enrichment` gives `insert_new_topic` the session's string id
  where rows have UUIDs, so it always raises. `Coaching` has that outcome
  (`EnrichmentRaises`); the function itself is `Hierarchy`, checked and proved on
  its own.
* `progress_log`, which is written and never read: no decision depends on it.
* Two browser sessions of one learner: a user row belongs to one session.
* The retries inside the transport of a model call: part of the one step of a
  call.
* A lost update of `extend_pacing`, which is one step of `Coaching`: it only makes
  the extension smaller, and the properties bound it from above.

## How the project grew, and what is left

The order was: `Verification`, `Pace`, `Coaching`, `Onboarding` and their first
proofs; then `Grounding`, `RolesRefresh` and `GeminiCalls`, which close the
hazards of the refresh and of the lock; then `Hierarchy`, and the proofs of
`Coaching` and of the new modules; then `LearningPlan`, what is left of the promises
the violations break, and the laws and compositions of the pure parts.

Left for later: the days of a topic as states of their own (the first day's
test-out offer is the one decision that depends on them, and `FinishQuiz` has it);
the sessions of one process sharing `GeminiCalls` with `RolesRefresh` (a refresh
that hangs in the lock would hold its batch, which the batch's own step already
allows for); and progress of the refresh under fairness, once the program promises
any.
