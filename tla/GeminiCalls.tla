---------------------------- MODULE GeminiCalls ----------------------------
(***************************************************************************)
(* The calls to the language model: utils/adk_runtime.py.  Every call of   *)
(* every learner in the process first passes _pace_gemini_call, which      *)
(* keeps the starts of two calls an interval apart under one module-level  *)
(* asyncio.Lock; a call that wants JSON is made again, with the error fed  *)
(* back, when what it gets does not parse.                                 *)
(*                                                                         *)
(* Each caller is a script run of its own, in its own thread, and          *)
(* main._run_async gives it an event loop of its own.  The lock is not     *)
(* made for that.  What CPython's asyncio.Lock does is modelled here as    *)
(* its statements interleave between threads, to the points where the      *)
(* interpreter may switch: between two statements, and inside the test of  *)
(* a lock whose queue has been made.  Waking a waiter only schedules its   *)
(* future on its loop: a loop that already blocks in its selector is not   *)
(* interrupted by that, and nothing else is due on it.                     *)
(***************************************************************************)
EXTENDS Integers, FiniteSets

CONSTANTS
    Calls,          \* script runs that call the model
    Interval,       \* GEMINI_MIN_CALL_INTERVAL_SECONDS, in ticks
    MaxAttempts,    \* GEMINI_JSON_RETRY_MAX_ATTEMPTS + 1
    None            \* no event loop

ASSUME GeminiAssumption ==
    /\ Interval \in Nat \ {0}
    /\ MaxAttempts \in Nat \ {0}
    /\ None \notin Calls

VARIABLES
    at,             \* what each caller is about to do
    attempt,        \* the attempts it has begun
    due,            \* the ticks it still sleeps
    locked,         \* _gemini_pacing_lock._locked
    hasDeque,       \* its _waiters is not None
    queue,          \* the callers with a future in _waiters
    woken,          \* those whose future is done
    loop,           \* its _loop: the first caller to wait, or None
    since,          \* ticks since _last_gemini_call_started_at, up to Interval
    rushed          \* history: two starts were closer than the interval

lock == <<locked, hasDeque, queue, woken, loop>>
clock == <<since, rushed>>
vars == <<at, attempt, due, locked, hasDeque, queue, woken, loop, since, rushed>>

-----------------------------------------------------------------------------
Pacing == {"pace", "sleep", "stamp", "release"}     \* inside the "async with"
Ended == {"done", "failed"}
Steps == {"idle", "acquire", "testing", "queueing", "appending", "queued", "parked",
          "call"} \cup Pacing \cup Ended

Init ==
    /\ at = [c \in Calls |-> "idle"]
    /\ attempt = [c \in Calls |-> 0]
    /\ due = [c \in Calls |-> 0]
    /\ locked = FALSE
    /\ hasDeque = FALSE
    /\ queue = {}
    /\ woken = {}
    /\ loop = None
    /\ since = Interval
    /\ rushed = FALSE

Goto(c, step) == at' = [at EXCEPT ![c] = step]

\* call_agent_json or call_agent_text: the first attempt.
Begin(c) ==
    /\ at[c] = "idle"
    /\ attempt' = [attempt EXCEPT ![c] = 1]
    /\ Goto(c, "acquire")
    /\ UNCHANGED <<due, lock, clock>>

-----------------------------------------------------------------------------
(* Lock.acquire                                                            *)

\* The test of a lock that nobody has waited for is followed by the assignment
\* without a switch in between.
TakeFree(c) ==
    /\ at[c] = "acquire"
    /\ ~locked /\ ~hasDeque
    /\ locked' = TRUE
    /\ Goto(c, "pace")
    /\ UNCHANGED <<attempt, due, hasDeque, queue, woken, loop, clock>>

\* Mutated form of PassTest: who comes passes those who wait.
PassQueue(c) ==
    /\ at[c] = "acquire"
    /\ ~locked /\ hasDeque
    /\ Goto(c, "testing")
    /\ UNCHANGED <<attempt, due, lock, clock>>

\* Later the test runs a generator over the empty queue, and others may run
\* before the assignment.
PassTest(c) ==
    /\ at[c] = "acquire"
    /\ ~locked /\ hasDeque /\ queue = {}
    /\ Goto(c, "testing")
    /\ UNCHANGED <<attempt, due, lock, clock>>

SetLocked(c) ==
    /\ at[c] = "testing"
    /\ locked' = TRUE
    /\ Goto(c, "pace")
    /\ UNCHANGED <<attempt, due, hasDeque, queue, woken, loop, clock>>

FailTest(c) ==
    /\ at[c] = "acquire"
    /\ locked \/ queue # {}
    /\ Goto(c, "queueing")
    /\ UNCHANGED <<attempt, due, lock, clock>>

\* Mutated form of Bind: the lock serves whatever loop asks.
BindAnyLoop(c) ==
    /\ at[c] = "queueing"
    /\ hasDeque' = TRUE
    /\ loop' = c
    /\ Goto(c, "appending")
    /\ UNCHANGED <<attempt, due, locked, queue, woken, clock>>

\* _get_loop: the lock belongs to the loop of the first caller that waits; any
\* other one gets a RuntimeError, which no handler of main expects.
Bind(c) ==
    /\ at[c] = "queueing"
    /\ hasDeque' = TRUE
    /\ IF loop \in {None, c}
       THEN loop' = c /\ Goto(c, "appending")
       ELSE UNCHANGED loop /\ Goto(c, "failed")
    /\ UNCHANGED <<attempt, due, locked, queue, woken, clock>>

Enqueue(c) ==
    /\ at[c] = "appending"
    /\ queue' = queue \cup {c}
    /\ Goto(c, "queued")
    /\ UNCHANGED <<attempt, due, locked, hasDeque, woken, loop, clock>>

\* The loop has nothing to run and blocks in its selector.
Park(c) ==
    /\ at[c] = "queued"
    /\ c \notin woken
    /\ Goto(c, "parked")
    /\ UNCHANGED <<attempt, due, lock, clock>>

\* The future was done before the loop looked: out of the queue, and on to the
\* assignment.
Resume(c) ==
    /\ at[c] = "queued"
    /\ c \in woken
    /\ queue' = queue \ {c}
    /\ woken' = woken \ {c}
    /\ Goto(c, "testing")
    /\ UNCHANGED <<attempt, due, locked, hasDeque, loop, clock>>

-----------------------------------------------------------------------------
(* _pace_gemini_call, under the lock                                       *)

\* Mutated form of Pace: the time that has passed counts twice.
PaceShort(c) ==
    /\ at[c] = "pace"
    /\ due' = [due EXCEPT ![c] = IF 2 * since >= Interval THEN 0
                                 ELSE Interval - 2 * since]
    /\ Goto(c, IF due'[c] = 0 THEN "stamp" ELSE "sleep")
    /\ UNCHANGED <<attempt, lock, clock>>

Pace(c) ==
    /\ at[c] = "pace"
    /\ due' = [due EXCEPT ![c] = Interval - since]
    /\ Goto(c, IF since = Interval THEN "stamp" ELSE "sleep")
    /\ UNCHANGED <<attempt, lock, clock>>

WakeUp(c) ==
    /\ at[c] = "sleep"
    /\ due[c] = 0
    /\ Goto(c, "stamp")
    /\ UNCHANGED <<attempt, due, lock, clock>>

Stamp(c) ==
    /\ at[c] = "stamp"
    /\ since' = 0
    /\ rushed' = IF since < Interval THEN TRUE ELSE rushed
    /\ Goto(c, "release")
    /\ UNCHANGED <<attempt, due, lock>>

\* Lock.release: raises when somebody else has released the lock already.
Release(c) ==
    /\ at[c] = "release"
    /\ IF locked
       THEN /\ locked' = FALSE
            /\ woken' = woken \cup queue
            /\ Goto(c, "call")
       ELSE /\ UNCHANGED <<locked, woken>>
            /\ Goto(c, "failed")
    /\ UNCHANGED <<attempt, due, hasDeque, queue, loop, clock>>

-----------------------------------------------------------------------------
(* run_llm_agent and call_agent_json, after the pacing                     *)

\* A text, or JSON with every required key.
Answered(c) ==
    /\ at[c] = "call"
    /\ Goto(c, "done")
    /\ UNCHANGED <<attempt, due, lock, clock>>

\* An error event, an empty answer, an exception or the timeout: not retried.
CallFails(c) ==
    /\ at[c] = "call"
    /\ Goto(c, "failed")
    /\ UNCHANGED <<attempt, due, lock, clock>>

\* Mutated form of Malformed: one attempt too many.
MalformedOnceMore(c) ==
    /\ at[c] = "call"
    /\ IF attempt[c] <= MaxAttempts
       THEN /\ attempt' = [attempt EXCEPT ![c] = @ + 1]
            /\ Goto(c, "acquire")
       ELSE /\ UNCHANGED attempt
            /\ Goto(c, "failed")
    /\ UNCHANGED <<due, lock, clock>>

\* Mutated form of Malformed: an answer that does not parse is asked for again
\* however often.
MalformedForever(c) ==
    /\ at[c] = "call"
    /\ Goto(c, "acquire")
    /\ UNCHANGED <<attempt, due, lock, clock>>

\* What came does not parse: asked for again, through the pacing, until the
\* attempts are used up.
Malformed(c) ==
    /\ at[c] = "call"
    /\ IF attempt[c] < MaxAttempts
       THEN /\ attempt' = [attempt EXCEPT ![c] = @ + 1]
            /\ Goto(c, "acquire")
       ELSE /\ UNCHANGED attempt
            /\ Goto(c, "failed")
    /\ UNCHANGED <<due, lock, clock>>

-----------------------------------------------------------------------------
\* Time passes for the clock and for every sleeper; a sleeper may be late.
Tick ==
    /\ since' = IF since < Interval THEN since + 1 ELSE since
    /\ due' = [c \in Calls |-> IF at[c] = "sleep" /\ due[c] > 0
                               THEN due[c] - 1 ELSE due[c]]
    /\ UNCHANGED <<at, attempt, lock, rushed>>

Step(c) ==
    \/ TakeFree(c)
    \/ PassTest(c)
    \/ SetLocked(c)
    \/ FailTest(c)
    \/ Bind(c)
    \/ Enqueue(c)
    \/ Park(c)
    \/ Resume(c)
    \/ Pace(c)
    \/ WakeUp(c)
    \/ Stamp(c)
    \/ Release(c)
    \/ Answered(c)
    \/ CallFails(c)
    \/ Malformed(c)

Next ==
    \/ Tick
    \/ \E c \in Calls : Begin(c) \/ Step(c)

Spec == Init /\ [][Next]_vars

\* A thread that can run does, the clock goes on, and the call has a timeout.
FairSpec == Spec /\ WF_vars(Tick) /\ \A c \in Calls : WF_vars(Step(c))

-----------------------------------------------------------------------------
(* Properties                                                              *)

TypeOK ==
    /\ at \in [Calls -> Steps]
    /\ attempt \in [Calls -> 0..MaxAttempts]
    /\ due \in [Calls -> 0..Interval]
    /\ locked \in BOOLEAN
    /\ hasDeque \in BOOLEAN
    /\ queue \subseteq Calls
    /\ woken \subseteq queue
    /\ loop \in Calls \cup {None}
    /\ since \in 0..Interval
    /\ rushed \in BOOLEAN

\* "Enforce the minimum interval between the start of any two Gemini calls this
\* process makes" (adk_runtime.py:52): so it is, until a call has once had to
\* wait for the lock.
Spaced ==
    rushed => hasDeque

\* At most one call of the process ever hangs in the lock.
OneHangs ==
    \A c, d \in Calls : at[c] = "parked" /\ at[d] = "parked" => c = d

\* Those whom the lock has let in, or is about to.
Admitted == {c \in Calls : at[c] \in {"testing"} \cup Pacing}

\* A call that hangs in the lock hangs for good, and from then on the lock lets
\* nobody in: only who was admitted before can still start a call.
HangIsFinal ==
    [][\A p \in Calls : at[p] = "parked" =>
          at'[p] = "parked" /\ Admitted' \subseteq Admitted]_vars

\* Any other call ends, with an answer or an error, after at most
\* MaxAttempts attempts, whatever the others do and however slow the answers are.
OthersEnd ==
    \A c \in Calls : at[c] = "acquire" ~> at[c] \in Ended \cup {"parked"}

\* But the one that hangs stays in the queue, and whoever comes after it gets
\* an error: the process makes no new call until it is restarted.
HangFailsTheRest ==
    \A c \in Calls :
        ((\E p \in Calls : at[p] = "parked") /\ at[c] = "acquire") ~> at[c] = "failed"
=============================================================================
