------------------------- MODULE GeminiCallsProofs -------------------------
(***************************************************************************)
(* For any number of calls, any interval and any number of attempts: the   *)
(* types, the spacing of the starts while nobody has waited for the lock,  *)
(* and that at most one call ever hangs in it.                             *)
(***************************************************************************)
EXTENDS GeminiCalls, TLAPS

\* While nobody has waited, the lock does exclude: one caller at most is inside,
\* and what it sleeps or has slept makes up the interval.
UncontendedInv ==
    ~hasDeque =>
        /\ queue = {}
        /\ \A c \in Calls : at[c] \notin {"testing", "appending", "queued", "parked"}
        /\ \A c \in Calls : at[c] \in Pacing => locked
        /\ \A c, d \in Calls : at[c] \in Pacing /\ at[d] \in Pacing => c = d
        /\ \A c \in Calls : at[c] = "sleep" => due[c] + since >= Interval
        /\ \A c \in Calls : at[c] = "stamp" => since = Interval
        /\ ~rushed

\* Whoever is in the queue, or about to be, owns the lock's loop.
QueueInv ==
    \A c \in Calls : at[c] \in {"appending", "queued", "parked"} => loop = c

\* Who blocks in its loop never leaves the queue.
ParkedInv ==
    \A c \in Calls : at[c] \in {"queued", "parked"} => c \in queue

LockInv == UncontendedInv /\ QueueInv /\ ParkedInv

LEMMA GeminiInit == Init => TypeOK /\ LockInv
<1> SUFFICES ASSUME Init
             PROVE  TypeOK /\ LockInv
    OBVIOUS
<1>1. TypeOK
    <2>1. at \in [Calls -> Steps]
        BY DEF Init, Steps
    <2>2. attempt \in [Calls -> 0..MaxAttempts] /\ due \in [Calls -> 0..Interval]
        BY GeminiAssumption DEF Init
    <2>3. since \in 0..Interval
        BY GeminiAssumption DEF Init
    <2>4. QED
        BY <2>1, <2>2, <2>3 DEF Init, TypeOK
<1>2. QueueInv /\ ParkedInv
    BY DEF Init, QueueInv, ParkedInv
<1>3. UncontendedInv
    BY DEF Init, UncontendedInv, Pacing
<1>4. QED
    BY <1>1, <1>2, <1>3 DEF LockInv

\* What one caller's step does.
LEMMA StepTypeOK ==
    ASSUME TypeOK, NEW c \in Calls, Begin(c) \/ Step(c)
    PROVE  TypeOK'
<1> USE GeminiAssumption DEF TypeOK, Goto, Steps, Pacing, Ended, lock, clock
<1>1. CASE Begin(c)
    BY <1>1 DEF Begin
<1>2. CASE TakeFree(c) \/ SetLocked(c)
    BY <1>2 DEF TakeFree, SetLocked
<1>3. CASE PassTest(c) \/ FailTest(c) \/ Park(c)
    BY <1>3 DEF PassTest, FailTest, Park
<1>4. CASE Bind(c)
    BY <1>4 DEF Bind
<1>5. CASE Enqueue(c) \/ Resume(c)
    BY <1>5 DEF Enqueue, Resume
<1>6. CASE Pace(c)
    BY <1>6 DEF Pace
<1>7. CASE WakeUp(c)
    BY <1>7 DEF WakeUp
<1>8. CASE Stamp(c)
    <2>1. at' \in [Calls -> Steps] /\ since' \in 0..Interval
        BY <1>8 DEF Stamp
    <2>2. rushed' \in BOOLEAN
        <3>1. CASE since < Interval
            BY <1>8, <3>1 DEF Stamp
        <3>2. CASE ~(since < Interval)
            BY <1>8, <3>2 DEF Stamp
        <3>3. QED
            BY <3>1, <3>2
    <2>3. QED
        BY <1>8, <2>1, <2>2 DEF Stamp
<1>9. CASE Release(c)
    BY <1>9 DEF Release
<1>10. CASE Answered(c) \/ CallFails(c) \/ Malformed(c)
    BY <1>10 DEF Answered, CallFails, Malformed
<1>11. QED
    BY <1>1, <1>2, <1>3, <1>4, <1>5, <1>6, <1>7, <1>8, <1>9, <1>10 DEF Step

LEMMA TickTypeOK ==
    ASSUME TypeOK, Tick
    PROVE  TypeOK'
<1>1. since' \in 0..Interval
    BY GeminiAssumption DEF TypeOK, Tick
<1>2. due' \in [Calls -> 0..Interval]
    BY GeminiAssumption DEF TypeOK, Tick
<1>3. QED
    BY <1>1, <1>2 DEF TypeOK, Tick, lock

\* Every variable has its type in every reachable state.
THEOREM GeminiTypes == Spec => []TypeOK
<1>1. Init => TypeOK
    BY GeminiInit
<1>2. TypeOK /\ [Next]_vars => TypeOK'
    <2> SUFFICES ASSUME TypeOK, [Next]_vars
                 PROVE  TypeOK'
        OBVIOUS
    <2>1. CASE Tick
        BY <2>1, TickTypeOK
    <2>2. CASE \E c \in Calls : Begin(c) \/ Step(c)
        BY <2>2, StepTypeOK
    <2>3. CASE UNCHANGED vars
        BY <2>3 DEF TypeOK, vars
    <2>4. QED
        BY <2>1, <2>2, <2>3 DEF Next
<1>3. QED
    BY <1>1, <1>2, PTL DEF Spec

-----------------------------------------------------------------------------
(* The lock                                                                *)

LEMMA StepQueueInv ==
    ASSUME TypeOK, QueueInv, NEW c \in Calls, Begin(c) \/ Step(c)
    PROVE  QueueInv'
<1> USE GeminiAssumption DEF TypeOK, QueueInv, Goto, lock, clock
<1>1. CASE Begin(c)
    BY <1>1 DEF Begin
<1>2. CASE TakeFree(c) \/ PassTest(c) \/ SetLocked(c) \/ FailTest(c)
    BY <1>2 DEF TakeFree, PassTest, SetLocked, FailTest
<1>3. CASE Bind(c)
    BY <1>3 DEF Bind
<1>4. CASE Enqueue(c) \/ Park(c) \/ Resume(c)
    BY <1>4 DEF Enqueue, Park, Resume
<1>5. CASE Pace(c) \/ WakeUp(c) \/ Stamp(c) \/ Release(c)
    BY <1>5 DEF Pace, WakeUp, Stamp, Release
<1>6. CASE Answered(c) \/ CallFails(c) \/ Malformed(c)
    BY <1>6 DEF Answered, CallFails, Malformed
<1>7. QED
    BY <1>1, <1>2, <1>3, <1>4, <1>5, <1>6 DEF Step

LEMMA StepParkedInv ==
    ASSUME TypeOK, ParkedInv, NEW c \in Calls, Begin(c) \/ Step(c)
    PROVE  ParkedInv'
<1> USE DEF TypeOK, ParkedInv, Goto, lock, clock
<1>1. CASE Begin(c)
    BY <1>1 DEF Begin
<1>2. CASE TakeFree(c) \/ PassTest(c) \/ SetLocked(c) \/ FailTest(c) \/ Bind(c)
    BY <1>2 DEF TakeFree, PassTest, SetLocked, FailTest, Bind
<1>3. CASE Enqueue(c) \/ Park(c) \/ Resume(c)
    BY <1>3 DEF Enqueue, Park, Resume
<1>4. CASE Pace(c) \/ WakeUp(c) \/ Stamp(c) \/ Release(c)
    BY <1>4 DEF Pace, WakeUp, Stamp, Release
<1>5. CASE Answered(c) \/ CallFails(c) \/ Malformed(c)
    BY <1>5 DEF Answered, CallFails, Malformed
<1>6. QED
    BY <1>1, <1>2, <1>3, <1>4, <1>5 DEF Step

LEMMA StepUncontendedInv ==
    ASSUME TypeOK, UncontendedInv, NEW c \in Calls, Begin(c) \/ Step(c)
    PROVE  UncontendedInv'
<1> SUFFICES ASSUME ~hasDeque'
             PROVE  UncontendedInv'
    BY DEF UncontendedInv
<1> USE GeminiAssumption DEF TypeOK, UncontendedInv, Goto, Pacing, lock, clock
<1>1. CASE Begin(c)
    BY <1>1 DEF Begin
<1>2. CASE TakeFree(c)
    BY <1>2 DEF TakeFree
<1>3. CASE PassTest(c) \/ SetLocked(c) \/ FailTest(c)
    BY <1>3 DEF PassTest, SetLocked, FailTest
<1>4. CASE Bind(c)
    BY <1>4 DEF Bind
<1>5. CASE Enqueue(c) \/ Park(c) \/ Resume(c)
    BY <1>5 DEF Enqueue, Park, Resume
<1>6. CASE Pace(c)
    BY <1>6 DEF Pace
<1>7. CASE WakeUp(c)
    BY <1>7 DEF WakeUp
<1>8. CASE Stamp(c)
    BY <1>8 DEF Stamp
<1>9. CASE Release(c)
    BY <1>9 DEF Release
<1>10. CASE Answered(c) \/ CallFails(c) \/ Malformed(c)
    BY <1>10 DEF Answered, CallFails, Malformed
<1>11. QED
    BY <1>1, <1>2, <1>3, <1>4, <1>5, <1>6, <1>7, <1>8, <1>9, <1>10 DEF Step

LEMMA TickLockInv ==
    ASSUME TypeOK, LockInv, Tick
    PROVE  LockInv'
<1>1. QueueInv' /\ ParkedInv'
    BY DEF LockInv, QueueInv, ParkedInv, Tick, lock
<1>2. \A c \in Calls : at[c] = "sleep" /\ due[c] + since >= Interval
                         => due'[c] + since' >= Interval
    BY GeminiAssumption DEF TypeOK, Tick
<1>3. since = Interval => since' = Interval
    BY GeminiAssumption DEF Tick
<1>4. UncontendedInv'
    BY <1>2, <1>3 DEF LockInv, UncontendedInv, Tick, lock
<1>5. QED
    BY <1>1, <1>4 DEF LockInv

\* Until a call has had to wait, the lock lets one caller at a time pace; and only
\* the caller whose loop the lock is bound to ever waits in it.
THEOREM GeminiLock == Spec => []LockInv
<1>1. Init => LockInv
    BY GeminiInit
<1>2. TypeOK /\ LockInv /\ [Next]_vars => LockInv'
    <2> SUFFICES ASSUME TypeOK, LockInv, [Next]_vars
                 PROVE  LockInv'
        OBVIOUS
    <2>1. CASE Tick
        BY <2>1, TickLockInv
    <2>2. CASE \E c \in Calls : Begin(c) \/ Step(c)
        BY <2>2, StepQueueInv, StepParkedInv, StepUncontendedInv DEF LockInv
    <2>3. CASE UNCHANGED vars
        BY <2>3 DEF LockInv, UncontendedInv, QueueInv, ParkedInv, vars
    <2>4. QED
        BY <2>1, <2>2, <2>3 DEF Next
<1>3. QED
    BY <1>1, <1>2, GeminiTypes, PTL DEF Spec

\* The starts of two calls are an interval apart until a call has had to wait
\* for the lock.
THEOREM StartsAreSpaced == Spec => []Spaced
<1>1. LockInv => Spaced
    BY DEF LockInv, UncontendedInv, Spaced
<1>2. QED
    BY <1>1, GeminiLock, PTL

\* At most one call of the process hangs: the lock's loop is its own.
THEOREM OneCallHangs == Spec => []OneHangs
<1>1. LockInv => OneHangs
    BY DEF LockInv, QueueInv, OneHangs
<1>2. QED
    BY <1>1, GeminiLock, PTL

\* While somebody hangs, no step of any caller lets it into the lock.
LEMMA StepWhileHanging ==
    ASSUME TypeOK, LockInv, NEW p \in Calls, at[p] = "parked",
           NEW c \in Calls, Begin(c) \/ Step(c)
    PROVE  at'[p] = "parked" /\ Admitted' \subseteq Admitted
<1>1. loop = p /\ p \in queue /\ hasDeque
    BY DEF LockInv, QueueInv, ParkedInv, UncontendedInv
<1>2. ~TakeFree(c) /\ ~PassTest(c)
    BY <1>1 DEF TakeFree, PassTest
<1>3. ~Resume(c)
    BY <1>1 DEF Resume, LockInv, QueueInv
<1>4. /\ at' = [at EXCEPT ![c] = at'[c]]
      /\ at[c] # "parked"
      /\ at'[c] \in {"testing"} \cup Pacing => at[c] \in {"testing"} \cup Pacing
    <2> USE DEF TypeOK, Goto, Pacing
    <2>1. CASE Begin(c) \/ SetLocked(c) \/ FailTest(c) \/ Enqueue(c) \/ Park(c)
        BY <2>1 DEF Begin, SetLocked, FailTest, Enqueue, Park
    <2>2. CASE Bind(c)
        BY <2>2 DEF Bind
    <2>3. CASE Pace(c) \/ WakeUp(c) \/ Stamp(c)
        BY <2>3 DEF Pace, WakeUp, Stamp
    <2>4. CASE Release(c)
        BY <2>4 DEF Release
    <2>5. CASE Answered(c) \/ CallFails(c) \/ Malformed(c)
        BY <2>5 DEF Answered, CallFails, Malformed
    <2>6. QED
        BY <1>2, <1>3, <2>1, <2>2, <2>3, <2>4, <2>5 DEF Step
<1>5. QED
    BY <1>4 DEF Admitted, TypeOK

\* Once a call hangs it hangs for good, and for any number of callers the lock
\* lets nobody in any more: this is why the process then makes no new call.
THEOREM HangsAreFinal == Spec => HangIsFinal
<1>1. TypeOK /\ LockInv /\ [Next]_vars =>
          \A p \in Calls : at[p] = "parked" =>
              at'[p] = "parked" /\ Admitted' \subseteq Admitted
    <2> SUFFICES ASSUME TypeOK, LockInv, [Next]_vars,
                        NEW p \in Calls, at[p] = "parked"
                 PROVE  at'[p] = "parked" /\ Admitted' \subseteq Admitted
        OBVIOUS
    <2>1. CASE \E c \in Calls : Begin(c) \/ Step(c)
        BY <2>1, StepWhileHanging
    <2>2. CASE Tick \/ UNCHANGED vars
        BY <2>2 DEF Tick, vars, Admitted
    <2>3. QED
        BY <2>1, <2>2 DEF Next
<1>2. QED
    BY <1>1, GeminiTypes, GeminiLock, PTL DEF Spec, HangIsFinal
=============================================================================
