------------------------- MODULE DualModeTimerProofs -------------------------
(***************************************************************************)
(* Theorems about DualModeTimer, for any number of timers, any durations   *)
(* and any clock.                                                          *)
(***************************************************************************)
EXTENDS DualModeTimer, TLAPS

\* What was launched was due.
LaunchedDue == \A id \in launched : now >= due[id]

\* A caller of addBlockingTimer that went on had its callback.
ReleasedFinished == blocking \ waiting \subseteq finished

IInv == TypeOK /\ TimersAccounted /\ LaunchedDue /\ ReleasedFinished

\* The variables the invariant speaks of; the threads' places are not among them.
bookVars == <<taskVars, now, cancelled, callbackVars>>

-----------------------------------------------------------------------------
\* The initial state: no timer, nothing recorded (the constructor).
LEMMA InitIInv == Init => IInv
<1> SUFFICES ASSUME Init PROVE IInv
  OBVIOUS
<1>1. TypeOK
  <2>1. 0 \in Times /\ next_id \in 0..MaxTimers
    BY MaxTimersAssumption, MaxTimeAssumption DEF Init, Times
  <2>2. due \in [Ids -> Times]
    BY <2>1 DEF Init
  <2>3. now \in Times
    BY <2>1 DEF Init
  <2> QED
    BY <2>1, <2>2, <2>3 DEF Init, TypeOK
<1>2. TimersAccounted
  <2>1. 0..(next_id - 1) = {}
    BY DEF Init
  <2> QED
    BY <2>1 DEF Init, TimersAccounted
<1>3. LaunchedDue /\ ReleasedFinished
  BY DEF Init, LaunchedDue, ReleasedFinished
<1> QED
  BY <1>1, <1>2, <1>3 DEF IInv

\* Steps that only move a thread keep the book-keeping part of the invariant.
LEMMA BookUnchanged ==
    ASSUME IInv, UNCHANGED bookVars
    PROVE  TimersAccounted' /\ LaunchedDue' /\ ReleasedFinished'
  BY DEF IInv, TimersAccounted, LaunchedDue, ReleasedFinished, bookVars, taskVars, callbackVars

\* Notifying leaves the manager in a place.
LEMMA WokenPlace ==
    ASSUME TypeOK
    PROVE  Woken \in {"none", "check", "locked", "wait", "wait_until", "ended"}
  BY DEF TypeOK, Woken, Asleep

\* addBlockingTimer and addNonBlockingTimer: the new identifier has not been used.
LEMMA AddIInv ==
    ASSUME IInv, NEW duration \in Durations, NEW blocks \in BOOLEAN, AddTimer(duration, blocks)
    PROVE  IInv'
<1> USE MaxTimersAssumption, MaxTimeAssumption, DurationsAssumption
<1>1. next_id \in Ids /\ now + duration \in Times /\ next_id \in Nat
  BY DEF IInv, TypeOK, AddTimer, Ids, Times
<1>2. next_id \notin active \cup cancelled \cup launched
  BY <1>1 DEF IInv, TimersAccounted
<1>3. 0..(next_id' - 1) = 0..(next_id - 1) \cup {next_id}
  BY <1>1 DEF AddTimer
<1>4. /\ due' \in [Ids -> Times]
      /\ \A id \in Ids : id # next_id => due'[id] = due[id]
  BY <1>1 DEF IInv, TypeOK, AddTimer
<1>5. TypeOK'
  <2>1. manager' \in {"none", "check", "locked", "wait", "wait_until", "ended"}
    BY WokenPlace DEF IInv, AddTimer
  <2>2. /\ tasks' \subseteq Ids /\ active' \subseteq Ids
        /\ waiting' \subseteq Ids /\ blocking' \subseteq Ids
    BY <1>1 DEF IInv, TypeOK, AddTimer
  <2>3. next_id' \in 0..MaxTimers
    BY <1>1 DEF AddTimer
  <2> QED
    BY <1>4, <2>1, <2>2, <2>3 DEF IInv, TypeOK, AddTimer
<1>6. TimersAccounted'
  <2>1. 0..(next_id' - 1) = active' \cup cancelled' \cup launched'
    BY <1>3 DEF IInv, TimersAccounted, AddTimer
  <2>2. /\ active' \cap cancelled' = {} /\ active' \cap launched' = {}
        /\ cancelled' \cap launched' = {}
    BY <1>2 DEF IInv, TimersAccounted, AddTimer
  <2>3. active' \subseteq tasks' /\ tasks' \cap launched' = {}
    BY <1>2 DEF IInv, TimersAccounted, AddTimer
  <2> QED
    BY <2>1, <2>2, <2>3 DEF TimersAccounted
<1>7. LaunchedDue'
  <2> SUFFICES ASSUME NEW id \in launched PROVE now >= due'[id]
    BY DEF LaunchedDue, AddTimer
  <2>1. id # next_id /\ id \in Ids
    BY <1>2 DEF IInv, TypeOK
  <2> QED
    BY <1>4, <2>1 DEF IInv, LaunchedDue
<1>8. ReleasedFinished'
  BY DEF IInv, ReleasedFinished, AddTimer
<1> QED
  BY <1>5, <1>6, <1>7, <1>8 DEF IInv

\* cancelTimer: the timer leaves the active ones for the cancelled ones.
LEMMA CancelIInv ==
    ASSUME IInv, NEW id \in Ids, cancelTimer(id)
    PROVE  IInv'
<1>1. TypeOK'
  BY DEF IInv, TypeOK, cancelTimer, callbackVars
<1>2. TimersAccounted'
  BY DEF IInv, TimersAccounted, cancelTimer, callbackVars
<1>3. LaunchedDue' /\ ReleasedFinished'
  BY DEF IInv, LaunchedDue, ReleasedFinished, cancelTimer, callbackVars
<1> QED
  BY <1>1, <1>2, <1>3 DEF IInv

\* managerThread, a timer that is due: it leaves the queue and, if it is still
\* active, the active timers for the launched ones.
LEMMA FireIInv ==
    ASSUME IInv, NEW id \in Ids, ManagerFires(id)
    PROVE  IInv'
<1>1. TypeOK'
  BY DEF IInv, TypeOK, ManagerFires
<1>2. TimersAccounted'
  <2>1. CASE id \in active
    BY <2>1 DEF IInv, TimersAccounted, ManagerFires
  <2>2. CASE id \notin active
    BY <2>2 DEF IInv, TimersAccounted, ManagerFires
  <2> QED
    BY <2>1, <2>2
<1>3. LaunchedDue'
  BY DEF IInv, LaunchedDue, ManagerFires
<1>4. ReleasedFinished'
  BY DEF IInv, ReleasedFinished, ManagerFires
<1> QED
  BY <1>1, <1>2, <1>3, <1>4 DEF IInv

\* The callback has run, or the blocked caller goes on after it.
LEMMA CallbackIInv ==
    ASSUME IInv, NEW id \in Ids, CallbackRuns(id) \/ BlockingReturns(id)
    PROVE  IInv'
<1>1. CASE CallbackRuns(id)
  BY <1>1 DEF IInv, TypeOK, TimersAccounted, LaunchedDue, ReleasedFinished, CallbackRuns, taskVars
<1>2. CASE BlockingReturns(id)
  BY <1>2 DEF IInv, TypeOK, TimersAccounted, LaunchedDue, ReleasedFinished, BlockingReturns, taskVars
<1> QED
  BY <1>1, <1>2

\* Time passes: what was due still is.
LEMMA TickIInv == ASSUME IInv, Tick PROVE IInv'
<1> USE MaxTimersAssumption, MaxTimeAssumption
<1>1. TypeOK'
  BY DEF IInv, TypeOK, Tick, Times, taskVars, callbackVars
<1>2. TimersAccounted' /\ ReleasedFinished'
  BY DEF IInv, TimersAccounted, ReleasedFinished, Tick, taskVars, callbackVars
<1>3. LaunchedDue'
  <2> SUFFICES ASSUME NEW id \in launched PROVE now' >= due[id]
    BY DEF LaunchedDue, Tick, taskVars, callbackVars
  <2>1. now \in Int /\ due[id] \in Int /\ now >= due[id]
    BY DEF IInv, TypeOK, LaunchedDue, Times
  <2> QED
    BY <2>1 DEF Tick
<1> QED
  BY <1>1, <1>2, <1>3 DEF IInv

\* The steps that only move the manager thread or stop().
ThreadStep ==
    \/ start \/ Stop \/ SpuriousWakeup \/ ManagerTests \/ ManagerWaits
    \/ \E id \in Ids : ManagerWaitsUntil(id) \/ ManagerTimesOut(id)

\* They keep the invariant.
LEMMA ThreadIInv == ASSUME IInv, ThreadStep PROVE IInv'
<1>1. UNCHANGED bookVars
  BY DEF ThreadStep, start, Stop, StopStore, StopNotify, StopJoined, SpuriousWakeup, ManagerTests,
         ManagerWaits, ManagerWaitsUntil, ManagerTimesOut, bookVars
<1>2. running' \in BOOLEAN
  BY DEF IInv, TypeOK, ThreadStep, start, Stop, StopStore, StopNotify, StopJoined, SpuriousWakeup,
         ManagerTests, ManagerWaits, ManagerWaitsUntil, ManagerTimesOut
<1>3. manager' \in {"none", "check", "locked", "wait", "wait_until", "ended"}
  BY WokenPlace DEF IInv, TypeOK, ThreadStep, start, Stop, StopStore, StopNotify, StopJoined,
         SpuriousWakeup, ManagerTests, ManagerWaits, ManagerWaitsUntil, ManagerTimesOut
<1>4. stopper' \in {"idle", "notify", "join", "joined"}
  BY DEF IInv, TypeOK, ThreadStep, start, Stop, StopStore, StopNotify, StopJoined, SpuriousWakeup,
         ManagerTests, ManagerWaits, ManagerWaitsUntil, ManagerTimesOut
<1>5. TypeOK'
  BY <1>1, <1>2, <1>3, <1>4 DEF IInv, TypeOK, bookVars, taskVars, callbackVars
<1> QED
  BY <1>1, <1>5, BookUnchanged DEF IInv

\* Every step of the timer keeps the invariant.
LEMMA StepIInv == IInv /\ [Next]_vars => IInv'
<1> SUFFICES ASSUME IInv, [Next]_vars PROVE IInv'
  OBVIOUS
<1>1. CASE ThreadStep
  BY <1>1, ThreadIInv
<1>2. CASE \E duration \in Durations, blocks \in BOOLEAN : AddTimer(duration, blocks)
  BY <1>2, AddIInv
<1>3. CASE \E id \in Ids : cancelTimer(id)
  BY <1>3, CancelIInv
<1>4. CASE \E id \in Ids : ManagerFires(id)
  BY <1>4, FireIInv
<1>5. CASE \E id \in Ids : CallbackRuns(id) \/ BlockingReturns(id)
  BY <1>5, CallbackIInv
<1>6. CASE Tick
  BY <1>6, TickIInv
<1>7. CASE UNCHANGED vars
  <2>1. UNCHANGED bookVars /\ TypeOK'
    BY <1>7 DEF IInv, TypeOK, vars, bookVars, taskVars, callbackVars
  <2> QED
    BY <2>1, BookUnchanged DEF IInv
<1> QED
  BY <1>1, <1>2, <1>3, <1>4, <1>5, <1>6, <1>7 DEF Next, Callers, Manager, ThreadStep

\* The invariant holds in every state.
LEMMA Invariance == Spec => []IInv
  BY InitIInv, StepIInv, PTL DEF Spec

-----------------------------------------------------------------------------
\* Every variable of the timer keeps its type, for all numbers of timers,
\* durations and clocks.
THEOREM TypeCorrect == Spec => []TypeOK
<1>1. IInv => TypeOK
  BY DEF IInv
<1> QED
  BY <1>1, Invariance, PTL

\* A timer is fired or cancelled, never both, and none is lost (cancelTimer
\* against managerThread).
THEOREM CancelledOrFired == Spec => []TimersAccounted
<1>1. IInv => TimersAccounted
  BY DEF IInv
<1> QED
  BY <1>1, Invariance, PTL

\* addBlockingTimer does not return before its duration has passed.
THEOREM BlocksLongEnough == Spec => []BlockedLongEnough
<1>1. IInv => BlockedLongEnough
  BY DEF IInv, TypeOK, LaunchedDue, ReleasedFinished, BlockedLongEnough
<1> QED
  BY <1>1, Invariance, PTL

\* Callbacks are started when due, and in the order of their times
\* (managerThread, TimerTask::operator<).
THEOREM FiredInOrder == Spec => EarliestFirst
<1> DEFINE InOrder == \A id \in launched' \ launched :
                        now >= due[id] /\ \A other \in active : due[id] <= due[other]
<1>1. IInv /\ [Next]_vars => [InOrder]_vars
  <2> SUFFICES ASSUME IInv, [Next]_vars, NEW id \in launched' \ launched
               PROVE  now >= due[id] /\ \A other \in active : due[id] <= due[other]
    OBVIOUS
  <2>1. ManagerFires(id)
    BY DEF Next, Callers, Manager, Stop, start, StopStore, StopNotify, StopJoined, AddTimer,
           cancelTimer, ManagerTests, ManagerWaits, ManagerFires, ManagerWaitsUntil,
           ManagerTimesOut, SpuriousWakeup, Tick, CallbackRuns, BlockingReturns, vars, callbackVars
  <2>2. now >= due[id] /\ \A other \in tasks : due[id] <= due[other]
    BY <2>1 DEF ManagerFires, Top
  <2> QED
    BY <2>2 DEF IInv, TimersAccounted
<1>2. Spec => [][InOrder]_vars
  BY <1>1, Invariance, PTL DEF Spec
<1> QED
  BY <1>2 DEF EarliestFirst
=============================================================================
