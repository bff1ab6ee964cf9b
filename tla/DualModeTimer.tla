--------------------------- MODULE DualModeTimer ---------------------------
(***************************************************************************)
(* DualModeTimer: one manager thread fires timers that any thread may add, *)
(* wait for or cancel.  An iteration of managerThread runs under           *)
(* tasks_mutex_ and is one step; the test of running_ before it is another *)
(* one, without the mutex.  Callbacks run in detached threads.  Time is a  *)
(* counter; what is due when is all that matters of it.                    *)
(***************************************************************************)
EXTENDS Integers, FiniteSets

CONSTANTS MaxTimers,    \* bound on the timers that are added
          Durations,    \* the durations they are added with
          MaxTime,      \* bound on the clock
          StopInWindow  \* stop() may fall between the test of running_ and the wait

ASSUME MaxTimersAssumption == MaxTimers \in Nat
ASSUME DurationsAssumption == Durations \subseteq Nat
ASSUME MaxTimeAssumption == MaxTime \in Nat
ASSUME StopInWindowAssumption == StopInWindow \in BOOLEAN

VARIABLES
    running,    \* running_
    manager,    \* where managerThread is
    stopper,    \* where stop() is
    tasks,      \* tasks_: the timers in the priority queue
    active,     \* active_tasks_
    next_id,    \* next_id_
    due,        \* start_time + duration of each timer
    now,        \* the clock
    waiting,    \* the timers whose callers are blocked in addBlockingTimer
    blocking,   \* the timers added by addBlockingTimer
    cancelled,  \* the timers for which cancelTimer has returned true
    launched,   \* the timers whose callback thread was started
    finished    \* those whose callback has run

taskVars == <<tasks, active, next_id, due>>
callbackVars == <<waiting, blocking, launched, finished>>
vars == <<running, manager, stopper, taskVars, now, cancelled, callbackVars>>

Ids == 0..(MaxTimers - 1)
Times == 0..MaxTime

Init ==
    /\ running = FALSE /\ manager = "none" /\ stopper = "idle"
    /\ tasks = {} /\ active = {} /\ next_id = 0
    /\ due = [id \in Ids |-> 0] /\ now = 0
    /\ waiting = {} /\ blocking = {} /\ cancelled = {}
    /\ launched = {} /\ finished = {}

Asleep == manager \in {"wait", "wait_until"}
Woken == IF Asleep THEN "check" ELSE manager

start ==
    /\ manager = "none"
    /\ running' = TRUE
    /\ manager' = "check"
    /\ UNCHANGED <<stopper, taskVars, now, cancelled, callbackVars>>

(***************************************************************************)
(* stop, called once: the store, the notification and the join             *)
(***************************************************************************)
StopStore ==
    /\ stopper = "idle" /\ manager # "none"
    /\ manager = "locked" => StopInWindow
    /\ running' = FALSE
    /\ stopper' = "notify"
    /\ UNCHANGED <<manager, taskVars, now, cancelled, callbackVars>>

\* Mutant: nobody is notified.
StopSilently ==
    /\ stopper = "notify"
    /\ stopper' = "join"
    /\ UNCHANGED <<running, manager, taskVars, now, cancelled, callbackVars>>

StopNotify ==
    /\ stopper = "notify"
    /\ manager' = Woken
    /\ stopper' = "join"
    /\ UNCHANGED <<running, taskVars, now, cancelled, callbackVars>>

StopJoined ==
    /\ stopper = "join" /\ manager = "ended"
    /\ stopper' = "joined"
    /\ UNCHANGED <<running, manager, taskVars, now, cancelled, callbackVars>>

(***************************************************************************)
(* addNonBlockingTimer, addBlockingTimer and cancelTimer                   *)
(***************************************************************************)
\* Mutant: the manager is not notified of the new timer.
AddSilently(duration, blocks) ==
    /\ next_id < MaxTimers /\ now + duration <= MaxTime
    /\ tasks' = tasks \cup {next_id}
    /\ active' = active \cup {next_id}
    /\ due' = [due EXCEPT ![next_id] = now + duration]
    /\ next_id' = next_id + 1
    /\ waiting' = IF blocks THEN waiting \cup {next_id} ELSE waiting
    /\ blocking' = IF blocks THEN blocking \cup {next_id} ELSE blocking
    /\ UNCHANGED <<running, manager, stopper, now, cancelled, launched, finished>>

\* Mutant: the identifier is incremented where the map is written, too.
AddCountingTwice(duration, blocks) ==
    /\ next_id < MaxTimers /\ now + duration <= MaxTime
    /\ tasks' = tasks \cup {next_id}
    /\ active' = active \cup {next_id}
    /\ due' = [due EXCEPT ![next_id] = now + duration]
    /\ next_id' = next_id + 2
    /\ manager' = Woken
    /\ waiting' = IF blocks THEN waiting \cup {next_id} ELSE waiting
    /\ blocking' = IF blocks THEN blocking \cup {next_id} ELSE blocking
    /\ UNCHANGED <<running, stopper, now, cancelled, launched, finished>>

AddTimer(duration, blocks) ==
    /\ next_id < MaxTimers /\ now + duration <= MaxTime
    /\ tasks' = tasks \cup {next_id}
    /\ active' = active \cup {next_id}
    /\ due' = [due EXCEPT ![next_id] = now + duration]
    /\ next_id' = next_id + 1
    /\ manager' = Woken
    /\ waiting' = IF blocks THEN waiting \cup {next_id} ELSE waiting
    /\ blocking' = IF blocks THEN blocking \cup {next_id} ELSE blocking
    /\ UNCHANGED <<running, stopper, now, cancelled, launched, finished>>

\* Mutant: the wait has no predicate and a spurious wake-up ends it.
BlockingReturnsOnWakeup(id) ==
    /\ id \in waiting
    /\ waiting' = waiting \ {id}
    /\ UNCHANGED <<running, manager, stopper, taskVars, now, cancelled, blocking, launched, finished>>

\* The wait on the caller's own condition variable is over.
BlockingReturns(id) ==
    /\ id \in waiting \cap finished
    /\ waiting' = waiting \ {id}
    /\ UNCHANGED <<running, manager, stopper, taskVars, now, cancelled, blocking, launched, finished>>

\* cancelTimer returns true; otherwise it changes nothing.  The caller has the
\* identifier from addNonBlockingTimer.  The task stays in the queue.
cancelTimer(id) ==
    /\ id \in active \ blocking
    /\ active' = active \ {id}
    /\ cancelled' = cancelled \cup {id}
    /\ UNCHANGED <<running, manager, stopper, tasks, next_id, due, now, callbackVars>>

(***************************************************************************)
(* managerThread                                                           *)
(***************************************************************************)
ManagerTests ==
    /\ manager = "check"
    /\ manager' = IF running THEN "locked" ELSE "ended"
    /\ UNCHANGED <<running, stopper, taskVars, now, cancelled, callbackVars>>

ManagerWaits ==
    /\ manager = "locked" /\ tasks = {}
    /\ manager' = "wait"
    /\ UNCHANGED <<running, stopper, taskVars, now, cancelled, callbackVars>>

\* Mutant: operator< the other way round.
TopLatest(id) == id \in tasks /\ \A other \in tasks : due[id] >= due[other]

\* tasks_.top(); among timers due at the same time any one.
Top(id) == id \in tasks /\ \A other \in tasks : due[id] <= due[other]

\* Mutant: the timer stays active.
ManagerFiresKeeping(id) ==
    /\ manager = "locked" /\ Top(id) /\ now >= due[id]
    /\ tasks' = tasks \ {id}
    /\ launched' = IF id \in active THEN launched \cup {id} ELSE launched
    /\ manager' = "check"
    /\ UNCHANGED <<running, stopper, active, next_id, due, now, cancelled, waiting, blocking, finished>>

ManagerFires(id) ==
    /\ manager = "locked" /\ Top(id) /\ now >= due[id]
    /\ tasks' = tasks \ {id}
    /\ active' = active \ {id}
    /\ launched' = IF id \in active THEN launched \cup {id} ELSE launched
    /\ manager' = "check"
    /\ UNCHANGED <<running, stopper, next_id, due, now, cancelled, waiting, blocking, finished>>

ManagerWaitsUntil(id) ==
    /\ manager = "locked" /\ Top(id) /\ now < due[id]
    /\ manager' = "wait_until"
    /\ UNCHANGED <<running, stopper, taskVars, now, cancelled, callbackVars>>

ManagerTimesOut(id) ==
    /\ manager = "wait_until" /\ Top(id) /\ now >= due[id]
    /\ manager' = "check"
    /\ UNCHANGED <<running, stopper, taskVars, now, cancelled, callbackVars>>

SpuriousWakeup ==
    /\ Asleep
    /\ manager' = "check"
    /\ UNCHANGED <<running, stopper, taskVars, now, cancelled, callbackVars>>

CallbackRuns(id) ==
    /\ id \in launched \ finished
    /\ finished' = finished \cup {id}
    /\ UNCHANGED <<running, manager, stopper, taskVars, now, cancelled, waiting, blocking, launched>>

Tick ==
    /\ now < MaxTime
    /\ now' = now + 1
    /\ UNCHANGED <<running, manager, stopper, taskVars, cancelled, callbackVars>>

-----------------------------------------------------------------------------
Manager == \/ ManagerTests \/ ManagerWaits
           \/ \E id \in Ids : ManagerFires(id) \/ ManagerWaitsUntil(id) \/ ManagerTimesOut(id)
Stop == StopStore \/ StopNotify \/ StopJoined
Callers == \/ \E duration \in Durations, blocks \in BOOLEAN : AddTimer(duration, blocks)
           \/ \E id \in Ids : cancelTimer(id)

Next ==
    \/ start \/ Stop \/ Callers \/ Manager \/ SpuriousWakeup \/ Tick
    \/ \E id \in Ids : CallbackRuns(id) \/ BlockingReturns(id)

Spec == Init /\ [][Next]_vars

\* Threads that can run do, and time passes.  Nobody has to call anything.
FairSpec ==
    /\ Spec
    /\ WF_vars(Manager) /\ WF_vars(Tick)
    /\ WF_vars(StopNotify) /\ WF_vars(StopJoined)
    /\ \A id \in Ids : WF_vars(CallbackRuns(id)) /\ WF_vars(BlockingReturns(id))

-----------------------------------------------------------------------------
\* Type invariant.
TypeOK ==
    /\ running \in BOOLEAN
    /\ manager \in {"none", "check", "locked", "wait", "wait_until", "ended"}
    /\ stopper \in {"idle", "notify", "join", "joined"}
    /\ next_id \in 0..MaxTimers /\ due \in [Ids -> Times] /\ now \in Times
    /\ tasks \subseteq Ids /\ active \subseteq Ids /\ cancelled \subseteq Ids
    /\ waiting \subseteq Ids /\ blocking \subseteq Ids
    /\ launched \subseteq Ids /\ finished \subseteq launched

\* A cancelTimer that returns true and the expiry of the same timer exclude each
\* other: every timer added is still active, was cancelled or was fired, and only
\* one of them; a timer that is active is still in the queue.
TimersAccounted ==
    /\ 0..(next_id - 1) = active \cup cancelled \cup launched
    /\ active \cap cancelled = {} /\ active \cap launched = {} /\ cancelled \cap launched = {}
    /\ active \subseteq tasks /\ tasks \cap launched = {}

\* No callback is started before its time, and none while another active timer
\* is due earlier.
EarliestFirst ==
    [][\A id \in launched' \ launched :
          now >= due[id] /\ \A other \in active : due[id] <= due[other]]_vars

\* A caller of addBlockingTimer goes on only after its own duration.
BlockedLongEnough == \A id \in blocking \ waiting : now >= due[id]

\* Every timer that is not cancelled is fired and its caller released, whatever
\* is added while the manager sleeps, unless the manager is stopped.
TimersEnd ==
    \A id \in Ids :
        next_id > id ~> \/ id \in cancelled
                        \/ id \in finished \ waiting
                        \/ ~running

\* stop() ends the manager thread, so that the join returns, also while timers
\* are pending.
StopEnds == stopper = "notify" ~> stopper = "joined"
=============================================================================
