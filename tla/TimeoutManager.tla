--------------------------- MODULE TimeoutManager ---------------------------
(***************************************************************************)
(* The timeout manager of src/src/pool.rs: one thread that terminates      *)
(* script executions whose deadline has passed.  The threads that run      *)
(* scripts push entries into a binary heap under a mutex and then notify a *)
(* condition variable; the manager sleeps on that condition variable until *)
(* the earliest deadline.  Cancelling an entry and stopping the manager go *)
(* through atomics, without the mutex: that is where the races are.        *)
(*                                                                         *)
(* V8's terminate_execution is external: here it only records that the     *)
(* manager called it for an execution.                                     *)
(***************************************************************************)
EXTENDS Integers, FiniteSets

CONSTANTS
  Isolates,       \* isolates whose scripts run under a timeout
  Durations,      \* the timeout_duration values register is called with
  MaxExecutions,  \* bound on calls of register
  MaxTime,        \* bound on the clock
  MaxStops        \* bound on calls of stop

ASSUME ConstantsAssumption ==
  /\ Durations \subseteq Nat \ {0}   \* timeout_from_ms turns 0 into None
  /\ MaxExecutions \in Nat
  /\ MaxTime \in Nat
  /\ MaxStops \in Nat
  /\ Isolates # {}

VARIABLES
  now,              \* Instant::now()
  (* the state behind the mutex and the atomics *)
  queue,            \* the BinaryHeap, as the set of the execution ids in it
  deadline,         \* TimeoutEntry.deadline of every execution id
  owner,            \* TimeoutEntry.isolate_id of every execution id
  cancelled,        \* execution ids whose cancelled flag is set
  nextExecutionId,  \* the next_execution_id counter
  stopFlag,         \* the stop_flag
  (* the manager thread *)
  pc,               \* where it is in run
  wakeAt,           \* the deadline it sleeps until, when pc = "waitTimeout"
  scanTime,         \* the instant the expiry scan compares deadlines with, when
                    \* pc is "scan" or "terminate"; both are 0 when out of use
  firing,           \* the entry it is about to terminate, when pc = "terminate"
  fired,            \* execution ids it has called terminate_execution for
  (* the threads that call the manager *)
  phase,            \* where each isolate's thread is in execute_with_timeout
  current,          \* the execution id each isolate is running
  stops,            \* how often stop was called
  notifyOwed        \* stop has stored the flag and not yet notified

clientVars == <<phase, current, stops, notifyOwed>>
managerVars == <<pc, wakeAt, scanTime, firing, fired>>
sharedVars == <<queue, deadline, owner, cancelled, nextExecutionId, stopFlag>>
vars == <<now, clientVars, managerVars, sharedVars>>

ExecutionIds == 0 .. MaxExecutions - 1
NoExecution == -1

\* idle: outside execute_with_timeout.  registering: register has computed the
\* deadline and not yet pushed.  notifying: pushed, condition variable not yet
\* notified.  running: from the return of register to the drop of the handle.
Phases == {"idle", "registering", "notifying", "running"}

\* Where run is: about to lock (acquire), about to peek, asleep without or with
\* a timeout, woken and about to lock again, before the second look at the stop
\* flag, in the expiry loop, about to terminate one entry, returned.
ManagerPcs == {"acquire", "peek", "wait", "waitTimeout", "reacquire",
               "recheck", "scan", "terminate", "stopped"}

\* A variant with a bug: the mutex released before terminate_execution.
QueueLockedUntilPop == pc \in {"peek", "recheck", "scan"}

\* The manager holds the mutex from one lock() or wake-up to the next sleep
\* or end of the loop body; every other holder keeps it for a single push.
QueueLocked == pc \in {"peek", "recheck", "scan", "terminate"}

\* A variant with a bug: Ord without the reversal.
Latest == {e \in queue : \A f \in queue : deadline[e] >= deadline[f]}

\* The heap is ordered by reversed deadline only: peek and pop see some entry
\* with the least deadline.
Earliest == {e \in queue : \A f \in queue : deadline[e] <= deadline[f]}

\* Condvar::notify_one: a notification nobody waits for is lost.
NotifyOne ==
  /\ pc' = CASE pc = "wait" -> "acquire"
             [] pc = "waitTimeout" -> "reacquire"
             [] OTHER -> pc
  /\ wakeAt' = 0

-----------------------------------------------------------------------------
\* The owner of an execution id before register sets it; nothing reads it.
AnyIsolate == CHOOSE i \in Isolates : TRUE

Init ==
  /\ now = 0
  /\ queue = {}
  /\ deadline = [e \in ExecutionIds |-> 0]
  /\ owner = [e \in ExecutionIds |-> AnyIsolate]
  /\ cancelled = {}
  /\ nextExecutionId = 0
  /\ stopFlag = FALSE
  /\ pc = "acquire"
  /\ wakeAt = 0
  /\ scanTime = 0
  /\ firing = NoExecution
  /\ fired = {}
  /\ phase = [i \in Isolates |-> "idle"]
  /\ current = [i \in Isolates |-> NoExecution]
  /\ stops = 0
  /\ notifyOwed = FALSE

-----------------------------------------------------------------------------
(* The threads that run scripts: register, and the drop of its handle.     *)

\* register, before the mutex: a fresh execution id, and the deadline.
Prepare(i, d) ==
  /\ phase[i] = "idle"
  /\ nextExecutionId < MaxExecutions
  /\ now + d <= MaxTime
  /\ nextExecutionId' = nextExecutionId + 1
  /\ deadline' = [deadline EXCEPT ![nextExecutionId] = now + d]
  /\ owner' = [owner EXCEPT ![nextExecutionId] = i]
  /\ current' = [current EXCEPT ![i] = nextExecutionId]
  /\ phase' = [phase EXCEPT ![i] = "registering"]
  /\ UNCHANGED <<now, managerVars, queue, cancelled, stopFlag, stops, notifyOwed>>

\* register, under the mutex.
Push(i) ==
  /\ phase[i] = "registering"
  /\ ~QueueLocked
  /\ queue' = queue \cup {current[i]}
  /\ phase' = [phase EXCEPT ![i] = "notifying"]
  /\ UNCHANGED <<now, managerVars, deadline, owner, cancelled, nextExecutionId,
                 stopFlag, current, stops, notifyOwed>>

\* A variant with a bug: register does not notify.
NotifySkipped(i) ==
  /\ phase[i] = "notifying"
  /\ phase' = [phase EXCEPT ![i] = "running"]
  /\ UNCHANGED <<now, managerVars, sharedVars, current, stops, notifyOwed>>

\* register, after the mutex; it then returns the handle and the script runs.
Notify(i) ==
  /\ phase[i] = "notifying"
  /\ NotifyOne
  /\ phase' = [phase EXCEPT ![i] = "running"]
  /\ UNCHANGED <<now, scanTime, firing, fired, sharedVars, current, stops,
                 notifyOwed>>

\* The end of execute_with_timeout drops the handle, which cancels the entry
\* with an atomic store: the entry stays in the heap and the mutex is not taken.
Drop(i) ==
  /\ phase[i] = "running"
  /\ cancelled' = cancelled \cup {current[i]}
  /\ current' = [current EXCEPT ![i] = NoExecution]
  /\ phase' = [phase EXCEPT ![i] = "idle"]
  /\ UNCHANGED <<now, managerVars, queue, deadline, owner, nextExecutionId,
                 stopFlag, stops, notifyOwed>>

-----------------------------------------------------------------------------
(* stop: an atomic store and then a notification, both without the mutex.  *)

StopStore ==
  /\ stops < MaxStops
  /\ ~notifyOwed
  /\ stops' = stops + 1
  /\ stopFlag' = TRUE
  /\ notifyOwed' = TRUE
  /\ UNCHANGED <<now, managerVars, queue, deadline, owner, cancelled,
                 nextExecutionId, phase, current>>

StopNotify ==
  /\ notifyOwed
  /\ NotifyOne
  /\ notifyOwed' = FALSE
  /\ UNCHANGED <<now, scanTime, firing, fired, sharedVars, phase, current,
                 stops>>

-----------------------------------------------------------------------------
(* The manager thread: run.  Locking and the load that follows it are one  *)
(* step; the load of the stop flag and the decision to sleep are not.      *)

\* The top of the loop: lock, and look at the stop flag.
Acquire ==
  /\ pc = "acquire"
  /\ pc' = IF stopFlag THEN "stopped" ELSE "peek"
  /\ UNCHANGED <<now, wakeAt, scanTime, firing, fired, sharedVars, clientVars>>

\* An empty heap: sleep until notified, and start over.
PeekEmpty ==
  /\ pc = "peek"
  /\ queue = {}
  /\ pc' = "wait"
  /\ UNCHANGED <<now, wakeAt, scanTime, firing, fired, sharedVars, clientVars>>

\* An entry at the top: sleep until its deadline if that has not passed.
PeekEntry ==
  /\ pc = "peek"
  /\ \E e \in Earliest :
       IF deadline[e] > now
         THEN /\ pc' = "waitTimeout"
              /\ wakeAt' = deadline[e]
         ELSE /\ pc' = "recheck"
              /\ UNCHANGED wakeAt
  /\ UNCHANGED <<now, scanTime, firing, fired, sharedVars, clientVars>>

\* wait_timeout returns because the time is over.
WaitExpires ==
  /\ pc = "waitTimeout"
  /\ now >= wakeAt
  /\ pc' = "reacquire"
  /\ wakeAt' = 0
  /\ UNCHANGED <<now, scanTime, firing, fired, sharedVars, clientVars>>

\* A condition variable may wake its waiter without a notification.
SpuriousWake ==
  /\ pc \in {"wait", "waitTimeout"}
  /\ NotifyOne
  /\ UNCHANGED <<now, scanTime, firing, fired, sharedVars, clientVars>>

\* With the mutex again or still: look at the stop flag a second time, and read
\* the clock once for the whole scan.
Recheck ==
  /\ pc \in {"reacquire", "recheck"}
  /\ IF stopFlag
       THEN /\ pc' = "stopped"
            /\ UNCHANGED scanTime
       ELSE /\ pc' = "scan"
            /\ scanTime' = now
  /\ UNCHANGED <<now, wakeAt, firing, fired, sharedVars, clientVars>>

\* No entry has expired: the end of the loop body releases the mutex.
ScanEnd ==
  /\ pc = "scan"
  /\ \A e \in Earliest : deadline[e] > scanTime
  /\ pc' = "acquire"
  /\ scanTime' = 0
  /\ UNCHANGED <<now, wakeAt, firing, fired, sharedVars, clientVars>>

\* A variant with a bug: the cancelled flag is not looked at.
ScanPopUnchecked ==
  /\ pc = "scan"
  /\ \E e \in Earliest :
       /\ deadline[e] <= scanTime
       /\ queue' = queue \ {e}
       /\ pc' = "terminate"
       /\ firing' = e
  /\ UNCHANGED <<now, wakeAt, scanTime, fired, deadline, owner, cancelled,
                 nextExecutionId, stopFlag, clientVars>>

\* An entry has expired: pop it and skip it if it is cancelled by now.
ScanPop ==
  /\ pc = "scan"
  /\ \E e \in Earliest :
       /\ deadline[e] <= scanTime
       /\ queue' = queue \ {e}
       /\ IF e \in cancelled
            THEN UNCHANGED <<pc, firing>>
            ELSE /\ pc' = "terminate"
                 /\ firing' = e
  /\ UNCHANGED <<now, wakeAt, scanTime, fired, deadline, owner, cancelled,
                 nextExecutionId, stopFlag, clientVars>>

\* A variant with a bug: the popped entry is kept as the current one.
TerminateRetained ==
  /\ pc = "terminate"
  /\ fired' = fired \cup {firing}
  /\ pc' = "scan"
  /\ UNCHANGED <<now, wakeAt, scanTime, firing, sharedVars, clientVars>>

\* terminate_execution on the entry's isolate, the mutex still held.
Terminate ==
  /\ pc = "terminate"
  /\ fired' = fired \cup {firing}
  /\ firing' = NoExecution
  /\ pc' = "scan"
  /\ UNCHANGED <<now, wakeAt, scanTime, sharedVars, clientVars>>

Tick ==
  /\ now < MaxTime
  /\ now' = now + 1
  /\ UNCHANGED <<managerVars, sharedVars, clientVars>>

-----------------------------------------------------------------------------
Manager == \/ Acquire \/ PeekEmpty \/ PeekEntry \/ WaitExpires \/ Recheck
           \/ ScanEnd \/ ScanPop \/ Terminate

Client(i) == \/ \E d \in Durations : Prepare(i, d)
             \/ Push(i) \/ Notify(i) \/ Drop(i)

Next == \/ Manager
        \/ SpuriousWake
        \/ StopStore
        \/ StopNotify
        \/ Tick
        \/ \E i \in Isolates : Client(i)

\* Threads that are not blocked keep running and time passes.  Nothing obliges
\* a script to end (Drop), a caller to register or to stop, a caller of register
\* to get the mutex (Push), or the condition variable to wake up by itself.
Fairness ==
  /\ WF_vars(Manager)
  /\ WF_vars(StopNotify)
  /\ WF_vars(Tick)
  /\ \A i \in Isolates : WF_vars(Notify(i))

Spec == Init /\ [][Next]_vars /\ Fairness

-----------------------------------------------------------------------------
(* Properties *)

\* Every variable holds a value of its kind; an entry is about to be terminated
\* exactly when the manager is at that point of run, and an isolate has a current
\* execution exactly from register to the drop of the handle.
TypeOK ==
  /\ now \in Nat
  /\ queue \subseteq ExecutionIds
  /\ deadline \in [ExecutionIds -> Nat]
  /\ owner \in [ExecutionIds -> Isolates]
  /\ cancelled \subseteq ExecutionIds
  /\ nextExecutionId \in 0 .. MaxExecutions
  /\ stopFlag \in BOOLEAN
  /\ pc \in ManagerPcs
  /\ wakeAt \in Nat
  /\ scanTime \in Nat
  /\ firing \in ExecutionIds \cup {NoExecution}
  /\ (firing = NoExecution) <=> (pc # "terminate")
  /\ fired \subseteq ExecutionIds
  /\ phase \in [Isolates -> Phases]
  /\ current \in [Isolates -> ExecutionIds \cup {NoExecution}]
  /\ \A i \in Isolates : (current[i] = NoExecution) <=> (phase[i] = "idle")
  /\ stops \in 0 .. MaxStops
  /\ notifyOwed \in BOOLEAN

\* The thread that pushed e has yet to notify the condition variable.
NotifyPending(e) == current[owner[e]] = e /\ phase[owner[e]] = "notifying"

\* register pushes before it notifies and run peeks before it sleeps, both
\* under the mutex, so no entry is overlooked: while the manager sleeps without
\* a deadline, or until one later than e's, e's notification is still to come.
NoMissedWakeup ==
  \A e \in queue :
    /\ pc = "wait" => NotifyPending(e)
    /\ (pc = "waitTimeout" /\ deadline[e] < wakeAt) => NotifyPending(e)

\* The manager keeps the mutex from the load of cancelled to the call of
\* terminate_execution, and the isolate's next execution needs the mutex before its
\* script starts: the call is made while the execution it is meant for is current, or
\* while no script of the isolate is running.  The next execution may be registering
\* then.  V8 keeps the request for it: TerminationsAreAccountedFor, in
\* IsolateExecution, counts what that costs.
NoCallDuringAnotherScript ==
  pc = "terminate" =>
    LET i == owner[firing]
    IN  current[i] = firing \/ phase[i] \in {"idle", "registering"}

\* The heap's reversed order: what is terminated has expired, and no entry left
\* in the heap expired before it.
ServesEarliestFirst ==
  pc = "terminate" =>
    /\ deadline[firing] <= now
    /\ \A e \in queue : deadline[firing] <= deadline[e]

\* A script that never ends is terminated once its deadline has passed, through
\* lost notifications, cancelled entries above it and other isolates' scripts,
\* unless the manager is stopped: what RuntimeLimits.execution_timeout is for.
HungExecutionTerminated ==
  \A e \in ExecutionIds :
    (e \in queue) ~> (e \in fired \cup cancelled \/ stopFlag)

\* "Stop the timeout manager" (the doc comment of stop): once stop was called,
\* the manager thread comes to the end of run.
StopStopsManager == stopFlag ~> (pc = "stopped")

-----------------------------------------------------------------------------
(* What the safety properties rest on: an inductive invariant.             *)

\* Execution ids are handed out in order, and an entry is in one place at most.
IdsAreFresh ==
  /\ \A e \in queue \cup cancelled \cup fired : e < nextExecutionId
  /\ firing < nextExecutionId
  /\ queue \cap fired = {}
  /\ firing \notin queue \cup fired

\* What a thread is registering or running is its own and not cancelled; the
\* manager knows it from the moment it is pushed.
CurrentIsOwn ==
  \A i \in Isolates : current[i] # NoExecution =>
    /\ owner[current[i]] = i
    /\ current[i] < nextExecutionId
    /\ current[i] \notin cancelled
    /\ phase[i] = "registering" <=>
         current[i] \notin queue \cup fired \cup {firing}

\* An entry that is not cancelled belongs to a script that has not ended.
UncancelledIsCurrent ==
  \A e \in queue \ cancelled :
    current[owner[e]] = e /\ phase[owner[e]] \in {"notifying", "running"}

\* The scan compares with an instant that is over.
ScanIsPast == scanTime <= now /\ (pc = "terminate" => deadline[firing] <= scanTime)

IInv == /\ TypeOK
        /\ IdsAreFresh
        /\ CurrentIsOwn
        /\ UncancelledIsCurrent
        /\ ScanIsPast
        /\ NoMissedWakeup
        /\ NoCallDuringAnotherScript
        /\ ServesEarliestFirst

-----------------------------------------------------------------------------
(* The contract the manager implements *)

\* A cancelled entry still in the heap is disarmed; an execution whose deadline
\* is computed but not pushed yet is not armed.
ArmedDeadlines == [e \in queue \ cancelled |-> deadline[e]]

EverRegistered == queue \cup cancelled \cup fired \cup ({firing} \ {NoExecution})

Contract == INSTANCE TimeoutContract
              WITH Timers <- ExecutionIds, NoTimer <- NoExecution, clock <- now,
                   due <- ArmedDeadlines, used <- EverRegistered,
                   expiring <- firing, stopped <- stopFlag

\* The manager implements the contract: one-shot timers served in the order of
\* their deadlines, that no mutex, lost notification or late cancellation makes
\* fire early, out of order or twice.
ImplementsContract == Contract!Spec

=============================================================================
