--------------------------- MODULE IsolateExecution ---------------------------
(***************************************************************************)
(* One isolate of src/src/pool.rs and the thread that executes scripts on  *)
(* it: execute_with_timeout, execute_inner, the isolate's event loop with  *)
(* its host message loop (bootstrap_worker.js), and the timeout manager,   *)
(* here the timers of TimeoutContract, which TimeoutManager implements.    *)
(*                                                                         *)
(* V8 is external.  terminate_execution leaves a request on the isolate.   *)
(* JavaScript that is running is interrupted by it some time later, unless *)
(* it ends first; JavaScript that starts with a request pending is         *)
(* interrupted at once.  deno_core makes the request anew after an         *)
(* interruption.  is_execution_terminating may overlook a request that no  *)
(* JavaScript has run into.                                                *)
(***************************************************************************)
EXTENDS Integers, FiniteSets

CONSTANTS
  TimeoutsMs,     \* values of the timeout_ms argument, in units of the clock
  MaxExecutions,  \* bound on the Execute messages for the isolate
  MaxMessages,    \* bound on the messages the host sends it
  MaxTime         \* bound on the clock

ASSUME ConstantsAssumption ==
  /\ TimeoutsMs \subseteq Nat
  /\ MaxExecutions \in Nat
  /\ MaxMessages \in Nat
  /\ MaxTime \in Nat

VARIABLES
  (* the timeout manager, see TimeoutContract *)
  clock, due, used, expiring, fired, stopped,
  (* the thread *)
  limit,         \* execution_timeout of the pool's default_limits, or None
  pc,            \* where it is in execute_with_timeout
  executions,    \* Execute messages taken so far; the last one is current
  result,        \* what became of every execution
  cpu,           \* how long JavaScript ran in every execution
  (* the isolate *)
  js,            \* what JavaScript is on the stack: a script, a tick of the
                 \* event loop, or none
  tasks,         \* timers or ops of the script keep its event loop alive
  messageLoop,   \* the state of hostMessageLoop
  requested,     \* terminate_execution has left a request
  overlooked,    \* how often the last probe overlooked it
  (* the host *)
  sent,          \* messages sent by send_to_isolate
  taken,         \* messages op_worker_recv has returned
  hostOpen       \* the host's end of the channel is not dropped

timerVars == <<clock, due, used, expiring, fired, stopped>>
threadVars == <<limit, pc, executions, result>>
isolateVars == <<js, tasks, messageLoop, requested, overlooked>>
hostVars == <<sent, taken, hostOpen>>
vars == <<timerVars, threadVars, cpu, isolateVars, hostVars>>

ExecutionIds == 0 .. MaxExecutions - 1
NoTimer == -1
None == 0

Timeouts == INSTANCE TimeoutContract WITH Timers <- ExecutionIds

Current == executions - 1

TimeoutFromMs(ms) == IF ms = 0 THEN None ELSE ms

\* idle: outside execute_with_timeout.  script: in execute_script.  loop: in
\* run_event_loop.  probe: execute_inner has returned.  grace: in run_event_loop
\* again.  cancel, exit: about to cancel the termination, to drop the handle.
Pcs == {"idle", "script", "loop", "probe", "grace", "cancel", "exit"}

Results == {"none", "ok", "error", "terminated"}

\* waiting: in op_worker_recv.  handling: dispatching a message.  closing: it
\* was told that the channel is closed.  over: it has ended or was interrupted.
MessageLoops == {"waiting", "handling", "closing", "over"}

Init ==
  /\ Timeouts!Init
  /\ limit \in {TimeoutFromMs(ms) : ms \in TimeoutsMs}
  /\ pc = "idle"
  /\ executions = 0
  /\ result = [e \in ExecutionIds |-> "none"]
  /\ cpu = [e \in ExecutionIds |-> 0]
  /\ js = "none"
  /\ tasks = FALSE
  /\ messageLoop = "waiting"
  /\ requested = FALSE
  /\ overlooked = 0
  /\ sent = 0
  /\ taken = 0
  /\ hostOpen = TRUE

-----------------------------------------------------------------------------
(* execute_with_timeout and execute_inner.                                 *)

\* execute_inner returns r.
InnerReturns(r) ==
  /\ result' = [result EXCEPT ![Current] = r]
  /\ pc' = "probe"

\* A variant with a bug: the handle is dropped as soon as it is returned.
RegisterOnly ==
  /\ used' = used \cup (IF limit = None THEN {} ELSE {executions})
  /\ UNCHANGED <<clock, due, expiring, fired, stopped>>

\* register, if there is a timeout: the deadline is computed and pushed in one
\* step here, TimeoutManager has what may happen in between.
Register ==
  IF limit = None
    THEN UNCHANGED timerVars
    ELSE /\ clock + limit <= MaxTime
         /\ due' = [e \in Timeouts!Armed \cup {executions} |->
                      IF e = executions THEN clock + limit ELSE due[e]]
         /\ Timeouts!Arm(executions)

\* If a request is pending the script is interrupted before it does anything.
Begin ==
  /\ pc = "idle"
  /\ executions < MaxExecutions
  /\ executions' = executions + 1
  /\ Register
  /\ IF requested
       THEN /\ result' = [result EXCEPT ![executions] = "terminated"]
            /\ pc' = "probe"
            /\ UNCHANGED js
       ELSE /\ pc' = "script"
            /\ js' = "script"
            /\ UNCHANGED result
  /\ UNCHANGED <<limit, cpu, tasks, messageLoop, requested, overlooked, hostVars>>

\* The script ends, maybe with something to wait for.  The probe that follows
\* may say that the isolate is terminating only if it is.
ScriptEnds ==
  /\ js = "script"
  /\ js' = "none"
  /\ tasks' \in BOOLEAN
  /\ \/ requested /\ InnerReturns("terminated")
     \/ pc' = "loop" /\ UNCHANGED result
  /\ UNCHANGED <<timerVars, limit, executions, cpu, messageLoop, requested,
                 overlooked, hostVars>>

\* A variant with a bug: the event loop is run after an exception.
ScriptThrowsIntoLoop ==
  /\ js = "script"
  /\ js' = "none"
  /\ result' = [result EXCEPT ![Current] = "error"]
  /\ pc' = "loop"
  /\ UNCHANGED <<timerVars, limit, executions, cpu, tasks, messageLoop, requested,
                 overlooked, hostVars>>

ScriptThrows ==
  /\ js = "script"
  /\ js' = "none"
  /\ tasks' \in BOOLEAN
  /\ InnerReturns("error")
  /\ UNCHANGED <<timerVars, limit, executions, cpu, messageLoop, requested,
                 overlooked, hostVars>>

\* A variant with a bug: the grace period looks for a termination again.
LoopReturnsToProbe(r) == InnerReturns(r)

\* run_event_loop returns r: to execute_inner, or to the grace period, which
\* ignores it.
LoopReturns(r) ==
  IF pc = "loop" THEN InnerReturns(r) ELSE pc' = "cancel" /\ UNCHANGED result

\* The hostMessageLoop an interruption leaves behind: its promise is never
\* settled if it was in the middle of a message.
Interrupted == IF messageLoop = "waiting" THEN "waiting" ELSE "over"

\* The request interrupts the JavaScript that is running.
Interrupt ==
  /\ js # "none"
  /\ requested
  /\ js' = "none"
  /\ messageLoop' = Interrupted
  /\ IF js = "script" THEN InnerReturns("terminated") ELSE LoopReturns("terminated")
  /\ UNCHANGED <<timerVars, limit, executions, cpu, tasks, requested, overlooked,
                 hostVars>>

\* The event loop has nothing left to wait for.
LoopEnds ==
  /\ pc \in {"loop", "grace"}
  /\ js = "none"
  /\ messageLoop = "over"
  /\ ~tasks
  /\ LoopReturns("ok")
  /\ UNCHANGED <<timerVars, limit, executions, cpu, isolateVars, hostVars>>

\* is_execution_terminating, after execute_inner.
Probe ==
  /\ pc = "probe"
  /\ \/ requested /\ pc' = "grace" /\ UNCHANGED overlooked
     \/ pc' = "exit" /\ overlooked' = overlooked + (IF requested THEN 1 ELSE 0)
  /\ UNCHANGED <<timerVars, limit, executions, result, cpu, js, tasks, messageLoop,
                 requested, hostVars>>

\* TERMINATION_GRACE_MS are over, and no JavaScript is running.
GraceEnds ==
  /\ pc = "grace"
  /\ js = "none"
  /\ pc' = "cancel"
  /\ UNCHANGED <<timerVars, limit, executions, result, cpu, isolateVars, hostVars>>

\* A variant with a bug: the termination is not cancelled.
CancelNothing ==
  /\ pc = "cancel"
  /\ pc' = "exit"
  /\ UNCHANGED <<timerVars, limit, executions, result, cpu, isolateVars, hostVars>>

CancelTermination ==
  /\ pc = "cancel"
  /\ pc' = "exit"
  /\ requested' = FALSE
  /\ UNCHANGED <<timerVars, limit, executions, result, cpu, js, tasks, messageLoop,
                 overlooked, hostVars>>

\* The end of execute_with_timeout drops the handle, if there is one and its
\* timer was not chosen.
Exit ==
  /\ pc = "exit"
  /\ pc' = "idle"
  /\ IF Current \in Timeouts!Armed THEN Timeouts!Disarm(Current) ELSE UNCHANGED timerVars
  /\ UNCHANGED <<limit, executions, result, cpu, isolateVars, hostVars>>

-----------------------------------------------------------------------------
(* The isolate's event loop, in execute_inner and in the grace period.     *)

\* op_worker_recv has a message for hostMessageLoop, or the end of the channel,
\* which takes it to this state or to that.
Receives(onMessage, onEnd) ==
  /\ messageLoop = "waiting"
  /\ \/ /\ taken < sent
        /\ taken' = taken + 1
        /\ messageLoop' = onMessage
     \/ /\ taken = sent
        /\ ~hostOpen
        /\ messageLoop' = onEnd
        /\ UNCHANGED taken

\* A tick has something to do: a message, a task of the script, or both.
TickStarts(onMessage, onEnd) ==
  /\ pc \in {"loop", "grace"}
  /\ js = "none"
  /\ Receives(onMessage, onEnd) \/ (tasks /\ UNCHANGED <<messageLoop, taken>>)
  /\ UNCHANGED <<timerVars, limit, executions, cpu, tasks, requested, overlooked, sent,
                 hostOpen>>

Tick ==
  /\ ~requested
  /\ TickStarts("handling", "closing")
  /\ js' = "tick"
  /\ UNCHANGED <<pc, result>>

\* A request is pending: the message, if there is one, is lost.
TickInterrupted ==
  /\ requested
  /\ TickStarts("over", "over")
  /\ LoopReturns("terminated")
  /\ UNCHANGED js

\* Variants with a bug: hostMessageLoop does not catch errors, or waits for what
\* the handlers promise.
AfterTickUncaught == IF messageLoop = "waiting" THEN "waiting" ELSE "over"
AfterTickAwaiting == IF messageLoop = "closing" THEN "over" ELSE messageLoop

\* __dispatchEvent has caught the handlers' errors: hostMessageLoop goes on.
AfterTick ==
  CASE messageLoop = "handling" -> "waiting"
    [] messageLoop = "closing" -> "over"
    [] OTHER -> messageLoop

\* Without an error, or with an exception or a rejected promise of the script's
\* that nobody handles: that ends the event loop.
TickEnds ==
  /\ js = "tick"
  /\ js' = "none"
  /\ messageLoop' = AfterTick
  /\ tasks' \in BOOLEAN
  /\ LoopReturns("error") \/ UNCHANGED <<pc, result>>
  /\ UNCHANGED <<timerVars, limit, executions, cpu, requested, overlooked, hostVars>>

-----------------------------------------------------------------------------
(* The timeout manager, the host and the time.                             *)

Expire ==
  /\ \E e \in ExecutionIds : Timeouts!Expire(e)
  /\ UNCHANGED <<threadVars, cpu, isolateVars, hostVars>>

\* terminate_execution, which any thread may call.
Fire ==
  /\ Timeouts!Fire
  /\ requested' = TRUE
  /\ UNCHANGED <<threadVars, cpu, js, tasks, messageLoop, overlooked, hostVars>>

\* send_to_isolate: the receiver lives as long as the isolate.
HostSends ==
  /\ hostOpen
  /\ sent < MaxMessages
  /\ sent' = sent + 1
  /\ UNCHANGED <<timerVars, threadVars, cpu, isolateVars, taken, hostOpen>>

\* destroy_isolate drops the sender.
HostCloses ==
  /\ hostOpen
  /\ hostOpen' = FALSE
  /\ UNCHANGED <<timerVars, threadVars, cpu, isolateVars, sent, taken>>

Pass ==
  /\ clock < MaxTime
  /\ Timeouts!Pass
  /\ cpu' = IF js = "none" THEN cpu ELSE [cpu EXCEPT ![Current] = @ + 1]
  /\ UNCHANGED <<threadVars, isolateVars, hostVars>>

-----------------------------------------------------------------------------
Script == ScriptEnds \/ ScriptThrows \/ TickEnds

Thread == Interrupt \/ LoopEnds \/ Probe \/ GraceEnds \/ CancelTermination \/ Exit

Next == \/ Begin \/ Script \/ Thread
        \/ Tick \/ TickInterrupted
        \/ Expire \/ Fire \/ Pass
        \/ HostSends \/ HostCloses

\* The thread and the manager go on, V8 obeys a request while JavaScript runs,
\* time passes, and the event loop delivers messages.  Nothing obliges scripts
\* and handlers to end, timers to come due or the host to act.
Fairness ==
  /\ WF_vars(Thread)
  /\ WF_vars(Expire)
  /\ WF_vars(Fire)
  /\ WF_vars(Pass)
  /\ WF_vars((Tick \/ TickInterrupted) /\ messageLoop' # messageLoop)

Spec == Init /\ [][Next]_vars /\ Fairness

-----------------------------------------------------------------------------
(* Properties.                                                             *)

\* Every variable has its type; JavaScript runs, and an execution is without a
\* result, only where execute_with_timeout says so.
TypeOK ==
  /\ clock \in 0 .. MaxTime
  /\ Timeouts!Armed \subseteq ExecutionIds /\ used \subseteq ExecutionIds
  /\ expiring \in ExecutionIds \cup {NoTimer} /\ fired \subseteq used
  /\ limit \in TimeoutsMs
  /\ pc \in Pcs
  /\ executions \in 0 .. MaxExecutions
  /\ result \in [ExecutionIds -> Results]
  /\ \A e \in ExecutionIds : (result[e] = "none") <=>
       (e > Current \/ (e = Current /\ pc \in {"script", "loop"}))
  /\ cpu \in [ExecutionIds -> 0 .. MaxTime]
  /\ js \in {"none", "script", "tick"}
  /\ (js = "script") <=> (pc = "script")
  /\ js = "tick" => pc \in {"loop", "grace"}
  /\ tasks \in BOOLEAN /\ requested \in BOOLEAN /\ hostOpen \in BOOLEAN
  /\ messageLoop \in MessageLoops
  /\ overlooked \in 0 .. MaxExecutions
  /\ sent \in 0 .. MaxMessages /\ taken \in 0 .. sent

\* While the host holds its end of the channel nothing but a deadline that has
\* passed ends hostMessageLoop: no error of a script or handler, and no
\* termination that was cancelled in time.
OnlyDeadlinesEndTheMessageLoop ==
  messageLoop = "over" /\ hostOpen => fired # {}

\* The executions that were terminated.
Terminated == {e \in ExecutionIds : result[e] = "terminated"}

\* A deadline that passes costs one execution: its own or, when the request comes
\* too late for that, the next.  Only a request that the probe overlooks costs
\* more, one for each time.  That is what the probe, cancel_terminate_execution
\* and the drop of the handle achieve together.
TerminationsAreAccountedFor ==
  Cardinality(Terminated) <= Cardinality(fired) + overlooked

\* A script or handler that never ends is interrupted if there is a limit, in
\* whatever execution it runs and however many terminations went before - as long as
\* the pool has not been shut down, which stops the timeout manager.
HungScriptIsInterrupted == limit # None /\ js # "none" ~> js = "none"

\* Once an execution has its result its thread goes on to the next message:
\* nothing in the grace period keeps it.
ResultIsFollowedByExit ==
  pc \in {"probe", "grace", "cancel", "exit"} ~> pc = "idle"

\* The messages that wait for an isolate reach it in its event loop, unless a
\* deadline ends its message loop first.
MessagesAreTaken ==
  limit # None /\ pc = "loop" /\ taken < sent
    ~> taken = sent \/ messageLoop = "over" \/ pc # "loop"

Life == INSTANCE IsolateLife
          WITH state <- IF pc = "idle" THEN "idle" ELSE "busy",
               outcome <- IF executions = 0 THEN "none"
                          ELSE IF pc = "idle" THEN result[Current] ELSE "running",
               listening <- (messageLoop # "over"),
               held <- hostOpen,
               limited <- (limit # None)

\* What the worker pool counts on: an execution without a limit ends only when the
\* host lets go of the isolate or with an error, one that is reported as complete
\* leaves nobody listening, and errors do not make the isolate deaf.
ImplementsIsolateLife == Life!Spec

\* DOCUMENTATION.md: "Worker isolates are automatically terminated if they exceed
\* the configured CPU time limit".  What is measured is the time since the
\* beginning of the execution, which its event loop spends waiting for messages,
\* and a request that is late counts for the next execution.
TerminatedOverCpuLimit ==
  \A e \in ExecutionIds : result[e] = "terminated" => cpu[e] >= limit

-----------------------------------------------------------------------------
(* What the safety properties rest on: an inductive invariant.             *)

\* A timer belongs to an execution that has begun, and there is none without a
\* limit.
TimersHaveExecutions ==
  /\ Timeouts!Armed \subseteq used
  /\ expiring \in used \cup {NoTimer}
  /\ used \subseteq 0 .. Current
  /\ used # {} => limit # None

\* Nothing counts faster than what it counts.
CountsAreBounded ==
  /\ \A e \in ExecutionIds : cpu[e] <= clock
  /\ overlooked <= IF pc \in {"script", "loop", "probe"} THEN Current ELSE executions
  /\ pc # "idle" => executions > 0

\* Only a deadline makes a request, and only a request a result of "terminated".
RequestsHaveDeadlines ==
  /\ requested => fired # {}
  /\ \A e \in ExecutionIds : result[e] = "terminated" => fired # {}

\* hostMessageLoop is at its end when it is told so, and an execution is complete
\* when it has ended.
CompleteLeavesNobody ==
  /\ messageLoop = "closing" => ~hostOpen
  /\ pc # "idle" /\ result[Current] = "ok" => messageLoop = "over"

IInv == /\ TypeOK
        /\ TimersHaveExecutions
        /\ CountsAreBounded
        /\ RequestsHaveDeadlines
        /\ CompleteLeavesNobody
        /\ OnlyDeadlinesEndTheMessageLoop

\* A timer fires once.
TimersFireOnce ==
  /\ Timeouts!Armed \cap fired = {}
  /\ expiring \notin Timeouts!Armed \cup fired

\* A request that is pending where it can cost an execution its result was not paid
\* for before: what is on record leaves room for one more.
RequestsAreCovered ==
  Cardinality(Terminated)
    + (IF requested /\ pc \in {"idle", "script", "loop", "exit"} THEN 1 ELSE 0)
      <= Cardinality(fired) + overlooked

\* With the parts of IInv these are inductive too.
Accounts == TimersFireOnce /\ RequestsAreCovered

=============================================================================
