------------------------------ MODULE WorkerPool ------------------------------
(***************************************************************************)
(* JsWorkerPool of src/src/pool.rs and its worker threads.  The main       *)
(* isolate's thread, the only caller of the pool, creates, feeds and       *)
(* destroys isolates by sending messages to worker threads; each thread    *)
(* owns the isolates placed on it and handles its messages one at a time,  *)
(* an Execute message for as long as the script and the isolate's event    *)
(* loop take.  Answers come back through oneshot channels.                 *)
(*                                                                         *)
(* V8 and the script it runs are external: a script ends, throws, hangs or *)
(* is terminated; its event loop ends when nothing is left to wait for,    *)
(* unless a callback hangs.  What the isolate itself waits for is its host *)
(* message loop, which holds a pending op_worker_recv until the host's end *)
(* of the channel is dropped.                                              *)
(***************************************************************************)
EXTENDS Integers, Sequences, FiniteSets, SequencesExt

CONSTANTS
  RequestedThreads,  \* the thread_count argument of JsWorkerPool::new
  Limited,           \* execution_timeout is Some: scripts can be terminated
  MaxIsolates,       \* bound on calls of create_isolate
  MaxScripts,        \* bound on calls of execute
  MaxShutdowns       \* bound on calls of shutdown

ASSUME ConstantsAssumption ==
  /\ RequestedThreads \in Nat
  /\ Limited \in BOOLEAN
  /\ MaxIsolates \in Nat
  /\ MaxScripts \in Nat
  /\ MaxShutdowns \in Nat

VARIABLES
  (* the pool, on the main isolate's thread *)
  nextIsolateId,  \* next_isolate_id
  nextThreadIdx,  \* next_thread_idx
  registry,       \* isolates: the thread of every isolate the pool knows
  assigned,       \* thread_idx of every call of create_isolate
  creation,       \* what has become of every call of create_isolate
  nextScript,     \* calls of execute so far
  target,         \* the isolate of every script
  outcome,        \* what has become of every script
  shutdowns,      \* calls of shutdown so far
  events,         \* system events sent, as <<event_type, isolate_id>>
  terminable,     \* isolates that terminate_execution may reach, now or later
  (* the worker threads *)
  queue,          \* the messages each thread has yet to receive
  pc,             \* where each thread is in its loop
  running,        \* the script each thread is executing, or NoScript
  live,           \* the isolates in each thread's map
  listening       \* isolates whose host message loop has not ended

poolVars == <<nextIsolateId, nextThreadIdx, assigned, registry, nextScript,
              target, shutdowns, events, terminable>>
threadVars == <<queue, pc, running, live, listening>>
vars == <<poolVars, creation, outcome, threadVars>>

IsolateIds == 0 .. MaxIsolates - 1
ScriptIds == 0 .. MaxScripts - 1
NoScript == -1
NoIsolate == -1

\* JsWorkerPool::new takes at least one thread.
ThreadCount == IF RequestedThreads > 1 THEN RequestedThreads ELSE 1
Threads == 0 .. ThreadCount - 1

\* none: not called.  pending: waiting for the thread's response.  answered: the
\* response is sent and create_isolate has yet to see it.  dropped: the response
\* channel is closed unanswered.  created, rejected: create_isolate returned.
Creations == {"none", "pending", "answered", "dropped", "created", "rejected"}

\* none: not called.  queued: sent to the thread.  running: being executed.
\* lost: dropped with the thread's queue.  The others are what execute reports.
Outcomes == {"none", "queued", "running", "lost", "ok", "error", "terminated",
             "notFound"}
Answers == {"ok", "error", "terminated", "notFound"}

\* recv: waiting for or about to take a message.  script: execute_script is
\* running.  loop: run_event_loop is.  hung: one of the two will not return by
\* itself.  exited: the loop is left and the receiving end of the queue is dropped.
ThreadPcs == {"recv", "script", "loop", "hung", "exited"}
BusyPcs == {"script", "loop", "hung"}

Create(i) == [kind |-> "create", isolate |-> i, script |-> NoScript]
Execute(i, x) == [kind |-> "execute", isolate |-> i, script |-> x]
Destroy(i) == [kind |-> "destroy", isolate |-> i, script |-> NoScript]
Shutdown == [kind |-> "shutdown", isolate |-> NoIsolate, script |-> NoScript]

Message == {Create(i) : i \in IsolateIds} \cup {Destroy(i) : i \in IsolateIds}
           \cup {Execute(i, x) : i \in IsolateIds, x \in ScriptIds}
           \cup {Shutdown}

Known == DOMAIN registry

\* The isolate whose script thread t executes.
Busy(t) == target[running[t]]

Init ==
  /\ nextIsolateId = 0
  /\ nextThreadIdx = 0
  /\ assigned = [i \in IsolateIds |-> 0]
  /\ registry = [i \in {} |-> 0]
  /\ creation = [i \in IsolateIds |-> "none"]
  /\ nextScript = 0
  /\ target = [x \in ScriptIds |-> NoIsolate]
  /\ outcome = [x \in ScriptIds |-> "none"]
  /\ shutdowns = 0
  /\ events = {}
  /\ terminable = IF Limited THEN IsolateIds ELSE {}
  /\ queue = [t \in Threads |-> <<>>]
  /\ pc = [t \in Threads |-> "recv"]
  /\ running = [t \in Threads |-> NoScript]
  /\ live = [t \in Threads |-> {}]
  /\ listening = {}

-----------------------------------------------------------------------------
(* The pool's operations, called from the main isolate.                    *)

\* A variant with a bug: the newest message first.
SendFirst(t, m) ==
  queue' = IF pc[t] = "exited" THEN queue ELSE [queue EXCEPT ![t] = <<m>> \o @]

\* ThreadWorker::send: a message to a thread that is gone is dropped.
Send(t, m) ==
  queue' = IF pc[t] = "exited" THEN queue ELSE [queue EXCEPT ![t] = Append(@, m)]

\* create_isolate up to its await: ids are never reused, threads take turns.
CreateIsolate ==
  LET i == nextIsolateId
      t == nextThreadIdx % ThreadCount
  IN  /\ nextIsolateId < MaxIsolates
      /\ nextIsolateId' = nextIsolateId + 1
      /\ nextThreadIdx' = nextThreadIdx + 1
      /\ assigned' = [assigned EXCEPT ![i] = t]
      /\ Send(t, Create(i))
      /\ creation' = [creation EXCEPT
                        ![i] = IF pc[t] = "exited" THEN "dropped" ELSE "pending"]
      /\ UNCHANGED <<registry, nextScript, target, outcome, shutdowns, events,
                     terminable, pc, running, live, listening>>

\* A variant with a bug: the thread index is taken anew after the await.
ThreadAfterAwait(i) == nextThreadIdx % ThreadCount

\* thread_idx, as create_isolate chose it before its await.
ThreadOf(i) == assigned[i]

\* create_isolate after its await: only now does the pool know the isolate.
CreateReturns(i) ==
  /\ \/ /\ creation[i] = "answered"
        /\ creation' = [creation EXCEPT ![i] = "created"]
        /\ registry' = [j \in Known \cup {i} |->
                          IF j = i THEN ThreadOf(i) ELSE registry[j]]
     \/ /\ creation[i] = "dropped"
        /\ creation' = [creation EXCEPT ![i] = "rejected"]
        /\ UNCHANGED registry
  /\ UNCHANGED <<nextIsolateId, nextThreadIdx, assigned, nextScript, target, outcome,
                 shutdowns, events, terminable, threadVars>>

\* execute, for an isolate the pool knows; the caller drops the receiver of the
\* outcome.
ExecuteScript(i) ==
  LET x == nextScript
  IN  /\ nextScript < MaxScripts
      /\ i \in Known
      /\ nextScript' = nextScript + 1
      /\ target' = [target EXCEPT ![x] = i]
      /\ Send(registry[i], Execute(i, x))
      /\ outcome' = [outcome EXCEPT
                       ![x] = IF pc[registry[i]] = "exited" THEN "lost" ELSE "queued"]
      /\ UNCHANGED <<nextIsolateId, nextThreadIdx, assigned, registry, creation,
                     shutdowns, events, terminable, pc, running, live, listening>>

\* Variants with a bug: the isolate stays in the registry, or its thread is not
\* told.
ForgetNothing(i) == UNCHANGED registry
TellNobody(t, i) == UNCHANGED queue

Forget(i) == registry' = [j \in Known \ {i} |-> registry[j]]
TellToDestroy(t, i) == Send(t, Destroy(i))

\* destroy_isolate: forgetting the isolate drops the host's end of its message
\* channel; the thread hears of it later.
DestroyIsolate(i) ==
  /\ i \in Known
  /\ Forget(i)
  /\ TellToDestroy(registry[i], i)
  /\ events' = events \cup {<<"destroyed", i>>}
  /\ UNCHANGED <<nextIsolateId, nextThreadIdx, assigned, creation, nextScript, target,
                 outcome, shutdowns, terminable, pc, running, live, listening>>

\* A variant with a bug: one thread short.
ToldButLast == Threads \ {ThreadCount - 1}

\* The threads shutdown sends its message to.
ToldToShutDown == Threads

\* The scripts of isolate i that were begun.
Begun(i) == {x \in ScriptIds : target[x] = i /\ outcome[x] \in {"running"} \cup Answers}

\* shutdown: the timeout manager is stopped, and every thread is sent a message; the
\* pool keeps its registry.  What the manager has requested, or is about to in the
\* scan it is in, may still terminate an isolate that has executed something.
ShutdownPool ==
  /\ shutdowns < MaxShutdowns
  /\ shutdowns' = shutdowns + 1
  /\ terminable' = {i \in terminable : Begun(i) # {}}
  /\ queue' = [t \in Threads |-> IF pc[t] = "exited" \/ t \notin ToldToShutDown
                                   THEN queue[t]
                                   ELSE Append(queue[t], Shutdown)]
  /\ UNCHANGED <<nextIsolateId, nextThreadIdx, assigned, registry, creation,
                 nextScript, target, outcome, events, pc, running, live, listening>>

-----------------------------------------------------------------------------
(* A worker thread takes the next message.                                 *)

\* Thread t is at rx.recv() and the next message is of kind k.
Receives(t, k) ==
  /\ pc[t] = "recv"
  /\ queue[t] # <<>>
  /\ Head(queue[t]).kind = k

\* CreateIsolate: build the runtime, start its message loop, then respond.
ReceiveCreate(t) ==
  LET i == Head(queue[t]).isolate
  IN  /\ Receives(t, "create")
      /\ queue' = [queue EXCEPT ![t] = Tail(@)]
      /\ live' = [live EXCEPT ![t] = @ \cup {i}]
      /\ listening' = listening \cup {i}
      /\ creation' = [creation EXCEPT ![i] = "answered"]
      /\ UNCHANGED <<poolVars, outcome, pc, running>>

\* Execute: start the script, or report that the isolate is not here.
ReceiveExecute(t) ==
  LET m == Head(queue[t])
  IN  /\ Receives(t, "execute")
      /\ queue' = [queue EXCEPT ![t] = Tail(@)]
      /\ IF m.isolate \in live[t]
           THEN /\ pc' = [pc EXCEPT ![t] = "script"]
                /\ running' = [running EXCEPT ![t] = m.script]
                /\ outcome' = [outcome EXCEPT ![m.script] = "running"]
           ELSE /\ outcome' = [outcome EXCEPT ![m.script] = "notFound"]
                /\ UNCHANGED <<pc, running>>
      /\ UNCHANGED <<poolVars, creation, live, listening>>

\* DestroyIsolate: drop the runtime if it is here.
ReceiveDestroy(t) ==
  LET i == Head(queue[t]).isolate
  IN  /\ Receives(t, "destroy")
      /\ queue' = [queue EXCEPT ![t] = Tail(@)]
      /\ live' = [live EXCEPT ![t] = @ \ {i}]
      /\ listening' = listening \ (live[t] \cap {i})
      /\ UNCHANGED <<poolVars, creation, outcome, pc, running>>

\* A variant with a bug: what is left in the queue is neither done nor dropped.
DropNothing(rest) == UNCHANGED <<creation, outcome>>

\* Messages dropped with their queue close the response channels they carry.
DropMessages(rest) ==
  /\ creation' = [i \in IsolateIds |->
                    IF Create(i) \in rest THEN "dropped" ELSE creation[i]]
  /\ outcome' = [x \in ScriptIds |->
                   IF Execute(target[x], x) \in rest THEN "lost" ELSE outcome[x]]

\* Shutdown: drop every runtime and leave the loop, and the rest of the queue with
\* its receiver.
ReceiveShutdown(t) ==
  /\ Receives(t, "shutdown")
  /\ pc' = [pc EXCEPT ![t] = "exited"]
  /\ live' = [live EXCEPT ![t] = {}]
  /\ listening' = listening \ live[t]
  /\ queue' = [queue EXCEPT ![t] = <<>>]
  /\ DropMessages(ToSet(Tail(queue[t])))
  /\ UNCHANGED <<poolVars, running>>

-----------------------------------------------------------------------------
(* A worker thread executes a script: execute_inner.                       *)

\* A variant with a bug: the thread keeps the script it has finished.
KeepScript(t) == UNCHANGED running

ForgetScript(t) == running' = [running EXCEPT ![t] = NoScript]

\* execute_with_timeout returns r and the thread goes back to its queue.
Returns(t, r) ==
  /\ outcome' = [outcome EXCEPT ![running[t]] = r]
  /\ pc' = [pc EXCEPT ![t] = "recv"]
  /\ ForgetScript(t)
  /\ UNCHANGED <<poolVars, creation, queue, live>>

\* A termination ends the message loop if that is what it interrupts, be it in the
\* grace period or after the result is known.
MayInterruptLoop(t) ==
  listening' \in {listening} \cup
                   (IF Busy(t) \in terminable THEN {listening \ {Busy(t)}} ELSE {})

ScriptEnds(t) ==
  /\ pc[t] = "script"
  /\ pc' = [pc EXCEPT ![t] = "loop"]
  /\ UNCHANGED <<poolVars, creation, outcome, queue, running, live, listening>>

\* An uncaught exception: the event loop is not run.
ScriptThrows(t) ==
  /\ pc[t] = "script"
  /\ Returns(t, "error")
  /\ MayInterruptLoop(t)

\* Variants with a bug: the host's end of the channel outlives destroy_isolate, or
\* a pending op_worker_recv does not keep the event loop alive.
WaitsAfterDestroy(i) == i \in listening
WaitsForNothing(i) == FALSE

\* The message loop of i has not ended, and will not because the host holds its
\* end of the channel.
WaitsForMessages(i) == i \in listening \cap Known

\* Nothing is left to wait for, the script's own timers and ops included.
LoopEnds(t) ==
  /\ pc[t] = "loop"
  /\ ~WaitsForMessages(Busy(t))
  /\ Returns(t, "ok")
  /\ listening' = IF Busy(t) \in Known THEN listening ELSE listening \ {Busy(t)}

\* A promise's uncaught error ends the event loop; the message loop stays, with its
\* pending receive.
LoopFails(t) ==
  /\ pc[t] = "loop"
  /\ Returns(t, "error")
  /\ MayInterruptLoop(t)

\* The script never ends, or its event loop does not: a callback that never returns,
\* or always another one that is due.
Hangs(t) ==
  /\ pc[t] \in {"script", "loop"}
  /\ pc' = [pc EXCEPT ![t] = "hung"]
  /\ UNCHANGED <<poolVars, creation, outcome, queue, running, live, listening>>

\* The timeout manager terminated the execution.  It takes effect only in
\* JavaScript: in the script, or when something wakes the event loop.
Terminated(t) ==
  /\ pc[t] \in BusyPcs
  /\ Busy(t) \in terminable
  /\ Returns(t, "terminated")
  /\ MayInterruptLoop(t)

-----------------------------------------------------------------------------
Pool == \/ CreateIsolate
        \/ ShutdownPool
        \/ \E i \in IsolateIds :
             CreateReturns(i) \/ ExecuteScript(i) \/ DestroyIsolate(i)

Receive(t) == \/ ReceiveCreate(t) \/ ReceiveExecute(t)
              \/ ReceiveDestroy(t) \/ ReceiveShutdown(t)

ScriptOver(t) == ScriptEnds(t) \/ ScriptThrows(t)

Thread(t) == \/ Receive(t) \/ ScriptOver(t) \/ Hangs(t)
             \/ LoopEnds(t) \/ LoopFails(t) \/ Terminated(t)

Next == Pool \/ \E t \in Threads : Thread(t)

\* shutdown has called timeout_manager.stop().
Stopped == shutdowns > 0

\* Threads take their messages, create_isolate's future is polled, a script comes to
\* an end and so does an event loop with nothing left to wait for - or they hang, and
\* then the timeout manager terminates them until it is stopped.  Nothing obliges a
\* script to fail, something to wake an idle event loop, or the main isolate to call
\* the pool.
Fairness ==
  /\ \A i \in IsolateIds : WF_vars(CreateReturns(i))
  /\ \A t \in Threads :
       /\ WF_vars(Receive(t)) /\ WF_vars(ScriptOver(t)) /\ WF_vars(LoopEnds(t))
       /\ WF_vars(~Stopped /\ pc[t] = "hung" /\ Terminated(t))

Spec == Init /\ [][Next]_vars /\ Fairness

\* A main isolate that keeps no isolate for good.
SpecReleasing == Spec /\ \A i \in IsolateIds : WF_vars(DestroyIsolate(i))

-----------------------------------------------------------------------------
(* Properties *)

\* Every variable holds a value of its kind, and a thread has a script exactly
\* while it executes one.
TypeOK ==
  /\ nextIsolateId \in 0 .. MaxIsolates
  /\ nextThreadIdx \in 0 .. MaxIsolates
  /\ assigned \in [IsolateIds -> Threads]
  /\ Known \subseteq IsolateIds
  /\ registry \in [Known -> Threads]
  /\ creation \in [IsolateIds -> Creations]
  /\ nextScript \in 0 .. MaxScripts
  /\ target \in [ScriptIds -> IsolateIds \cup {NoIsolate}]
  /\ outcome \in [ScriptIds -> Outcomes]
  /\ shutdowns \in 0 .. MaxShutdowns
  /\ events \subseteq {"destroyed", "terminated"} \X IsolateIds
  /\ terminable \subseteq IF Limited THEN IsolateIds ELSE {}
  /\ queue \in [Threads -> Seq(Message)]
  /\ pc \in [Threads -> ThreadPcs]
  /\ running \in [Threads -> ScriptIds \cup {NoScript}]
  /\ \A t \in Threads : pc[t] \in BusyPcs <=> running[t] # NoScript
  /\ live \in [Threads -> SUBSET IsolateIds]
  /\ listening \subseteq IsolateIds

\* Message m is waiting in the queue of a thread that has not exited.
Waiting(t, m) == pc[t] # "exited" /\ m \in ToSet(queue[t])

\* The pool and the thread see creation and destruction at different times and
\* without a common lock, and yet: an isolate the pool knows is in the map of
\* the thread it names and is not about to be dropped, unless shutdown made the
\* thread exit.
KnownIsolatesAreLive ==
  \A i \in Known :
    \/ pc[registry[i]] = "exited"
    \/ i \in live[registry[i]] /\ ~Waiting(registry[i], Destroy(i))

\* And no thread keeps an isolate that nobody can destroy any more: the pool
\* knows it, is about to, or has already told the thread to drop it.
NoIsolateLeaks ==
  \A t \in Threads : \A i \in live[t] :
    \/ creation[i] = "answered"
    \/ i \in Known /\ registry[i] = t
    \/ Waiting(t, Destroy(i))

\* execute's IsolateNotFound cannot happen: the pool checks its registry, the
\* thread its own map much later, and destroy_isolate may come in between, but
\* the thread's queue keeps an earlier script ahead of it.
NeverNotFound == \A x \in ScriptIds : outcome[x] # "notFound"

\* No oneshot channel is forgotten: what is unanswered waits in the queue of a
\* thread that will take it or drop it, or is being executed.
PendingCallsAreHeld ==
  /\ \A i \in IsolateIds : creation[i] = "pending" =>
       \E t \in Threads : Waiting(t, Create(i))
  /\ \A x \in ScriptIds : outcome[x] = "queued" =>
       \E t \in Threads : Waiting(t, Execute(target[x], x))
  /\ \A x \in ScriptIds : outcome[x] = "running" =>
       \E t \in Threads : running[t] = x

\* One isolate's scripts run one after another in the order of the calls of
\* execute, and once one is lost so are all that follow.
ScriptsInOrder ==
  \A x, y \in ScriptIds :
    (x < y /\ y < nextScript /\ target[x] = target[y]) =>
      /\ outcome[y] \in {"running"} \cup Answers =>
           outcome[x] \in Answers
      /\ outcome[x] = "lost" => outcome[y] = "lost"

\* Thread t executes what does not end by itself, and the timeout manager will not end
\* it either: it has been stopped, or there is no limit.
Stuck(t) == pc[t] = "hung" /\ (Stopped \/ ~Limited)

\* Isolate i is on a thread that is stuck.
StuckWith(i) == i \in IsolateIds /\ Stuck(assigned[i])

\* If the main isolate destroys what it creates, nothing waits for good: create_isolate
\* returns, a script gets its outcome and a destroyed isolate leaves its thread, with a
\* shutdown in between or without.  What hangs is terminated first; only when that
\* comes after a shutdown, or without a limit, it may keep what shares its thread
\* waiting.
CallsComplete ==
  /\ \A i \in IsolateIds :
       /\ []<>(creation[i] \in {"none", "created", "rejected"} \/ StuckWith(i))
       /\ []<>(\/ <<"destroyed", i>> \notin events
              \/ \A t \in Threads : i \notin live[t]
              \/ StuckWith(i))
  /\ \A x \in ScriptIds :
       []<>(outcome[x] \in {"none", "lost"} \cup Answers \/ StuckWith(target[x]))

\* "Promise that resolves to the created Isolate instance" (types/host.d.ts):
\* create_isolate returns, whatever becomes of the other isolates, if no script hangs.
CreateResolves ==
  \A i \in IsolateIds :
    (creation[i] = "pending") ~> (creation[i] \in {"created", "rejected"} \/ StuckWith(i))

\* After shutdown every thread leaves its loop and drops its isolates, if the main
\* isolate destroys what it creates - shutdown alone does not end the event loop a
\* thread is in - and nothing hangs: shutdown stops the timeout manager first, and a
\* thread with a script that hangs from then on is not stopped by anything.
ShutdownStopsThreads ==
  \A t \in Threads : []<>(~Stopped \/ (pc[t] = "exited" /\ live[t] = {}) \/ Stuck(t))

\* The last of isolate i's scripts that were begun.
LastBegun(i) == CHOOSE x \in Begun(i) : \A y \in Begun(i) : y <= x

\* The isolate is in no thread's map any more, or not yet.
Stage(i) ==
  IF \E t \in Threads : i \in live[t]
    THEN IF \E t \in Threads : running[t] # NoScript /\ Busy(t) = i THEN "busy" ELSE "idle"
    ELSE IF creation[i] \in {"answered", "created"} THEN "gone" ELSE "none"

Life(i) == INSTANCE IsolateLife
             WITH state <- Stage(i),
                  outcome <- IF Begun(i) = {} THEN "none" ELSE outcome[LastBegun(i)],
                  listening <- (i \in listening),
                  held <- (<<"destroyed", i>> \notin events),
                  limited <- Limited

\* Every isolate on every thread lives the same life: one script at a time, between
\* its creation and its end, none reported as complete while the host can reach it.
ImplementsIsolateLife ==
  /\ \A i \in IsolateIds : Life(i)!Init
  /\ [][\A i \in IsolateIds : Life(i)!Next \/ UNCHANGED Life(i)!vars]_vars

-----------------------------------------------------------------------------
(* The inductive invariant: what a message waits for does not change before *)
(* the thread receives it.                                                  *)

\* Calls are numbered in order, and only isolates the pool knew are given scripts.
CallsAreCounted ==
  /\ nextThreadIdx = nextIsolateId
  /\ \A i \in IsolateIds : creation[i] = "none" <=> i >= nextIsolateId
  /\ \A x \in ScriptIds :
       /\ outcome[x] = "none" <=> x >= nextScript
       /\ x < nextScript => target[x] \in IsolateIds /\ creation[target[x]] = "created"

\* A message is in the queue of the thread its isolate was assigned to, and that is
\* what the call that sent it waits for.
Belongs(t, m) ==
  /\ pc[t] # "exited"
  /\ m.kind # "shutdown" => assigned[m.isolate] = t
  /\ m.kind = "create" => creation[m.isolate] = "pending"
  /\ m.kind = "execute" => /\ outcome[m.script] = "queued"
                           /\ target[m.script] = m.isolate
                           /\ m.isolate \in live[t]
  /\ m.kind = "destroy" => creation[m.isolate] = "created" /\ m.isolate \notin Known

MessagesBelong ==
  \A t \in Threads : \A k \in DOMAIN queue[t] : Belongs(t, queue[t][k])

\* Of two messages about one isolate the first is a script's, and the second is its
\* destruction or a later script's.
InOrder(first, second) ==
  second.kind # "shutdown" /\ first.isolate = second.isolate =>
    /\ first.kind = "execute"
    /\ second.kind = "execute" => first.script < second.script

QueuesKeepOrder ==
  \A t \in Threads : \A j, k \in DOMAIN queue[t] :
    j < k => InOrder(queue[t][j], queue[t][k])

\* An isolate is on the thread it was assigned to, from its creation until the
\* thread hears of its destruction or exits, and only there its message loop runs.
IsolatesBelong ==
  /\ \A t \in Threads : \A i \in live[t] :
       assigned[i] = t /\ pc[t] # "exited" /\ creation[i] \in {"answered", "created"}
  /\ \A i \in Known : registry[i] = assigned[i] /\ creation[i] = "created"
  /\ \A i \in IsolateIds : creation[i] = "answered" \/ i \in Known =>
       pc[assigned[i]] = "exited" \/ i \in live[assigned[i]]
  /\ \A i \in listening : i \in live[assigned[i]]
  /\ \A i \in IsolateIds :
       <<"destroyed", i>> \in events <=> creation[i] = "created" /\ i \notin Known

\* A script is executed by the thread of its isolate, and lost only with that thread.
ScriptsBelong ==
  /\ \A t \in Threads : running[t] # NoScript =>
       outcome[running[t]] = "running" /\ Busy(t) \in live[t]
  /\ \A x \in ScriptIds :
       /\ outcome[x] = "running" => running[assigned[target[x]]] = x
       /\ outcome[x] = "lost" => pc[assigned[target[x]]] = "exited"

IInv == /\ TypeOK
        /\ CallsAreCounted
        /\ MessagesBelong
        /\ QueuesKeepOrder
        /\ IsolatesBelong
        /\ ScriptsBelong
        /\ NoIsolateLeaks
        /\ NeverNotFound
        /\ PendingCallsAreHeld
        /\ ScriptsInOrder

=============================================================================
