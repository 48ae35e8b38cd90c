# Verification of network-runtime

network-runtime runs untrusted JavaScript in isolates of its own: one
privileged *main isolate* (Deno's web APIs, the `V8Sandbox` API) and any number
of *worker isolates* on a pool of threads, which reach the world only by
messages to the main isolate. This directory holds TLA+ models of the parts
where threads, channels and callbacks meet, the TLC runs that check them and
the TLAPS proofs about them. Paths are relative to the repository, which is
`src/` here (`src/src/pool.rs` is the repository's `src/pool.rs`).

## 1. Inventory

| component | code | state | operations | talks to |
|---|---|---|---|---|
| timeout manager | `pool.rs` 89-240 | heap of entries behind a mutex, a condition variable, `stop_flag`, a `cancelled` flag per entry | `register`, drop of the handle, `stop`, the manager thread's `run` | worker threads (register, drop), V8 (`terminate_execution`), the pool (stop) |
| worker pool | `pool.rs` 500-710 | registry `isolates`, `next_isolate_id`, `next_thread_idx` | `create_isolate`, `execute`, `destroy_isolate`, `send_to_isolate`, `shutdown` | worker threads by queues, answers by oneshot channels, system events |
| worker threads | `pool.rs` 286-390 | message queue, map of isolates | `CreateIsolate`, `Execute`, `DestroyIsolate`, `Shutdown` | the pool, the isolates they own |
| script execution | `pool.rs` 391-478, `bootstrap_worker.js` 154-187 | V8's termination request, the timeout handle, the host message loop | `execute_with_timeout`, `execute_inner`, the isolate's event loop | timeout manager, pool, V8 |
| message dispatch, main | `bootstrap.js`, `ops/sandbox.rs` | isolates by id, handlers, `#destroyed` | message loop, system event loop, `on`, `onRequest`, `send`, `destroy` | all workers by one channel, each worker by its own |
| lists of handlers | `bootstrap.js` 147-240, `bootstrap_worker.js` 51-71, 127-142 | an array of handlers per event | `on`, `off`, `destroy`, the dispatch of an event | user handlers, which call all of these |
| messaging, worker | `bootstrap_worker.js` 39-187, `ops/worker.rs` | `pendingRequests`, `nextRequestId`, handlers | `send`, `request`, host message loop | main isolate |
| worker WebSocket | `bootstrap_worker.js` 311-455 | `readyState`, registry by connection | `send`, `close`, `__dispatchWebSocketEvent` | messaging |
| worker fetch, Headers | `bootstrap_worker.js` 456-700 | header map | pure, but for the request | messaging |
| runtime limits | `pool.rs` 20-57, `main.rs` 37-48 | none | conversions | timeout manager |
| wiring | `main.rs`, `runtime/mod.rs` | none | start, exit | everything |
| transpilation, logging, globals, stubs | `runtime/transpile.rs`, `log.rs`, `runtime/bootstrap_main.js`, `ops/util.rs` | none the program reads | | |

The hard behaviours, and what makes each component correct:

* **Timeout manager.** Cancelling and stopping bypass the mutex that guards the
  heap and the condition variable. Correct: no deadline is slept through;
  `terminate_execution` is never called into the running script of another execution
  than the one it is meant for; entries expire in order; a hung script is terminated;
  stop stops.
* **Pool and threads.** The registry (main thread) and the map of each worker
  thread change at different times with only a queue in between, a creation is
  registered after an await, a shutdown may come at any moment and stops the timeout
  manager before it tells the threads, and a thread is busy for as long as one script's
  event loop lasts. Correct: registry and maps
  agree, no isolate leaks, no caller is left without an answer, scripts keep
  their order.
* **Messaging.** All workers share one channel, batches end anywhere, handlers
  run user code that may throw or destroy isolates in the middle of a batch,
  answers come later, in any order, and a send fails when the worker has gone. Correct:
  nothing is lost, reordered, answered twice or with another request's answer; no further
  message of a destroyed isolate is dispatched, but its destruction is reported.
* **Execution.** A termination is a request to V8 that takes effect late, in the
  wrong place, or after the script has ended, and the deadline runs on while the
  isolate's event loop waits for messages. Correct: hung code is interrupted; a
  deadline costs one execution and not more; nothing but a deadline makes an
  isolate deaf to messages while the host can reach it; an execution that is
  over lets its thread go.
* **Lists of handlers.** Handlers add to and remove from the array the dispatch
  iterates over. Correct: called in order, none twice, none that was removed,
  none left out that nothing was removed before.
* **WebSocket.** A state at the worker and a connection at the host, with a
  channel each way between them, closed by either end. Correct: the ends agree
  but for what is on its way; messages keep their order and belong to their
  socket; what is accepted before the socket is closed arrives, but for a Blob that is
  still being read; closing comes to its end.

Every hazard is listed with its line and the properties that cover it under
`hazards` in PROJECT.json.

## 2. Plan

Modelled, in this order: `TimeoutManager` with `TimeoutContract` and
`TimeoutManager_proofs`; `WorkerPool`; `Messaging`; `IsolateExecution`, on top of
`TimeoutContract`, with `IsolateExecution_proofs`; `IsolateLife`, which `IsolateExecution` and `WorkerPool`
implement; `RequestLife`, which `Messaging` implements; `WorkerWebSocket`; `Listeners`; then the
proofs about the rest, `WorkerPool_proofs`, `WorkerPoolLife_proofs`, `Listeners_proofs`, `Messaging_proofs` and
`WorkerWebSocket_proofs`.

Every safety property and every refinement a passing run checks is also a theorem.
What is left are theorems about the contracts by themselves, so that a reader of a client
need not look at the implementations: that `TimeoutContract` never fires a timer twice, early
or after it was disarmed (`IsolateExecution` proves the first of its instance,
`TimersFireOnce`); that `IsolateLife` reports "ok" only for an isolate nobody listens in;
and that a promise of `RequestLife`, once settled, stays as it is.

## 3. Modules

**`TimeoutManager`** has one action per atomic step of the code. `register` is
`Prepare` (id and deadline, before the mutex), `Push` (under it), `Notify`
(after it); the end of `execute_with_timeout` is `Drop`, an atomic store that
leaves the entry in the heap; `stop` is `StopStore` and `StopNotify`. `run` is
`Acquire`, `PeekEmpty`/`PeekEntry`, `WaitExpires`/`SpuriousWake`, `Recheck`,
`ScanPop`, `Terminate`, `ScanEnd`: the loads of `stop_flag` and of `cancelled`
are steps apart from what is done with them. `pc` is the manager's place and
`QueueLocked` says in which places it holds the mutex. The heap is the set of
entries in it; `Earliest` is what `peek` and `pop` may see. Time advances by
`Tick`. Locking and the load right after it are one step: nothing a client does
tells them apart. V8 is external; `fired` records the calls of
`terminate_execution`.

**`TimeoutContract`** says what the manager is for: one-shot timers, armed,
disarmed, chosen in the order of their deadlines and never early, and fired
once. Between choice and firing nothing can be armed, so the call of
`terminate_execution` does not fall into the next execution's script: that has to
register first. It may come while the next execution waits for just that, and V8 then
keeps the request for it, which `IsolateExecution` and its
`TerminationsAreAccountedFor` follow up. `ImplementsContract` is the
refinement: a cancelled entry still in the heap is a disarmed timer, one whose
deadline is computed but which is not pushed is not armed yet.

**`WorkerPool`** is the pool's operations on the main thread (`CreateIsolate` up
to its await, `CreateReturns` after it, `ExecuteScript`, `DestroyIsolate`,
`ShutdownPool`) and each thread's loop (`Receive...`, then the script: `ScriptEnds`,
`ScriptThrows`, `LoopEnds`, `LoopFails`, `Terminated`). A queue per thread holds the
`WorkerMessage`s; a oneshot channel is the `creation` of an isolate or the `outcome`
of a script. `listening` are the isolates whose host message loop is alive: while
the registry holds the other end of its channel (`Known`), its pending
`op_worker_recv` keeps `run_event_loop` from returning, so `LoopEnds` needs one of
the two to be gone. A termination may take the message loop with it, also in the
grace period of a script that failed (`MayInterruptLoop`). A script, or a callback in its
event loop, may hang instead of ending (`Hangs`, the place "hung"); what ends it then is a
termination, and `ShutdownPool` stops the timeout manager with the first thing it does
(pool.rs:691): after that a thread that hangs may stay where it is for good (`Stuck`).

**`IsolateExecution`** is one isolate and the thread while it executes on it.
`Begin` is `execute_with_timeout` up to `execute_script`; `ScriptEnds` and
`ScriptThrows` are the ways a script comes back, `Interrupt` is V8 obeying a
request; in `run_event_loop` a `Tick` delivers a message to the host message loop
or runs a timer of the script's, and `TickEnds` is its end, with or without an
error that ends the event loop. `Probe`, `GraceEnds`, `CancelTermination` and
`Exit` are the rest of `execute_with_timeout`. The timers are `TimeoutContract`,
through `INSTANCE`: `Register` arms one, `Exit` disarms it, `Expire` and `Fire` are
the manager. So what is proved of `TimeoutManager` carries over, and the module
adds only what V8 does with the request that `Fire` leaves in `requested`.
`messageLoop` is the state of `hostMessageLoop`, which the isolate keeps from one
execution to the next. `cpu` and `overlooked` are history: how long JavaScript ran,
and how often the probe said no while a request was pending.

**`IsolateLife`** is the contract between the two: an isolate executes one script
at a time, its message loop goes on until the host lets go of it - or, where there
is a limit, a termination ends it - and an execution that is reported complete
leaves nobody listening. `IsolateExecution` implements it with the code of the
thread, `WorkerPool` for every one of its isolates at once, so the coarse script
steps of `WorkerPool` are not an assumption of their own.

**`Messaging`** is both sides of the message channels. A worker sends events and
requests (`SendEvent`, `SendRequest`) and takes responses (`ReceiveResponse`). The
main isolate takes a batch (`Poll`), dispatches it message by message with
nothing else in between (every other action of it needs `batch = <<>>`), and
sends the response to a request when the handler's promise settles (`Reply`).
What a handler does is user code and chosen when it is called (`Deed`); those of one
message, an event or a request, may destroy any isolates (`HandlersDestroy`), and so may
the user's code at other times (`DestroyIsolate`). That sets the flag and sends the
system event that `DispatchSystemEvent` delivers. The thread of a worker may drop its
runtime at any time (`DropWorker`), after a destruction or a shutdown, and from then on
`send` throws as it does for a destroyed isolate (`SendFails`): in `Reply` that ends the
process, as a rejection with null does, and in the refusal of a request nobody handles it
leaves the loop over the batch (`DispatchUnanswerable`).
What has been sent and not yet dispatched is read from the batch and the channel as one
sequence, `Way`; `Places` are the places of it, and of the other two, where a request is.

**`RequestLife`** is what the caller of `NETWORK.request` may count on, one request by
itself: it is handled at most once, after it was made and not once its isolate is
destroyed, and its promise is settled at most once, by what the handler did (`SettledBy`) -
possibly after the destruction, and never if the handler threw. How an error without a
message arrives is left open there: that it arrives as a result is a finding, not a promise. `Messaging` implements it for every
request of every worker: `Handlings` are the places in `handled` where the request is.

**`Listeners`** is the array of handlers of one event. `StartDispatch`, `CallNext`,
`HandlerReturns` and `EndDispatch` are the `for ... of` over it; `On`, `Off` and
`Destroy` change it, in a handler or between dispatches. A registration has a
number, so that the same function registered twice is two of them; `off` removes
the first. `removed` and `called` are about the current dispatch.

**`WorkerWebSocket`** has the sockets of one worker: `Construct`, `Send`, `SendBlob`
with `BlobRead`, `Close`, and the dispatcher `HandleOpen`, `HandleMessage`,
`HandleClose`, `HandleNothing` (an `error`, or an unregistered socket). The channels
are sequences. The gateway is user code and external; it is the example that
DOCUMENTATION.md 577-628 gives for these events, `GatewayOpen`, `GatewaySend` and
`GatewayClose` being its handlers, the `Remote...` actions what happens to the real
connection. `lost` are the sends the gateway drops. A send remembers whether `send` accepted
it after `close()` had been called (`late`) or before, with the call in between
(`overtaken`); and whether it carries the string it was given or what the op, whose `data`
is a `String` (worker.rs:75), made of a buffer (`Data`).

Definitions called a variant with a bug are not part of any specification.
Each is what a plausible mistake in the code would make of the definition next
to it, and PROJECT.json (`mutants`) says which property it breaks.

## 4. Runs

| run | instance | shows |
|---|---|---|
| `timeouts` | 2 isolates, 3 executions, duration 1, clock to 3, 1 stop | type, `NoMissedWakeup`, `NoCallDuringAnotherScript`, `ServesEarliestFirst`, `HungExecutionTerminated`, `ImplementsContract` |
| `pool` | 2 threads, 3 isolates, 2 scripts, 1 shutdown, every isolate destroyed eventually | type, `KnownIsolatesAreLive`, `NoIsolateLeaks`, `NeverNotFound`, `PendingCallsAreHeld`, `ScriptsInOrder`, `CallsComplete`, `ShutdownStopsThreads`, `ImplementsIsolateLife` |
| `execution` | 1 isolate, 3 executions, no limit or one of 1, 2 messages, clock to 3 | type, `OnlyDeadlinesEndTheMessageLoop`, `TerminationsAreAccountedFor`, `ImplementsIsolateLife`, `HungScriptIsInterrupted`, `ResultIsFollowedByExit`, `MessagesAreTaken` |
| `messaging` | 2 workers, 3 messages, every kind of handler but `rejectsBlank` | type, `InOrderWithoutLoss`, `AnswersMatch`, `RequestsAreConserved`, `RequestsAnswered`, `DestroyedIsReported`, `ImplementsRequestLife` |
| `listeners` | 2 functions, 5 registrations, destroyed at any moment | type, `CalledInOrder`, `SkipsOnlyForRemovals`, `RemovedIsNotCalled` |
| `websocket` | 2 sockets, 1 send, 2 messages of the remote ends | type, `OpenIsConnected`, `ClosedLeavesNoConnection`, `MessagesHeardInOrder`, `SendsArrive`, `CloseCompletes` |

Why the bounds are enough. `timeouts`: three executions on two isolates give one
isolate a second execution after a cancelled one while the other isolate's entry
is above or below it in the heap, which every race of the module needs; with one
duration, deadlines differ because they are computed at different times, and
entries are pushed in another order than computed; one stop is all a flag that is
never cleared can tell. `pool`: two of three isolates share a thread, two scripts
can queue up behind one another or behind a creation or a destruction, and the
shutdown may come between any two of these. `messaging`: three messages are two of
one worker and one of the other, so that a batch holds a message after one that
throws or destroys, of the same isolate and of another, and two requests of one
worker are under way together with one of the other that has the same id; the handler
that rejects with an error without a message is left to `messaging_errors`, since up to
the worker it is one that rejects, and to the theorems, which are about all kinds.
`execution`: three executions are one whose deadline passes too late, one that pays
for it, and one that must not; two messages let one be taken and one wait; the
clock lets every execution be limited and one deadline be overrun. `listeners`:
five registrations allow two functions several times each, removals before, at
and after the iterator, and registrations during the dispatch. `websocket`: two
sockets are enough to mistake one for the other, two messages to reorder them, and
one send to arrive late or early.
Deadlock is not checked in these runs because the system may stop: calls are
bounded, threads exit after a shutdown, the process may end.

Six runs show the code doing something else than a comment or a document says
(`findings` in PROJECT.json quotes each), on the smallest instance:

* `timeout_stop`: `stop` notifies without the mutex; its notification can fall
  between the manager's look at the flag and its wait, and the manager thread
  then sleeps for good.
* `pool_create`: `create_isolate` never returns if the thread it falls to is in
  the event loop of an isolate that is not destroyed.
* `execution_cpu`: an isolate that has used no CPU time is terminated, by the
  message that wakes it after its deadline.
* `messaging_errors`: of two requests whose handlers fail the worker learns of neither.
  The exception of a handler that is not async is not sent back, and loses the rest of the
  batch; an error whose message is empty is sent back and resolves the request. Each is a
  finding of its own, and the property fails only because the code does both.
* `messaging_destroy`: destroying an isolate while a request of its is being
  handled ends the whole process.
* `websocket_reopen`: an `open` event on its way when `close()` is called makes the
  socket OPEN again.

Passing properties carry the limits of what they promise in their statements, and
these are worth reading too: a deadline that passes late costs the next execution,
whatever that is (`TerminationsAreAccountedFor`); a termination may leave an isolate
that takes scripts and no more messages (`OnlyDeadlinesEndTheMessageLoop`); `off` in
a handler costs another handler its turn (`SkipsOnlyForRemovals`); a socket the
gateway refuses never gets CLOSED (`CloseCompletes`); a Blob that is accepted before
`close()` and read after it is dropped (`SendsArrive`); `shutdown` alone does not stop a
thread whose isolate is not destroyed (`ShutdownStopsThreads` is checked under
`SpecReleasing`). Nor does it stop a thread with a script that hangs, since it has stopped
the timeout manager first: `ShutdownStopsThreads` and `CallsComplete` except such a thread
(`Stuck`) and what shares it, although `types/host.d.ts:41` has shutdown destroy all
isolates and stop all worker threads.

## 5. Fairness

`TimeoutManager`: the manager thread runs when it can, a thread between push and
notify goes on, `stop` goes on from its store to its notification, time passes. A
script need not end, nobody need register or stop, `Push` need not get the mutex, and
spurious wake-ups need not happen. `WorkerPool`: threads take messages, the future of
`create_isolate` is polled, scripts come to an end and so does an event loop with nothing to wait for - or they hang,
and then they are terminated if there is a limit and the pool has not been shut down (see
`HungExecutionTerminated`). Other terminations and `LoopFails` are not fair. Only the `pool` run assumes more, a main
isolate that destroys what it creates (`SpecReleasing`): without it `CallsComplete`
fails, as `pool_create` shows. `Messaging`: both event loops turn and the promises of
handlers settle; nobody is obliged to send, to destroy or to drop. `IsolateExecution`: the
thread and the timeout manager go on (which is a pool that has not been shut down), time passes, V8 obeys a request while
JavaScript runs, and the event loop delivers messages that wait; no script, handler
or timer of the user's need come to an end. `WorkerWebSocket`: both event loops turn,
a Blob is read, and a connection that was closed comes to its end; neither the user
nor a remote end that was not told to close need do anything. `Listeners` states no
fairness, its properties are about safety.

## 6. Proofs

`TimeoutManager_proofs` proves, for all isolates, durations and bounds that satisfy
`ConstantsAssumption`: `TypeCorrect`, `MissesNoWakeup`, `CallsKeepOutOfOtherScripts`,
`TerminatesInOrder` and `ContractIsImplemented`.

None of the safety properties is inductive. `IInv` adds: `IdsAreFresh` (ids in use
are below the counter, and an entry is in the heap, about to fire, or fired, never
two of these), `CurrentIsOwn` (what a thread runs is its own, not cancelled, and known to
the manager exactly from the push on), `UncancelledIsCurrent` (an entry not cancelled is
its isolate's current execution) and `ScanIsPast` (the scan's instant is over).
`NoCallDuringAnotherScript` then follows from the mutex: when `ScanPop` picks an entry
it is not cancelled, hence current; until `Terminate` the owner may drop it and
compute the next deadline, but `Push` has to wait, and no script runs before it.
`ServesEarliestFirst` is kept by the same argument: nothing is pushed in that window. `NoMissedWakeup` is inductive with the types:
an entry pushed while the manager sleeps is in phase `notifying`, and `Notify` wakes
it. The proof is by `TypeInit`/`TypeStep` and `SafeInit`/`SafeStep`, one step per
action; `Invariance` combines them. For the refinement `ContractStep` maps `Push` to
`Arm`, `Drop` to `Disarm` of a timer that is still armed or else to a stutter, `ScanPop` of an
entry that is not cancelled to `Expire`, `Terminate` to `Fire`, the first `StopStore` to
`Stop`, `Tick` to `Pass`, and the rest to stutters.

`IsolateExecution_proofs` proves, for all limits and bounds that satisfy its
`ConstantsAssumption`: `TypeCorrect`, `MessageLoopOutlivesErrors` and
`LifeIsImplemented`. Its `IInv`, which the module itself states, adds to the types and
to `OnlyDeadlinesEndTheMessageLoop`: `TimersHaveExecutions` (a timer belongs to an
execution that began, and to an isolate with a limit), `CountsAreBounded`,
`RequestsHaveDeadlines` (a pending request, and a result "terminated", mean that a
deadline passed) and `CompleteLeavesNobody` (an execution that was complete has
nobody listening). The first and the third carry the argument: an
interruption may take the message loop with it, it needs a request, and the
request needs a timer that fired. `InnerReturnsResult` and `InnerReturnsStep` are
the return of `execute_inner`, which several actions share; `InvStep` has one step
per action. `LifeStep` maps `Begin` to `Begin`, `Exit` to `Return`, `HostCloses` to
`Release`, whatever ends the message loop to `MessageLoopEnds`, the rest to
stutters; here `CompleteLeavesNobody` and `RequestsHaveDeadlines` are what
`Return` of "ok" and of "terminated" ask for.

`TerminationsArePaidFor` is about how many executions a deadline costs and needs
cardinalities, so it stands on a second part, `Accounts`, which is inductive together
with `IInv`. `TimersFireOnce` (a timer is armed, chosen or fired, one of these) makes every `Fire`
count. `RequestsAreCovered` says that a request pending where it can still be spent, in
`idle`, `script`, `loop` or `exit`, is one that the sum of deadlines and overlooked requests
does not need for an earlier result; a result "terminated" spends it, and the probe
either sees the request, which leads to `CancelTermination`, or overlooks it and adds
one to the other side. `OneResultCounts` is the lemma about the set of terminated
executions.

`WorkerPool_proofs` proves, for any number of threads, isolates, scripts and shutdowns:
`TypeCorrect`, `RegistryIsRight`, `NothingLeaks`, `ScriptsFindTheirIsolate`, `NoCallIsForgotten` and
`ScriptsKeepOrder`. The properties relate the pool's registry and the threads' maps, which
change at different times; what ties them together is what is in the queues. So `IInv`
says that calls are numbered (`CallsAreCounted`), that a message is in the queue of its
isolate's thread and that the call it stands for is waiting for it (`MessagesBelong`), that
of two messages about one isolate the later is a later script's or the destruction
(`QueuesKeepOrder`), where an isolate and its message loop are (`IsolatesBelong`) and which
thread executes a script (`ScriptsBelong`). `NeverNotFound`: the thread takes `Execute` while
its isolate is in its map, because `DestroyIsolate` cannot have overtaken it.
`SendAppends`, `ReceiveTakes`, `SentInOrder`, `TakenInOrder`, `SentWaits` and `TakenWaits` are the lemmas
about the queues that all actions share; `DroppedCalls` is what an exit does to the
calls that still wait.

`WorkerPoolLife_proofs` proves `LifeIsImplemented`, from the same `IInv`: every isolate of the
pool lives the life of `IsolateLife`. `LifeStep` maps `ReceiveCreate` to `Create`,
`ReceiveExecute` to `Begin`, what ends an execution to `Return`, which may take the message loop with it,
`DestroyIsolate` to `Release`, `ReceiveDestroy` and `ReceiveShutdown` to `Drop`, and what happens to
other isolates to stutters. The refinement mapping has `CHOOSE` for the last execution of an
isolate; `HasGreatest` and `LastIsLast` show that it is what it says.

`Listeners_proofs` proves, for any handlers and any number of registrations:
`TypeCorrect`, `CallsInOrder`, `NoCallAfterRemoval` and `SkipsAreFew`. `IInv` adds that registrations
are numbered by the calls of `on` (`NumberedByCalls`), that what is left for the iterator
comes after what it has called (`CalledComeFirst`), that a handler leaves the array only
through `off` (`NothingGetsLost`), and `SkipsArePaidFor`: each handler the iterator is past
without having called it is matched by a removed one that was called. `off` is the
step that matters: `RemoveMovesUp` says what becomes of the places behind the one it
empties.

`Messaging_proofs` proves, for any isolates and number of messages: `TypeCorrect`,
`MessagesKeepOrder`, `AnswersAreRight`, `RequestsStayConserved` and `RequestLifeIsImplemented`. All messages on
their way to the main isolate, the rest of its batch and then the channel, are one
sequence, `Way`, whose places the properties and the proofs talk about. `IInv` has their order
(`MessagesAreNumbered`, `OrderIsKept`, `NothingIsLost`) and the path of a request
(`RequestsAreTracked`): one that is coming has not been handled; one that is being handled
was handled once, and no response is on its way; a response is the only one, and its
error flag follows from what the handler did (`Deeds`); a promise that is settled shows the
same. That ids repeat from isolate to isolate is why each of these names the isolate.
`RequestsAreSomewhere` is the other half of `RequestsAreConserved`. `DispatchShifts` and `SendAppends`
say what the steps do to `Way`, and what they do to the order and the tracking follows
from lemmas about that. `RequestLifeIsImplemented` needs the same invariant: `SendRequest` is
`Make` because ids grow, a dispatch is `Handle` of the first request on its way because that
has not been handled, `ReceiveResponse` is `Settle` because the response is tracked to what
was done, and what destroys an isolate is `Destroy` for all of its requests at once, or part of the
`Handle` of the request whose own handler destroys it.

`WorkerWebSocket_proofs` proves, for any sockets and bounds: `TypeCorrect`,
`OpenSocketsAreConnected`, `ClosedSocketsAreGone`, `MessagesAreHeard` and `SendsReachTheGateway`. The two ends
change their states on their own, so `IInv` says which events and posts may be on their way
in which states. `PostsAreInOrder`: an `open` is posted once and before there is a
connection, and a send that follows a `close` is one of those `Excused`. `EventsAreInOrder`: the `open` comes before
every other event of its socket and finds it CONNECTING or CLOSING, the `close` comes last.
`StatesAgree`: the state of a socket follows from its connection and what is coming, a
connection that is gone and not yet CLOSED has its `close` on the way. `ConnectionsAreKnown` is
the gateway's map, and `MessagesAreNumbered` with `MessagesHeardInOrder` follows a remote end's
messages by their numbers. `Gains` and `Loses` describe what `Append` and `Tail` do to a channel; for
each part of the invariant a lemma says when an element gained, an element lost, or neither
keeps it, and the steps only have to meet their conditions.

Only model-checked: everything under fairness (`HungExecutionTerminated`,
`CallsComplete`, `ShutdownStopsThreads`, `HungScriptIsInterrupted`,
`ResultIsFollowedByExit`, `MessagesAreTaken`, `RequestsAnswered`,
`DestroyedIsReported`, `CloseCompletes`), since the prover does not do liveness. The
properties that the code violates are refuted on their instances, and no theorem is
about them.

## 7. Not modelled

* V8 and deno_core, but for what `IsolateExecution` says of them in its head
  comment: when a termination request takes effect, that it is made anew after an
  interruption, and that `is_execution_terminating` may overlook one. Heap limits
  and out-of-memory handling, panics of threads, failures of creating a runtime
  (the thread would leave its loop as after `Shutdown`).
* `memory_limit_mb`, which is only handed to V8, and `event_loop_timeout`, which
  nothing reads.
* `Headers` and the response of `fetch`: sequential and pure, around one
  `NETWORK.request`, which is in `Messaging`. Nothing waits, fails or interleaves
  there; what could be wrong is in conversions of strings, which a unit test reaches.
* `onRequest` and `onSystem`, which put a handler in a map: `Messaging` has every
  kind of request handler, the missing one included. The user's own events to a
  worker, which share the way of the responses; `IsolateExecution` has their
  delivery. The handlers' data and the payloads of sockets.
* What deno_core's conversion of a buffer to the `String` of `op_worker_websocket_send`
  yields. And that the error reports in the catch blocks of `bootstrap_worker.js` 135 and
  177 do not throw themselves, which `AfterTick` takes for granted: they are calls of the
  console of deno_core.
* The order of the process's end: `main.rs` reaches its own `shutdown` only when its
  event loop is over, which pending polls prevent once an isolate exists; the
  modules have `shutdown` as the call the script makes.
* Module loading and transpilation, logging, global set-up and stub ops: no state,
  or pure functions of other libraries.
