------------------------------- MODULE Messaging -------------------------------
(***************************************************************************)
(* Messages between the main isolate (src/src/js/bootstrap.js) and worker  *)
(* isolates (src/src/js/bootstrap_worker.js).  Workers send events and     *)
(* requests through one channel that all of them share; the main isolate's *)
(* message loop takes them in batches, runs the handlers of the isolate    *)
(* they come from and sends responses through that isolate's own channel.  *)
(* Each side is single-threaded JavaScript: a batch is dispatched without  *)
(* interruption, and the response to a request follows in a later step.    *)
(*                                                                         *)
(* The handlers are the user's, and what one does is chosen when it is     *)
(* called: all of them may destroy isolates.  The promise of a request's   *)
(* handler resolves, or rejects with an error, with something that has no  *)
(* message or an empty one, or with null or undefined; or the handler      *)
(* throws instead of returning a promise; or there is none.  A result that *)
(* cannot be serialized is like an error, whose message says so.  The      *)
(* workers' threads are in their isolates' event loops, until the runtime  *)
(* is dropped.                                                             *)
(***************************************************************************)
EXTENDS Integers, Sequences, FiniteSets

CONSTANTS
  Isolates,     \* worker isolates, created and registered with the dispatcher
  Handlers,     \* what the handler of a request may do
  MaxMessages   \* bound on the messages the workers send

ASSUME ConstantsAssumption ==
  /\ IsFiniteSet(Isolates)
  /\ Handlers \subseteq {"resolves", "rejects", "rejectsBlank", "rejectsNull", "throws",
                         "missing"}
  /\ MaxMessages \in Nat

VARIABLES
  (* the worker isolates *)
  sent,             \* how many messages each worker has sent
  nextRequestId,    \* nextRequestId
  pendingRequests,  \* pendingRequests: requests without a response
  settled,          \* how the promise of each request was settled, if it was
  dropped,          \* isolates whose thread has dropped the runtime
  (* the channels *)
  toMain,           \* from the workers to the main isolate
  toWorker,         \* from the main isolate to each worker
  systemEvents,     \* system events on their way: isolates with "destroyed"
  (* the main isolate *)
  batch,            \* what is left of the batch the message loop dispatches
  handled,          \* the messages of each isolate dispatched so far
  working,          \* requests whose handler was called and has yet to reply
  destroyed,        \* isolates whose #destroyed is set
  notified,         \* isolates whose "destroyed" handlers have run
  exited            \* the process has ended with an error

workerVars == <<sent, nextRequestId, pendingRequests, settled, dropped>>
channelVars == <<toMain, toWorker, systemEvents>>
mainVars == <<batch, handled, working, destroyed, notified, exited>>
vars == <<workerVars, channelVars, mainVars>>

RequestIds == 0 .. MaxMessages - 1
NoRequest == -1

\* The messages the workers have sent, each by its worker and its number there.
Sent == {m \in Isolates \X (1 .. MaxMessages) : m[2] <= sent[m[1]]}
AllSent == Cardinality(Sent)

\* What a worker sends: its n-th message, an event or a request.
Message == [isolate : Isolates, n : 1 .. MaxMessages, id : RequestIds \cup {NoRequest}]

\* What dispatching a message may come to.  returns: the handlers of an event do.
\* unanswerable: there is no handler, and sending the worker that throws.
Deed == Handlers \cup {"returns", "unanswerable"}

\* A message that was dispatched, and what its handler did.
Handled == [n : 1 .. MaxMessages, id : RequestIds \cup {NoRequest}, did : Deed]

\* A request whose handler has yet to reply, and what that will be.
Call == [isolate : Isolates, id : RequestIds,
         did : {"resolves", "rejects", "rejectsBlank", "rejectsNull"}]

\* error: whether the response has an error the worker takes for one.
Response == [id : RequestIds, error : BOOLEAN]

Init ==
  /\ sent = [i \in Isolates |-> 0]
  /\ nextRequestId = [i \in Isolates |-> 0]
  /\ pendingRequests = [i \in Isolates |-> {}]
  /\ settled = [i \in Isolates |-> [r \in RequestIds |-> "no"]]
  /\ dropped = {}
  /\ toMain = <<>>
  /\ toWorker = [i \in Isolates |-> <<>>]
  /\ systemEvents = <<>>
  /\ batch = <<>>
  /\ handled = [i \in Isolates |-> <<>>]
  /\ working = {}
  /\ destroyed = {}
  /\ notified = {}
  /\ exited = FALSE

-----------------------------------------------------------------------------
(* A worker: NETWORK.send, NETWORK.request, the host message loop.         *)

\* send: op_worker_send tags the message with the isolate.
SendEvent(i) ==
  /\ ~exited /\ i \notin dropped
  /\ AllSent < MaxMessages
  /\ sent' = [sent EXCEPT ![i] = @ + 1]
  /\ toMain' = Append(toMain, [isolate |-> i, n |-> sent[i] + 1, id |-> NoRequest])
  /\ UNCHANGED <<nextRequestId, pendingRequests, settled, dropped, toWorker,
                 systemEvents, mainVars>>

\* request: the resolvers are stored before the message goes out.
SendRequest(i) ==
  LET r == nextRequestId[i]
  IN  /\ ~exited /\ i \notin dropped
      /\ AllSent < MaxMessages
      /\ sent' = [sent EXCEPT ![i] = @ + 1]
      /\ nextRequestId' = [nextRequestId EXCEPT ![i] = @ + 1]
      /\ pendingRequests' = [pendingRequests EXCEPT ![i] = @ \cup {r}]
      /\ toMain' = Append(toMain, [isolate |-> i, n |-> sent[i] + 1, id |-> r])
      /\ UNCHANGED <<settled, dropped, toWorker, systemEvents, mainVars>>

\* hostMessageLoop and __dispatchEvent: a response settles its request, if that
\* is still pending.
ReceiveResponse(i) ==
  LET m == Head(toWorker[i])
  IN  /\ ~exited /\ i \notin dropped
      /\ toWorker[i] # <<>>
      /\ toWorker' = [toWorker EXCEPT ![i] = Tail(@)]
      /\ pendingRequests' = [pendingRequests EXCEPT ![i] = @ \ {m.id}]
      /\ settled' = IF m.id \in pendingRequests[i]
                      THEN [settled EXCEPT
                              ![i][m.id] = IF m.error THEN "rejected" ELSE "resolved"]
                      ELSE settled
      /\ UNCHANGED <<sent, nextRequestId, dropped, toMain, systemEvents, mainVars>>

\* The thread drops the runtime, with its end of the channels: the isolate was
\* destroyed, or the pool was shut down, which the user may do at any time and which
\* the main isolate's code does not look at.
DropWorker(i) ==
  /\ ~exited /\ i \notin dropped
  /\ dropped' = dropped \cup {i}
  /\ UNCHANGED <<sent, nextRequestId, pendingRequests, settled, channelVars, mainVars>>

-----------------------------------------------------------------------------
(* The main isolate: the message loop of GlobalEventDispatcher.  Nothing   *)
(* else runs there while a batch is being dispatched.                      *)

\* Variants with a bug: what is not in the batch is dropped, or what is in it stays
\* in the channel.
NotDrainedDropped(k) == <<>>
NotDrainedAll(k) == toMain

NotDrained(k) == SubSeq(toMain, k + 1, Len(toMain))

\* op_sandbox_poll_messages: everything there is, or the first that comes.
Poll ==
  /\ ~exited
  /\ batch = <<>>
  /\ toMain # <<>>
  /\ \E k \in {1, Len(toMain)} :
       /\ batch' = SubSeq(toMain, 1, k)
       /\ toMain' = NotDrained(k)
  /\ UNCHANGED <<workerVars, toWorker, systemEvents, handled, working,
                 destroyed, notified, exited>>

\* A variant with a bug: the isolate's id is not looked at.
RespondToAll(i, r, isError) ==
  toWorker' = [w \in Isolates |-> Append(toWorker[w], [id |-> r, error |-> isError])]

\* Isolate.send, when it does not throw.
Respond(i, r, isError) ==
  toWorker' = [toWorker EXCEPT ![i] = Append(@, [id |-> r, error |-> isError])]

\* Isolate.send throws: the isolate is destroyed, or nobody receives any more.
SendFails(i) == i \in destroyed \cup dropped

\* Isolate.destroy, of one isolate after another: the pool first, then the flag.
MarkDestroyed(order) ==
  /\ \A j, k \in DOMAIN order : order[j] = order[k] => j = k
  /\ destroyed' = destroyed \cup {order[k] : k \in DOMAIN order}
  /\ systemEvents' = systemEvents \o order

\* What the handlers of one message may destroy.
HandlersDestroy ==
  \E n \in 0 .. Cardinality(Isolates) :
    \E order \in [1 .. n -> Isolates \ destroyed] : MarkDestroyed(order)

\* A variant with a bug: the flag was looked at when the batch was taken.
PassedOverNever(i) == FALSE

\* The check of isolate.destroyed.
PassedOver(i) == i \in destroyed

\* A message of a destroyed isolate is passed over.
SkipMessage ==
  /\ batch # <<>>
  /\ PassedOver(Head(batch).isolate)
  /\ batch' = Tail(batch)
  /\ UNCHANGED <<workerVars, channelVars, handled, working, destroyed, notified, exited>>

\* A variant with a bug: every message is taken for a request.
TakenForRequest(m) == TRUE

\* event === '__request'
IsRequest(m) == m.id # NoRequest

\* The next message of the batch is of an isolate that is not destroyed, and its
\* handler does this.
Dispatches(did) ==
  LET m == Head(batch)
  IN  /\ batch # <<>>
      /\ ~PassedOver(m.isolate)
      /\ IsRequest(m) = (did # "returns")
      /\ handled' = [handled EXCEPT ![m.isolate] =
                       Append(@, [n |-> m.n, id |-> m.id, did |-> did])]

\* An event: its handlers run one after another, and their errors are caught.
DispatchEvent ==
  /\ Dispatches("returns")
  /\ batch' = Tail(batch)
  /\ HandlersDestroy
  /\ UNCHANGED <<workerVars, toMain, toWorker, working, notified, exited>>

\* A request: its handler is called and returns a promise.
DispatchRequest ==
  /\ \E did \in Handlers \ {"throws", "missing"} :
       /\ Dispatches(did)
       /\ working' = working \cup
            {[isolate |-> Head(batch).isolate, id |-> Head(batch).id, did |-> did]}
  /\ batch' = Tail(batch)
  /\ HandlersDestroy
  /\ UNCHANGED <<workerVars, toMain, toWorker, notified, exited>>

\* A request whose handler throws before it returns a promise: the exception
\* leaves _dispatchEvent and the loop over the batch.
DispatchThrows ==
  /\ "throws" \in Handlers
  /\ Dispatches("throws")
  /\ batch' = <<>>
  /\ HandlersDestroy
  /\ UNCHANGED <<workerVars, toMain, toWorker, working, notified, exited>>

\* A variant with a bug: a request nobody handles is ignored.
RefuseSilently(i, r) == UNCHANGED toWorker

Refuse(i, r) == Respond(i, r, TRUE)

\* A request nobody handles is answered at once.
DispatchUnknown ==
  /\ "missing" \in Handlers
  /\ Dispatches("missing")
  /\ ~SendFails(Head(batch).isolate)
  /\ batch' = Tail(batch)
  /\ Refuse(Head(batch).isolate, Head(batch).id)
  /\ UNCHANGED <<workerVars, toMain, systemEvents, working, destroyed, notified, exited>>

\* Unless its worker has gone: then the exception of send leaves the loop over the
\* batch like one of a handler.
DispatchUnanswerable ==
  /\ "missing" \in Handlers
  /\ Dispatches("unanswerable")
  /\ SendFails(Head(batch).isolate)
  /\ batch' = <<>>
  /\ UNCHANGED <<workerVars, channelVars, working, destroyed, notified, exited>>

\* The handler's promise is settled, and the then or the catch sends the
\* response.  The worker takes an empty error message for no error.  The catch
\* throws when there is no error to take the message of, or send does: nobody
\* catches that, and main.rs ends the process.
Reply(c) ==
  /\ ~exited
  /\ batch = <<>>
  /\ c \in working
  /\ working' = working \ {c}
  /\ IF SendFails(c.isolate) \/ c.did = "rejectsNull"
       THEN exited' = TRUE /\ UNCHANGED toWorker
       ELSE Respond(c.isolate, c.id, c.did = "rejects") /\ UNCHANGED exited
  /\ UNCHANGED <<workerVars, toMain, systemEvents, batch, handled, destroyed, notified>>

\* The user's code destroys an isolate outside of a handler.
DestroyIsolate(i) ==
  /\ ~exited
  /\ batch = <<>>
  /\ i \notin destroyed
  /\ MarkDestroyed(<<i>>)
  /\ UNCHANGED <<workerVars, toMain, toWorker, batch, handled, working, notified,
                 exited>>

\* A variant with a bug: as in the message loop, destroyed isolates are passed over.
HearersIfLive(i) == {i} \ destroyed

\* The isolates whose system event handlers run for an event of i.
Hearers(i) == {i}

\* The system event loop: op_sandbox_poll_system_events and its dispatch, which
\* finds destroyed isolates still registered.
DispatchSystemEvent ==
  /\ ~exited
  /\ batch = <<>>
  /\ systemEvents # <<>>
  /\ systemEvents' = Tail(systemEvents)
  /\ notified' = notified \cup Hearers(Head(systemEvents))
  /\ UNCHANGED <<workerVars, toMain, toWorker, batch, handled, working, destroyed,
                 exited>>

-----------------------------------------------------------------------------
Worker(i) == SendEvent(i) \/ SendRequest(i) \/ ReceiveResponse(i) \/ DropWorker(i)

Dispatch == \/ SkipMessage \/ DispatchEvent
            \/ DispatchRequest \/ DispatchThrows
            \/ DispatchUnknown \/ DispatchUnanswerable

Main == \/ Poll
        \/ Dispatch
        \/ \E c \in working : Reply(c)
        \/ \E i \in Isolates : DestroyIsolate(i)
        \/ DispatchSystemEvent

Next == Main \/ \E i \in Isolates : Worker(i)

\* Both sides' event loops turn and asynchronous handlers settle.  Nothing
\* obliges a worker to send, the user to destroy or a thread to drop a runtime.
Fairness ==
  /\ WF_vars(Poll)
  /\ WF_vars(Dispatch)
  /\ WF_vars(DispatchSystemEvent)
  /\ \A i \in Isolates :
       /\ WF_vars(i \notin destroyed /\ ReceiveResponse(i))
       /\ \A r \in RequestIds :
            WF_vars(\E c \in working : c.isolate = i /\ c.id = r /\ Reply(c))

Spec == Init /\ [][Next]_vars /\ Fairness

-----------------------------------------------------------------------------
(* Properties.                                                             *)

\* Every variable has its type.
TypeOK ==
  /\ sent \in [Isolates -> 0 .. MaxMessages]
  /\ nextRequestId \in [Isolates -> 0 .. MaxMessages]
  /\ pendingRequests \in [Isolates -> SUBSET RequestIds]
  /\ settled \in [Isolates -> [RequestIds -> {"no", "resolved", "rejected"}]]
  /\ toMain \in Seq(Message) /\ batch \in Seq(Message)
  /\ handled \in [Isolates -> Seq(Handled)] /\ toWorker \in [Isolates -> Seq(Response)]
  /\ systemEvents \in Seq(Isolates)
  /\ working \subseteq Call
  /\ dropped \subseteq Isolates /\ destroyed \subseteq Isolates /\ notified \subseteq Isolates
  /\ exited \in BOOLEAN

\* Some dispatch has thrown.
Threw == \E i \in Isolates : \E k \in DOMAIN handled[i] :
           handled[i][k].did \in {"throws", "unanswerable"}

\* What was done for worker i's request r.
Done(i, r) == {handled[i][k].did : k \in {j \in DOMAIN handled[i] : handled[i][j].id = r}}

\* The requests worker i has made.
Requests(i) == {r \in RequestIds : r < nextRequestId[i]}

\* What the main isolate has yet to dispatch: of every worker the last it has sent.
Way == batch \o toMain
WayOf(i) == {k \in DOMAIN Way : Way[k].isolate = i}

\* Batches keep the order in which a worker sent its messages, however many
\* workers share the channel and wherever a batch ends, and lose none of them
\* (op_sandbox_poll_messages and the message loop) - unless a dispatch throws:
\* then the rest of its batch is lost, whichever isolates it came from.
InOrderWithoutLoss ==
  \A i \in Isolates \ destroyed :
    /\ \A j, k \in DOMAIN handled[i] : j < k => handled[i][j].n < handled[i][k].n
    /\ \A j \in DOMAIN handled[i], k \in WayOf(i) : handled[i][j].n < Way[k].n
    /\ \A j, k \in WayOf(i) : j < k => Way[j].n < Way[k].n
    /\ ~Threw => \A n \in 1 .. sent[i] : \/ \E k \in DOMAIN handled[i] : handled[i][k].n = n
                                         \/ \E k \in WayOf(i) : Way[k].n = n

\* An answer is the answer to the request it settles: ids are unique only within
\* an isolate, and isolates use the same ones.  It comes from a handler that replies,
\* a result arrives as a result and an error that has a message as an error
\* (__request, __response); of one without, see ErrorIsSentBack.
AnswersMatch ==
  \A i \in Isolates : \A r \in Requests(i) : settled[i][r] # "no" =>
    /\ \E did \in Handlers \ {"throws", "rejectsNull"} : Done(i, r) = {did}
    /\ "resolves" \in Done(i, r) => settled[i][r] = "resolved"
    /\ Done(i, r) \cap {"rejects", "missing"} # {} => settled[i][r] = "rejected"

\* The places where worker i's request r, or its response, is.
Places(i, r) == {<<"on its way", k>> : k \in {j \in WayOf(i) : Way[j].id = r}}
                \cup {<<"handled", c>> : c \in {d \in working : d.isolate = i /\ d.id = r}}
                \cup {<<"answered", k>> : k \in {j \in DOMAIN toWorker[i] :
                                                   toWorker[i][j].id = r}}

\* A pending request is in exactly one place on its way to a handler and back, and
\* a settled one in none: nothing is handled or answered twice, and only a destroyed
\* isolate, a dispatch that throws or the end of the process leaves a request without
\* an answer on its way.
RequestsAreConserved ==
  \A i \in Isolates : \A r \in Requests(i) :
    /\ \A p, q \in Places(i, r) : p = q
    /\ Places(i, r) # {} => r \in pendingRequests[i]
    /\ Places(i, r) = {} => \/ r \notin pendingRequests[i]
                            \/ i \in destroyed
                            \/ Threw
                            \/ exited

\* Every request is answered, unless its isolate is destroyed or gone, a dispatch
\* throws or the process ends ("waits indefinitely", bootstrap_worker.js).
RequestsAnswered ==
  \A i \in Isolates, r \in RequestIds :
    []<>(r \notin pendingRequests[i] \/ SendFails(i) \/ Threw \/ exited)

\* The "destroyed" handlers of a destroyed isolate run, although the isolate takes
\* no more messages.
DestroyedIsReported ==
  \A i \in Isolates : []<>(i \in destroyed => i \in notified \/ exited)

\* The times worker i's request r was handled.
Handlings(i, r) ==
  {[at |-> k, did |-> handled[i][k].did] : k \in {j \in DOMAIN handled[i] : handled[i][j].id = r}}

Request(i, r) == INSTANCE RequestLife
                 WITH made <- (r < nextRequestId[i]),
                      handlings <- Handlings(i, r),
                      promise <- settled[i][r],
                      destroyed <- (i \in destroyed)

\* Every request of every worker lives the same life, though they share channels,
\* batches and ids: one handler is called for it, once, and its promise is settled
\* by what that handler did and by nothing else, once (__request, __response).
\* A message of a batch whose isolate an earlier one's handler destroyed is not handled.
ImplementsRequestLife ==
  /\ \A i \in Isolates, r \in RequestIds : Request(i, r)!Init
  /\ [][\A i \in Isolates, r \in RequestIds :
          Request(i, r)!Next \/ UNCHANGED Request(i, r)!vars]_vars

\* DOCUMENTATION.md of onRequest: "If an error is thrown, it's sent back to the
\* worker."  Two kinds are not: what a handler throws before it returns a promise, and
\* an error whose message is empty.  So of a request q that fails in the one way and a
\* request r that fails in the other, a worker that is there may learn nothing.
ErrorIsSentBack ==
  \A i \in Isolates : \A q, r \in RequestIds :
    "throws" \in Done(i, q) /\ "rejectsBlank" \in Done(i, r)
      ~> "rejected" \in {settled[i][q], settled[i][r]} \/ SendFails(i) \/ exited

\* README.md: "Isolates can be created and destroyed dynamically."  The process
\* ends when the handler of a request settles whose isolate has been destroyed.
DestroyIsHarmless ==
  [][\A c \in working \ working' : c.isolate \in destroyed => ~exited']_vars

-----------------------------------------------------------------------------
(* The inductive invariant.                                                *)

\* Message m, or what was done with it, is one that worker i has sent.
Numbered(i, m) == m.n <= sent[i] /\ (m.id # NoRequest => m.id < nextRequestId[i])

MessagesAreNumbered ==
  /\ \A i \in Isolates : nextRequestId[i] <= sent[i]
  /\ \A k \in DOMAIN Way : Numbered(Way[k].isolate, Way[k])
  /\ \A i \in Isolates : \A k \in DOMAIN handled[i] : Numbered(i, handled[i][k])

\* Message a was sent before b, by the same worker.
Before(a, b) == a.n < b.n /\ (a.id # NoRequest /\ b.id # NoRequest => a.id < b.id)

\* Every message comes before those its worker has sent after it, destroyed or not.
OrderIsKept ==
  \A i \in Isolates :
    /\ \A j, k \in DOMAIN handled[i] : j < k => Before(handled[i][j], handled[i][k])
    /\ \A j \in DOMAIN handled[i] : \A k \in WayOf(i) : Before(handled[i][j], Way[k])
    /\ \A j, k \in WayOf(i) : j < k => Before(Way[j], Way[k])

NothingIsLost ==
  ~Threw => \A i \in Isolates \ destroyed : \A n \in 1 .. sent[i] :
              \/ \E k \in DOMAIN handled[i] : handled[i][k].n = n
              \/ \E k \in WayOf(i) : Way[k].n = n

\* What was done for a request that was answered, by whether the worker takes the
\* answer for an error.
Deeds(error) == IF error THEN {{"rejects"}, {"missing"}} ELSE {{"resolves"}, {"rejectsBlank"}}

\* A request that is somewhere is pending.  It is dispatched once; what its handler
\* is going to reply, the response and how that settles the promise follow from it.
ComingArePending ==
  \A k \in DOMAIN Way : Way[k].id # NoRequest => Way[k].id \in pendingRequests[Way[k].isolate]

CallsAreTracked ==
  \A c \in working :
    /\ c.id \in pendingRequests[c.isolate] /\ Done(c.isolate, c.id) = {c.did}
    /\ \A k \in DOMAIN toWorker[c.isolate] : toWorker[c.isolate][k].id # c.id

ResponsesAreTracked ==
  \A i \in Isolates : \A k \in DOMAIN toWorker[i] :
    /\ toWorker[i][k].id \in pendingRequests[i]
    /\ Done(i, toWorker[i][k].id) \in Deeds(toWorker[i][k].error)
    /\ \A j \in DOMAIN toWorker[i] : toWorker[i][j].id = toWorker[i][k].id => j = k

PromisesAreTracked ==
  \A i \in Isolates : \A r \in RequestIds :
    /\ r \in pendingRequests[i] => r < nextRequestId[i] /\ settled[i][r] = "no"
    /\ settled[i][r] # "no" => Done(i, r) \in Deeds(settled[i][r] = "rejected")

RequestsAreTracked ==
  ComingArePending /\ CallsAreTracked /\ ResponsesAreTracked /\ PromisesAreTracked

\* A pending request is somewhere.
RequestsAreSomewhere ==
  ~Threw /\ ~exited => \A i \in Isolates \ destroyed : \A r \in pendingRequests[i] : Places(i, r) # {}

IInv == /\ TypeOK
        /\ MessagesAreNumbered
        /\ OrderIsKept
        /\ NothingIsLost
        /\ RequestsAreTracked
        /\ RequestsAreSomewhere

=============================================================================
