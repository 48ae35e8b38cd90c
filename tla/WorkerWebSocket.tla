---------------------------- MODULE WorkerWebSocket ----------------------------
(***************************************************************************)
(* The sockets of a worker isolate: class WorkerWebSocket and its event    *)
(* dispatcher in src/src/js/bootstrap_worker.js, the ops of                *)
(* src/src/ops/worker.rs that take what it does to the main isolate, and   *)
(* the gateway there, which holds the real connection.  The two ends see   *)
(* each other only through channels that keep their order.                 *)
(*                                                                         *)
(* The gateway is the user's code and external: it is modelled as the      *)
(* example of src/DOCUMENTATION.md that the events of the worker's side    *)
(* are made for.  It refuses a socket with an error event and nothing      *)
(* else, or fails to make the connection and sends nothing at all.         *)
(***************************************************************************)
EXTENDS Integers, Sequences, FiniteSets

CONSTANTS
  Sockets,      \* connection ids, each for at most one socket
  MaxSends,     \* bound on the calls of send
  MaxMessages   \* bound on the messages the remote ends send

ASSUME ConstantsAssumption ==
  IsFiniteSet(Sockets) /\ MaxSends \in Nat /\ MaxMessages \in Nat

VARIABLES
  (* the worker isolate *)
  readyState,   \* of every socket; "none" before its constructor
  registry,     \* webSocketRegistry
  heard,        \* the messages its handlers were called with
  closeCalled,  \* sockets close() has acted on
  sends,        \* calls of send that did not throw
  blobs,        \* sends that wait for the bytes of a Blob, by whether send accepted
                \* them after close() was called
  (* the channels *)
  toHost, toWorker,
  (* the gateway *)
  connection,   \* the real WebSocket of every socket it was asked for
  wsConnections,
  told,         \* how many messages the remote end has sent
  lost          \* sends the gateway dropped, see SendsArrive

workerVars == <<readyState, registry, heard, closeCalled, sends, blobs>>
gatewayVars == <<connection, wsConnections, told, lost>>
vars == <<workerVars, toHost, toWorker, gatewayVars>>

ReadyStates == {"none", "CONNECTING", "OPEN", "CLOSING", "CLOSED"}

\* none: not asked for.  gone: the 'close' event has been fired.
Connections == {"none", "refused", "connecting", "open", "closing", "gone"}

\* What a send carries.  text: the string given to send.  converted: the string that
\* op_worker_websocket_send, whose data is a String, is given for a buffer.
Data == {"none", "text", "converted"}

\* ws.open, ws.send, ws.close.  late: send accepted it after close() was called.
\* overtaken: it accepted it before, and close() was called before it was posted.
ToHost == [event : {"open", "send", "close"}, conn : Sockets, data : Data,
           late : BOOLEAN, overtaken : BOOLEAN]

\* __ws_event; n is the number of a message.
ToWorker == [event : {"open", "message", "close", "error"}, conn : Sockets,
             n : 0 .. MaxMessages]

Init ==
  /\ readyState = [s \in Sockets |-> "none"]
  /\ registry = {}
  /\ heard = [s \in Sockets |-> <<>>]
  /\ closeCalled = {}
  /\ sends = 0
  /\ blobs = [s \in Sockets |-> [late \in BOOLEAN |-> 0]]
  /\ toHost = <<>>
  /\ toWorker = <<>>
  /\ connection = [s \in Sockets |-> "none"]
  /\ wsConnections = {}
  /\ told = [s \in Sockets |-> 0]
  /\ lost = {}

-----------------------------------------------------------------------------
(* What the worker's code does with a socket.                              *)

Post(event, s) ==
  toHost' = Append(toHost, [event |-> event, conn |-> s, data |-> "none",
                            late |-> FALSE, overtaken |-> FALSE])

PostSend(s, data, late) ==
  toHost' = Append(toHost, [event |-> "send", conn |-> s, data |-> data, late |-> late,
                            overtaken |-> ~late /\ s \in closeCalled])

\* A variant with a bug: only an open socket is registered.
RegisterLater(s) == UNCHANGED registry

Register(s) == registry' = registry \cup {s}

\* The constructor: the op gives it its id, and it is registered with that before
\* anything can come back.
Construct(s) ==
  /\ readyState[s] = "none"
  /\ readyState' = [readyState EXCEPT ![s] = "CONNECTING"]
  /\ Register(s)
  /\ Post("open", s)
  /\ UNCHANGED <<heard, closeCalled, sends, blobs, toWorker, gatewayVars>>

\* A variant with a bug: as soon as the socket exists.
MaySendEarly(s) == readyState[s] \in {"CONNECTING", "OPEN"}

\* send throws otherwise.
MaySend(s) == readyState[s] = "OPEN"

\* A string or a buffer goes out at once.
Send(s) ==
  /\ MaySend(s)
  /\ sends < MaxSends
  /\ sends' = sends + 1
  /\ \E data \in {"text", "converted"} : PostSend(s, data, s \in closeCalled)
  /\ UNCHANGED <<readyState, registry, heard, closeCalled, blobs, toWorker, gatewayVars>>

\* A Blob is read first, and goes out whatever has happened since.
SendBlob(s) ==
  /\ MaySend(s)
  /\ sends < MaxSends
  /\ sends' = sends + 1
  /\ blobs' = [blobs EXCEPT ![s][s \in closeCalled] = @ + 1]
  /\ UNCHANGED <<readyState, registry, heard, closeCalled, toHost, toWorker, gatewayVars>>

\* Its bytes are a buffer.
BlobRead(s) ==
  /\ \E late \in BOOLEAN :
       /\ blobs[s][late] > 0
       /\ blobs' = [blobs EXCEPT ![s][late] = @ - 1]
       /\ PostSend(s, "converted", late)
  /\ UNCHANGED <<readyState, registry, heard, closeCalled, sends, toWorker, gatewayVars>>

\* Variants with a bug: close does not wait for the other end, or forgets to tell it.
ClosedAtOnce == "CLOSED"
PostNothing(s) == UNCHANGED toHost

AfterClose == "CLOSING"
PostClose(s) == Post("close", s)

\* close, unless it was called before and the socket still shows that.
Close(s) ==
  /\ readyState[s] \in {"CONNECTING", "OPEN"}
  /\ readyState' = [readyState EXCEPT ![s] = AfterClose]
  /\ closeCalled' = closeCalled \cup {s}
  /\ PostClose(s)
  /\ UNCHANGED <<registry, heard, sends, blobs, toWorker, gatewayVars>>

-----------------------------------------------------------------------------
(* The worker's dispatcher of __ws_event.                                  *)

\* A variant with a bug: the id is not looked at.
AnyRegistered(conn) == {s \in registry : readyState[s] # "CLOSED"}

\* webSocketRegistry.get(conn_id), if it is there.
Addressee(conn) == registry \cap {conn}

\* The next event is for socket s.
Receives(event, s) ==
  /\ toWorker # <<>>
  /\ Head(toWorker).event = event
  /\ s \in Addressee(Head(toWorker).conn)
  /\ toWorker' = Tail(toWorker)
  /\ UNCHANGED <<closeCalled, sends, blobs, toHost, gatewayVars>>

\* _handleOpen: whatever the state is.
HandleOpen(s) ==
  /\ Receives("open", s)
  /\ readyState' = [readyState EXCEPT ![s] = "OPEN"]
  /\ UNCHANGED <<registry, heard>>

HandleMessage(s) ==
  /\ Receives("message", s)
  /\ heard' = IF readyState[s] = "OPEN"
                THEN [heard EXCEPT ![s] = Append(@, Head(toWorker).n)] ELSE heard
  /\ UNCHANGED <<readyState, registry>>

\* A variant with a bug: only a socket that is CLOSING gets CLOSED.
StateUnlessOpen(s) == IF readyState[s] = "OPEN" THEN "OPEN" ELSE "CLOSED"

StateOfClosed(s) == "CLOSED"

\* _handleClose: an exception of onclose leaves the socket in the registry.
HandleClose(s) ==
  /\ Receives("close", s)
  /\ readyState' = [readyState EXCEPT ![s] = StateOfClosed(s)]
  /\ registry' \in {registry, registry \ {s}}
  /\ UNCHANGED heard

\* _handleError tells the user and no more, and an event for a socket that is not
\* registered tells nobody.
HandleNothing ==
  /\ toWorker # <<>>
  /\ Head(toWorker).event = "error" \/ Addressee(Head(toWorker).conn) = {}
  /\ toWorker' = Tail(toWorker)
  /\ UNCHANGED <<workerVars, toHost, gatewayVars>>

-----------------------------------------------------------------------------
(* The gateway.                                                            *)

Notify(event, s) ==
  toWorker' = Append(toWorker, [event |-> event, conn |-> s,
                                n |-> IF event = "message" THEN told[s] + 1 ELSE 0])

Takes(event) ==
  /\ toHost # <<>>
  /\ Head(toHost).event = event
  /\ toHost' = Tail(toHost)
  /\ UNCHANGED <<workerVars, told>>

\* ws.open: it refuses, fails, or asks for a connection.
GatewayOpen ==
  LET s == Head(toHost).conn
  IN  /\ Takes("open")
      /\ \/ /\ connection' = [connection EXCEPT ![s] = "refused"]
            /\ Notify("error", s) \/ UNCHANGED toWorker
            /\ UNCHANGED wsConnections
         \/ /\ connection' = [connection EXCEPT ![s] = "connecting"]
            /\ wsConnections' = wsConnections \cup {s}
            /\ UNCHANGED toWorker
      /\ UNCHANGED lost

\* ws.send: a connection it does not know, or that is not open, gets nothing.
GatewaySend ==
  LET m == Head(toHost)
  IN  /\ Takes("send")
      /\ lost' = IF m.conn \in wsConnections /\ connection[m.conn] = "open"
                   THEN lost ELSE lost \cup {m}
      /\ UNCHANGED <<toWorker, connection, wsConnections>>

\* ws.close: it closes the connection and forgets it.
GatewayClose ==
  LET s == Head(toHost).conn
  IN  /\ Takes("close")
      /\ connection' = IF s \in wsConnections
                         THEN [connection EXCEPT ![s] = "closing"] ELSE connection
      /\ wsConnections' = wsConnections \ {s}
      /\ UNCHANGED <<toWorker, lost>>

\* The messages the remote ends have sent, each by its socket and its number there.
Told == {m \in Sockets \X (1 .. MaxMessages) : m[2] <= told[m[1]]}

\* What happens to the connection, and what its handlers send.
RemoteOpens(s) ==
  /\ connection[s] = "connecting"
  /\ connection' = [connection EXCEPT ![s] = "open"]
  /\ Notify("open", s)
  /\ UNCHANGED <<workerVars, toHost, wsConnections, told, lost>>

RemoteSends(s) ==
  /\ connection[s] = "open"
  /\ Cardinality(Told) < MaxMessages
  /\ told' = [told EXCEPT ![s] = @ + 1]
  /\ Notify("message", s)
  /\ UNCHANGED <<workerVars, toHost, connection, wsConnections, lost>>

RemoteCloses(s) ==
  /\ connection[s] \in {"connecting", "open", "closing"}
  /\ connection' = [connection EXCEPT ![s] = "gone"]
  /\ wsConnections' = wsConnections \ {s}
  /\ Notify("close", s)
  /\ UNCHANGED <<workerVars, toHost, told, lost>>

-----------------------------------------------------------------------------
User(s) == Construct(s) \/ Send(s) \/ SendBlob(s) \/ Close(s)

Dispatcher == \/ \E s \in Sockets : HandleOpen(s) \/ HandleMessage(s) \/ HandleClose(s)
              \/ HandleNothing

Gateway == GatewayOpen \/ GatewaySend \/ GatewayClose

Remote(s) == RemoteOpens(s) \/ RemoteSends(s) \/ RemoteCloses(s)

Next == \/ Dispatcher
        \/ Gateway
        \/ \E s \in Sockets : User(s) \/ BlobRead(s) \/ Remote(s)

\* Both event loops turn and a connection that was closed comes to its end.
\* Nothing obliges the user, or a remote end that was not told to close.
Fairness ==
  /\ WF_vars(Dispatcher)
  /\ WF_vars(Gateway)
  /\ \A s \in Sockets : WF_vars(BlobRead(s))
                     /\ WF_vars(connection[s] = "closing" /\ RemoteCloses(s))

Spec == Init /\ [][Next]_vars /\ Fairness

-----------------------------------------------------------------------------
(* Properties.                                                             *)

\* Every variable has its type, and a socket that expects events is registered.
TypeOK ==
  /\ readyState \in [Sockets -> ReadyStates]
  /\ registry \subseteq Sockets /\ closeCalled \subseteq Sockets
  /\ \A s \in Sockets : readyState[s] \notin {"none", "CLOSED"} => s \in registry
  /\ heard \in [Sockets -> Seq(1 .. MaxMessages)]
  /\ sends \in 0 .. MaxSends
  /\ blobs \in [Sockets -> [BOOLEAN -> 0 .. MaxSends]]
  /\ toHost \in Seq(ToHost) /\ toWorker \in Seq(ToWorker)
  /\ connection \in [Sockets -> Connections]
  /\ wsConnections \subseteq Sockets
  /\ told \in [Sockets -> 0 .. MaxMessages]
  /\ lost \subseteq ToHost

\* Where the events of this kind are that are on their way to socket s.
OnTheWay(event, s) == {k \in DOMAIN toWorker : toWorker[k].event = event /\ toWorker[k].conn = s}

\* The two ends agree, as far as channels let them: a socket that says it is OPEN
\* has a connection the gateway still knows, unless word of its end is on the way -
\* or the user has closed the socket and a late 'open' has overtaken that.
OpenIsConnected ==
  \A s \in Sockets : readyState[s] = "OPEN" =>
    \/ connection[s] = "open" /\ s \in wsConnections
    \/ OnTheWay("close", s) # {}
    \/ s \in closeCalled

\* And a socket that says it is CLOSED has left no connection open at the host.
ClosedLeavesNoConnection ==
  \A s \in Sockets : readyState[s] = "CLOSED" => connection[s] = "gone"

\* Until it is closed a socket hears every message of its remote end, in order and
\* none of another's: none comes before it is OPEN or gets lost on the way.
MessagesHeardInOrder ==
  \A s \in Sockets \ closeCalled :
    /\ \A k \in DOMAIN heard[s] : heard[s][k] = k
    /\ \A k \in OnTheWay("message", s) : toWorker[k].n \notin DOMAIN heard[s]
    /\ \A n \in 1 .. told[s] : \/ n \in DOMAIN heard[s]
                              \/ \E k \in OnTheWay("message", s) : toWorker[k].n = n
    /\ \A j, k \in OnTheWay("message", s) : j < k => toWorker[j].n < toWorker[k].n

\* The sends that need not arrive: send accepted them when close() had been called and
\* a late 'open' had made the socket OPEN again, or they were Blobs that were still
\* being read when it was called.
Excused(m) == m.late \/ (m.overtaken /\ m.data = "converted")

\* What send accepts before close() is called arrives, unless the remote end closes
\* the connection: it overtakes neither the 'open' nor the 'close'.  Only a Blob, which
\* is read first, is overtaken by the 'close' and dropped although it was accepted.
\* What arrives for a buffer or a Blob is the string the op makes of it.
SendsArrive == \A m \in lost : connection[m.conn] = "gone" \/ Excused(m)

\* close() comes to its end, 'close' event and all, unless the gateway has refused
\* the connection: then it knows of nothing to close and never answers.
CloseCompletes ==
  \A s \in Sockets :
    s \in closeCalled ~> readyState[s] = "CLOSED" \/ connection[s] = "refused"

\* DOCUMENTATION.md of close(): "Closes the WebSocket connection."  A socket that
\* is CLOSING does not become OPEN again.
ClosingIsFinal ==
  [][\A s \in Sockets : readyState[s] = "CLOSING" => readyState'[s] # "OPEN"]_vars

-----------------------------------------------------------------------------
(* The inductive invariant.                                                *)

\* The states of a connection that was made.
Made == {"open", "closing", "gone"}

\* wsConnections has the connections that live, and the gateway closes none that the
\* worker has not closed.
ConnectionsAreKnown ==
  \A s \in Sockets :
    /\ s \in wsConnections <=> connection[s] \in {"connecting", "open"}
    /\ connection[s] = "closing" => s \in closeCalled

\* What the worker has posted: the 'open' comes once and before there is a
\* connection, a 'close' after whatever was sent before it.
PostsAreInOrder ==
  \A k \in DOMAIN toHost :
    LET s == toHost[k].conn
    IN  /\ toHost[k].event = "open" =>
             /\ connection[s] = "none" /\ readyState[s] # "none"
             /\ \A j \in DOMAIN toHost :
                  toHost[j].event = "open" /\ toHost[j].conn = s => j = k
        /\ toHost[k].event = "send" /\ ~Excused(toHost[k]) => connection[s] \in {"open", "gone"}
        /\ toHost[k].event = "close" =>
             /\ s \in closeCalled
             /\ \A j \in DOMAIN toHost :
                  j > k /\ toHost[j].event = "send" /\ toHost[j].conn = s =>
                    Excused(toHost[j])

\* What the gateway has posted: the 'open' comes first, the 'close' last.
EventsAreInOrder ==
  \A k \in DOMAIN toWorker :
    LET s == toWorker[k].conn
    IN  /\ connection[s] \in IF toWorker[k].event = "error" THEN {"refused"} ELSE Made
        /\ toWorker[k].event = "open" =>
             /\ readyState[s] \in {"CONNECTING", "CLOSING"}
             /\ \A j \in DOMAIN toWorker :
                  toWorker[j].conn = s => j = k \/ (j > k /\ toWorker[j].event # "open")
        /\ toWorker[k].event = "message" /\ readyState[s] = "CONNECTING" =>
             \E j \in OnTheWay("open", s) : j < k
        /\ toWorker[k].event = "close" =>
             /\ connection[s] = "gone"
             /\ \A j \in DOMAIN toWorker : j > k => toWorker[j].conn # s

\* What a socket says of itself follows from its connection and the events that are
\* on their way.
StatesAgree ==
  \A s \in Sockets :
    /\ readyState[s] = "none" => connection[s] = "none"
    /\ readyState[s] = "OPEN" => connection[s] \in Made
    /\ readyState[s] = "CLOSING" => s \in closeCalled
    /\ readyState[s] = "CLOSED" =>
         connection[s] = "gone" /\ \A k \in DOMAIN toWorker : toWorker[k].conn # s
    /\ connection[s] = "open" /\ readyState[s] = "CONNECTING" => OnTheWay("open", s) # {}
    /\ connection[s] = "gone" => readyState[s] = "CLOSED" \/ OnTheWay("close", s) # {}
    /\ \A late \in BOOLEAN :
         blobs[s][late] <= sends /\ (blobs[s][late] > 0 => connection[s] \in Made)

\* The messages on their way are numbered, those of closed sockets too, and no more
\* are heard than were sent.
MessagesAreNumbered ==
  \A s \in Sockets :
    /\ s \in closeCalled \/ Len(heard[s]) <= told[s]
    /\ \A k \in OnTheWay("message", s) : toWorker[k].n \in 1 .. told[s]
    /\ \A j, k \in OnTheWay("message", s) : j < k => toWorker[j].n < toWorker[k].n

IInv == /\ TypeOK
        /\ ConnectionsAreKnown
        /\ PostsAreInOrder
        /\ EventsAreInOrder
        /\ StatesAgree
        /\ MessagesAreNumbered
        /\ MessagesHeardInOrder
        /\ SendsArrive

=============================================================================
