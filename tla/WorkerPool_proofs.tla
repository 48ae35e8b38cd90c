--------------------------- MODULE WorkerPool_proofs ---------------------------
(***************************************************************************)
(* Proofs about WorkerPool, for any numbers of threads, isolates, scripts  *)
(* and shutdowns.                                                          *)
(***************************************************************************)
EXTENDS WorkerPool, TLAPS

\* There is at least one thread, and threads take turns.
LEMMA ThreadsExist ==
  /\ ThreadCount \in Nat \ {0}
  /\ \A n \in Nat : n % ThreadCount \in Threads
<1>1. ThreadCount \in Nat \ {0}
  BY ConstantsAssumption DEF ThreadCount
<1>2. \A n \in Nat : n % ThreadCount \in 0 .. ThreadCount - 1
  BY <1>1
<1> QED
  BY <1>1, <1>2 DEF Threads

\* What the fields of a message tell.
LEMMA MessageFields ==
  ASSUME NEW m \in Message
  PROVE  /\ m.kind \in {"create", "execute", "destroy", "shutdown"}
         /\ m.kind # "shutdown" => m.isolate \in IsolateIds
         /\ m.kind = "create" => m = Create(m.isolate)
         /\ m.kind = "execute" => m.script \in ScriptIds /\ m = Execute(m.isolate, m.script)
         /\ m.kind = "destroy" => m = Destroy(m.isolate)
         /\ m.kind = "shutdown" => m = Shutdown /\ m.isolate \notin IsolateIds
  BY DEF Message, Create, Execute, Destroy, Shutdown, NoIsolate, IsolateIds

\* The queues, after message m was sent to the threads of T: it comes last, unless
\* the thread has exited.
Sent(T, m) ==
  /\ queue' \in [Threads -> Seq(Message)]
  /\ \A u \in Threads : \A k \in DOMAIN queue[u] :
       k \in DOMAIN queue'[u] /\ queue'[u][k] = queue[u][k]
  /\ \A u \in Threads : \A k \in DOMAIN queue'[u] :
       \/ k \in DOMAIN queue[u]
       \/ /\ u \in T /\ pc[u] # "exited" /\ queue'[u][k] = m
          /\ k = Len(queue[u]) + 1
  /\ \A u \in T : pc[u] # "exited" => \E k \in DOMAIN queue'[u] : queue'[u][k] = m

\* The queues, after thread t has taken its first message.
Taken(t) ==
  /\ queue' \in [Threads -> Seq(Message)]
  /\ \A u \in Threads \ {t} : queue'[u] = queue[u]
  /\ 1 \in DOMAIN queue[t] /\ Head(queue[t]) = queue[t][1]
  /\ Head(queue[t]) \in Message
  /\ \A k \in DOMAIN queue'[t] :
       k \in Nat /\ k > 0 /\ k + 1 \in DOMAIN queue[t] /\ queue'[t][k] = queue[t][k + 1]
  /\ \A k \in DOMAIN queue[t] \ {1} :
       k \in Nat /\ k > 1 /\ k - 1 \in DOMAIN queue'[t] /\ queue'[t][k - 1] = queue[t][k]

\* A send appends its message to the queue of a live thread, and to no other.
LEMMA SendAppends ==
  ASSUME queue \in [Threads -> Seq(Message)],
         NEW t \in Threads, NEW m \in Message, Send(t, m)
  PROVE  Sent({t}, m)
<1> USE DEF Sent
<1>1. CASE pc[t] = "exited"
  BY <1>1 DEF Send
<1>2. CASE pc[t] # "exited"
  <2>1. queue' = [queue EXCEPT ![t] = Append(queue[t], m)]
    BY <1>2 DEF Send
  <2>2. /\ Append(queue[t], m) \in Seq(Message)
        /\ DOMAIN Append(queue[t], m) = 1 .. Len(queue[t]) + 1
        /\ DOMAIN queue[t] = 1 .. Len(queue[t])
        /\ Len(queue[t]) \in Nat
        /\ \A k \in 1 .. Len(queue[t]) : Append(queue[t], m)[k] = queue[t][k]
        /\ Append(queue[t], m)[Len(queue[t]) + 1] = m
    OBVIOUS
  <2>3. \A u \in Threads : queue'[u] = IF u = t THEN Append(queue[t], m) ELSE queue[u]
    BY <2>1
  <2>4. queue' \in [Threads -> Seq(Message)]
    BY <2>1, <2>2
  <2>5. \A u \in Threads \ {t} : queue'[u] = queue[u]
    BY <2>3
  <2>6. /\ DOMAIN queue'[t] = 1 .. Len(queue[t]) + 1
        /\ \A k \in 1 .. Len(queue[t]) : queue'[t][k] = queue[t][k]
        /\ queue'[t][Len(queue[t]) + 1] = m
    BY <2>2, <2>3
  <2>7. \A k \in DOMAIN queue'[t] : k \in DOMAIN queue[t] \/ k = Len(queue[t]) + 1
    BY <2>2, <2>6
  <2>8. /\ \A k \in DOMAIN queue[t] : k \in DOMAIN queue'[t]
        /\ Len(queue[t]) + 1 \in DOMAIN queue'[t]
    BY <2>2, <2>6
  <2> HIDE <2>1, <2>3
  <2> QED
    BY <1>2, <2>2, <2>4, <2>5, <2>6, <2>7, <2>8, ZenonT(30)
<1> QED
  BY <1>1, <1>2

\* A receive takes the first message of one queue.
LEMMA ReceiveTakes ==
  ASSUME queue \in [Threads -> Seq(Message)], NEW t \in Threads, queue[t] # <<>>,
         queue' = [queue EXCEPT ![t] = Tail(@)]
  PROVE  Taken(t)
<1> USE DEF Taken
<1>1. /\ Tail(queue[t]) \in Seq(Message)
      /\ DOMAIN queue[t] = 1 .. Len(queue[t])
      /\ Len(queue[t]) \in Nat /\ Len(queue[t]) > 0
      /\ DOMAIN Tail(queue[t]) = 1 .. Len(queue[t]) - 1
      /\ \A k \in 1 .. Len(queue[t]) - 1 : Tail(queue[t])[k] = queue[t][k + 1]
      /\ Head(queue[t]) = queue[t][1]
      /\ Head(queue[t]) \in Message
  OBVIOUS
<1>2. queue'[t] = Tail(queue[t]) /\ \A u \in Threads \ {t} : queue'[u] = queue[u]
  OBVIOUS
<1>3. queue' \in [Threads -> Seq(Message)]
  BY <1>1
<1> QED
  BY <1>1, <1>2, <1>3

\* Sending a message keeps the order, if what is queued may come before it, and
\* taking one keeps it.
LEMMA SentInOrder ==
  ASSUME queue \in [Threads -> Seq(Message)], QueuesKeepOrder,
         NEW T \in SUBSET Threads, NEW m \in Message, Sent(T, m),
         \A u \in T : \A k \in DOMAIN queue[u] : InOrder(queue[u][k], m)
  PROVE  QueuesKeepOrder'
<1> SUFFICES ASSUME NEW u \in Threads, NEW j \in DOMAIN queue'[u],
                    NEW k \in DOMAIN queue'[u], j < k
             PROVE  InOrder(queue'[u][j], queue'[u][k])
  BY DEF QueuesKeepOrder, InOrder
<1>1. DOMAIN queue[u] = 1 .. Len(queue[u]) /\ Len(queue[u]) \in Nat
  OBVIOUS
<1>2. j \in DOMAIN queue[u] /\ queue'[u][j] = queue[u][j]
  BY <1>1 DEF Sent
<1>3. CASE k \in DOMAIN queue[u]
  <2>1. queue'[u][k] = queue[u][k]
    BY <1>3 DEF Sent
  <2> QED
    BY <1>2, <1>3, <2>1 DEF QueuesKeepOrder
<1>4. CASE k \notin DOMAIN queue[u]
  <2>1. u \in T /\ queue'[u][k] = m
    BY <1>4 DEF Sent
  <2> QED
    BY <1>2, <2>1
<1> QED
  BY <1>3, <1>4

\* Taking the first message of a queue leaves the rest in order.
LEMMA TakenInOrder ==
  ASSUME QueuesKeepOrder, NEW t \in Threads, Taken(t)
  PROVE  QueuesKeepOrder'
<1> SUFFICES ASSUME NEW u \in Threads, NEW j \in DOMAIN queue'[u],
                    NEW k \in DOMAIN queue'[u], j < k
             PROVE  InOrder(queue'[u][j], queue'[u][k])
  BY DEF QueuesKeepOrder, InOrder
<1>1. CASE u = t
  <2>1. /\ j + 1 \in DOMAIN queue[t] /\ queue'[t][j] = queue[t][j + 1]
        /\ k + 1 \in DOMAIN queue[t] /\ queue'[t][k] = queue[t][k + 1]
        /\ j + 1 < k + 1
    BY <1>1 DEF Taken
  <2> QED
    BY <1>1, <2>1 DEF QueuesKeepOrder
<1>2. CASE u # t
  BY <1>2 DEF Taken, QueuesKeepOrder
<1> QED
  BY <1>1, <1>2

\* What waits goes on waiting when another message is sent or taken.
LEMMA SentWaits ==
  ASSUME NEW T, NEW m, Sent(T, m),
         NEW u \in Threads, NEW n, Waiting(u, n), pc'[u] # "exited"
  PROVE  Waiting(u, n)'
BY DEF Sent, Waiting, ToSet

\* Every other message of a live thread still waits after a receive.
LEMMA TakenWaits ==
  ASSUME NEW t \in Threads, Taken(t),
         NEW u \in Threads, NEW n, Waiting(u, n), n # Head(queue[t]), pc'[u] # "exited"
  PROVE  Waiting(u, n)'
<1>1. PICK k \in DOMAIN queue[u] : queue[u][k] = n
  BY DEF Waiting, ToSet
<1>2. CASE u = t
  BY <1>1, <1>2 DEF Taken, Waiting, ToSet
<1>3. CASE u # t
  BY <1>1, <1>3 DEF Taken, Waiting, ToSet
<1> QED
  BY <1>2, <1>3

\* Whom a script that was called is for.
LEMMA CalledScripts ==
  ASSUME TypeOK, CallsAreCounted, NEW x \in ScriptIds, outcome[x] # "none"
  PROVE  x < nextScript /\ target[x] \in IsolateIds /\ creation[target[x]] = "created"
BY DEF TypeOK, CallsAreCounted, ScriptIds

\* What a message in a queue is for.
LEMMA QueuedMessages ==
  ASSUME IInv, NEW t \in Threads, NEW k \in DOMAIN queue[t]
  PROVE  LET m == queue[t][k]
         IN  /\ m \in Message /\ Belongs(t, m)
             /\ m.kind # "shutdown" =>
                  m.isolate \in IsolateIds
                  /\ creation[m.isolate] \in {"pending", "answered", "created"}
<1>1. queue[t][k] \in Message
  BY DEF IInv, TypeOK
<1>2. Belongs(t, queue[t][k])
  BY DEF IInv, MessagesBelong
<1> QED
  BY <1>1, <1>2, MessageFields DEF IInv, Belongs, IsolatesBelong

-----------------------------------------------------------------------------
(* One lemma for each action: it preserves the inductive invariant.        *)

\* Initially nothing is called, queued or executed.
LEMMA InvInit == Init => IInv
<1> SUFFICES ASSUME Init PROVE IInv
  OBVIOUS
<1> USE ConstantsAssumption, ThreadsExist DEF Init, IsolateIds, ScriptIds
<1>1. Known = {} /\ registry \in [Known -> Threads]
  BY DEF Known
<1>2. 0 \in Threads
  BY DEF Threads
<1>3. TypeOK
  BY <1>1, <1>2 DEF TypeOK, Creations, Outcomes, ThreadPcs, BusyPcs, NoScript, NoIsolate
<1>4. CallsAreCounted /\ MessagesBelong /\ QueuesKeepOrder
  BY DEF CallsAreCounted, MessagesBelong, QueuesKeepOrder
<1>5. IsolatesBelong /\ ScriptsBelong
  BY <1>1 DEF IsolatesBelong, ScriptsBelong
<1>6. /\ NoIsolateLeaks /\ NeverNotFound /\ PendingCallsAreHeld
      /\ ScriptsInOrder
  BY DEF NoIsolateLeaks, NeverNotFound, PendingCallsAreHeld, ScriptsInOrder, Answers
<1> QED
  BY <1>3, <1>4, <1>5, <1>6 DEF IInv

\* create_isolate up to its await.
LEMMA CreateIsolateStep == ASSUME IInv, CreateIsolate PROVE IInv'
<1> USE DEF IInv
<1>1. PICK i \in IsolateIds, t \in Threads :
        i = nextIsolateId /\ t = nextThreadIdx % ThreadCount
  <2>1. nextIsolateId \in IsolateIds
    BY ConstantsAssumption DEF CreateIsolate, TypeOK, IsolateIds
  <2>2. nextThreadIdx % ThreadCount \in Threads
    BY ThreadsExist DEF TypeOK
  <2> QED
    BY <2>1, <2>2
<1>2. Create(i) \in Message
  BY <1>1 DEF Message
<1>3. Sent({t}, Create(i))
  BY <1>1, <1>2, SendAppends DEF TypeOK, CreateIsolate
<1>4. /\ i < MaxIsolates /\ nextIsolateId' = i + 1 /\ nextThreadIdx' = i + 1
      /\ i \in Nat /\ creation[i] = "none"
      /\ assigned' \in [IsolateIds -> Threads] /\ creation' \in [IsolateIds -> Creations]
      /\ \A j \in IsolateIds :
           /\ assigned'[j] = IF j = i THEN t ELSE assigned[j]
           /\ creation'[j] = IF j = i THEN IF pc[t] = "exited" THEN "dropped" ELSE "pending"
                                      ELSE creation[j]
      /\ UNCHANGED <<registry, Known, nextScript, target, outcome, shutdowns, events, terminable, pc,
                     running, live, listening>>
  BY <1>1 DEF CreateIsolate, TypeOK, CallsAreCounted, Known, Creations
<1>5. TypeOK'
  <2>1. queue' \in [Threads -> Seq(Message)]
    BY <1>3 DEF Sent
  <2>2. nextIsolateId' \in 0 .. MaxIsolates /\ nextThreadIdx' \in 0 .. MaxIsolates
    BY <1>4, ConstantsAssumption
  <2> QED
    BY <1>4, <2>1, <2>2 DEF TypeOK
<1>6. CallsAreCounted'
  <2>1. \A j \in IsolateIds : creation'[j] = "none" <=> j >= nextIsolateId'
    BY <1>1, <1>4, ConstantsAssumption DEF CallsAreCounted, IsolateIds
  <2>2. \A x \in ScriptIds :
          /\ outcome'[x] = "none" <=> x >= nextScript'
          /\ x < nextScript' =>
               target'[x] \in IsolateIds /\ creation'[target'[x]] = "created"
    BY <1>4 DEF CallsAreCounted
  <2> QED
    BY <1>4, <2>1, <2>2 DEF CallsAreCounted
<1>7. MessagesBelong'
  <2> SUFFICES ASSUME NEW u \in Threads, NEW k \in DOMAIN queue'[u]
               PROVE  Belongs(u, queue[u][k])'
    BY DEF MessagesBelong
  <2>1. CASE k \in DOMAIN queue[u]
    <3>1. queue'[u][k] = queue[u][k]
      BY <2>1, <1>3 DEF Sent
    <3> HIDE DEF IInv
    <3>2. /\ Belongs(u, queue[u][k])
          /\ queue[u][k].kind # "shutdown" => queue[u][k].isolate \in IsolateIds \ {i}
      BY <1>4, <2>1, QueuedMessages
    <3> QED
      BY <1>4, <3>1, <3>2 DEF Belongs
  <2>2. CASE k \notin DOMAIN queue[u]
    <3>1. u = t /\ pc[t] # "exited" /\ queue'[u][k] = Create(i)
      BY <2>2, <1>3 DEF Sent
    <3> QED
      BY <1>1, <1>4, <3>1 DEF Belongs, Create
  <2> QED
    BY <2>1, <2>2
<1>8. QueuesKeepOrder'
  <2> HIDE DEF IInv
  <2>1. ASSUME NEW k \in DOMAIN queue[t] PROVE InOrder(queue[t][k], Create(i))
    BY <1>1, <1>4, QueuedMessages, MessageFields DEF InOrder, Create
  <2>2. queue \in [Threads -> Seq(Message)] /\ QueuesKeepOrder
    BY DEF IInv, TypeOK
  <2> QED
    BY <1>2, <1>3, <2>1, <2>2, SentInOrder
<1>9. IsolatesBelong'
  <2>1. \A j \in IsolateIds : creation[j] # "none" =>
          creation'[j] = creation[j] /\ assigned'[j] = assigned[j]
    BY <1>4
  <2>2. \A u \in Threads : \A j \in live'[u] :
          assigned'[j] = u /\ pc'[u] # "exited" /\ creation'[j] \in {"answered", "created"}
    <3> SUFFICES ASSUME NEW u \in Threads, NEW j \in live[u]
                 PROVE  /\ assigned'[j] = u /\ pc'[u] # "exited"
                        /\ creation'[j] \in {"answered", "created"}
      BY <1>4
    <3>1. j \in IsolateIds
      BY DEF TypeOK
    <3>2. assigned[j] = u /\ pc[u] # "exited" /\ creation[j] \in {"answered", "created"}
      BY DEF IsolatesBelong
    <3> QED
      BY <1>4, <2>1, <3>1, <3>2
  <2>3. \A j \in Known' : registry'[j] = assigned'[j] /\ creation'[j] = "created"
    BY <1>4, <2>1 DEF IsolatesBelong, TypeOK
  <2>4. \A j \in IsolateIds : creation'[j] = "answered" \/ j \in Known' =>
          pc'[assigned'[j]] = "exited" \/ j \in live'[assigned'[j]]
    BY <1>4, <2>1 DEF IsolatesBelong, TypeOK
  <2>5. \A j \in listening' : j \in live'[assigned'[j]]
    BY <1>4, <2>1 DEF IsolatesBelong, TypeOK
  <2>6. \A j \in IsolateIds :
          <<"destroyed", j>> \in events' <=> creation'[j] = "created" /\ j \notin Known'
    BY <1>4, <2>1 DEF IsolatesBelong, TypeOK
  <2> QED
    BY <2>2, <2>3, <2>4, <2>5, <2>6 DEF IsolatesBelong
<1>10. ScriptsBelong'
  <2>1. \A x \in ScriptIds : outcome[x] \in {"running", "lost"} =>
          target[x] \in IsolateIds /\ assigned'[target[x]] = assigned[target[x]]
    BY <1>4, CalledScripts
  <2> HIDE DEF IInv
  <2>2. \A x \in ScriptIds :
          /\ outcome[x] = "running" => running[assigned[target[x]]] = x
          /\ outcome[x] = "lost" => pc[assigned[target[x]]] = "exited"
    BY DEF IInv, ScriptsBelong
  <2>3. \A u \in Threads : running[u] # NoScript =>
          outcome[running[u]] = "running" /\ Busy(u) \in live[u]
    BY DEF IInv, ScriptsBelong
  <2> QED
    BY <1>4, <2>1, <2>2, <2>3 DEF ScriptsBelong, Busy
<1>11. NoIsolateLeaks'
  <2> SUFFICES ASSUME NEW u \in Threads, NEW j \in live[u]
               PROVE  \/ creation'[j] = "answered"
                      \/ j \in Known' /\ registry'[j] = u
                      \/ Waiting(u, Destroy(j))'
    BY <1>4 DEF NoIsolateLeaks, Destroy, Waiting
  <2>1. j \in IsolateIds /\ pc[u] # "exited" /\ creation[j] \in {"answered", "created"}
    BY DEF TypeOK, IsolatesBelong
  <2>2. \/ creation[j] = "answered"
        \/ j \in Known /\ registry[j] = u
        \/ Waiting(u, Destroy(j))
    BY DEF NoIsolateLeaks
  <2> QED
    BY <1>1, <1>3, <1>4, <2>1, <2>2, SentWaits
<1>12. PendingCallsAreHeld'
  <2>1. ASSUME NEW u \in Threads, NEW n, Waiting(u, n) PROVE Waiting(u, n)'
    BY <1>3, <1>4, <2>1, SentWaits DEF Waiting
  <2>2. pc[t] # "exited" => Waiting(t, Create(i))'
    BY <1>1, <1>3, <1>4 DEF Sent, Waiting, ToSet, Create
  <2>3. \A j \in IsolateIds : creation'[j] = "pending" =>
          \E u \in Threads : Waiting(u, Create(j))'
    BY <1>1, <1>4, <2>1, <2>2 DEF PendingCallsAreHeld
  <2>4. \A x \in ScriptIds : outcome'[x] = "queued" =>
          \E u \in Threads : Waiting(u, Execute(target[x], x))'
    BY <1>4, <2>1 DEF PendingCallsAreHeld
  <2> QED
    BY <1>4, <2>3, <2>4 DEF PendingCallsAreHeld, Create, Execute, Waiting
<1>13. ScriptsInOrder' /\ NeverNotFound'
  BY <1>4 DEF ScriptsInOrder, NeverNotFound, Answers
<1> QED
  BY <1>5, <1>6, <1>7, <1>8, <1>9, <1>10, <1>11, <1>12, <1>13

\* create_isolate after its await.
LEMMA CreateReturnsStep ==
  ASSUME IInv, NEW i \in IsolateIds, CreateReturns(i)
  PROVE  IInv'
<1> DEFINE known == Known \cup (IF creation[i] = "answered" THEN {i} ELSE {})
<1>1. /\ creation[i] \in {"answered", "dropped"}
      /\ creation' \in [IsolateIds -> Creations]
      /\ \A j \in IsolateIds :
           creation'[j] = IF j # i THEN creation[j]
                          ELSE IF creation[i] = "answered" THEN "created" ELSE "rejected"
      /\ UNCHANGED <<nextIsolateId, nextThreadIdx, assigned, nextScript, target, outcome,
                     shutdowns, events, terminable, queue, pc, running, live, listening>>
  BY DEF CreateReturns, threadVars, IInv, TypeOK, Creations
<1>2. /\ Known' = known
      /\ registry' \in [Known' -> Threads]
      /\ \A j \in Known' : registry'[j] = assigned[j]
  <2>1. CASE creation[i] = "answered"
    <3>1. registry' = [j \in Known \cup {i} |-> IF j = i THEN assigned[i] ELSE registry[j]]
      BY <2>1 DEF CreateReturns, ThreadOf
    <3>2. Known' = known
      BY <2>1, <3>1 DEF Known
    <3>3. \A j \in Known' : registry'[j] = assigned[j] /\ assigned[j] \in Threads
      BY <2>1, <3>1, <3>2 DEF IInv, TypeOK, IsolatesBelong
    <3> QED
      BY <2>1, <3>1, <3>2, <3>3
  <2>2. CASE creation[i] # "answered"
    BY <2>2 DEF CreateReturns, IInv, TypeOK, IsolatesBelong, Known
  <2> QED
    BY <2>1, <2>2
<1>3. i \notin Known
  BY <1>1 DEF IInv, IsolatesBelong
<1>4. TypeOK'
  BY <1>1, <1>2 DEF IInv, TypeOK
<1>5. CallsAreCounted'
  BY <1>1, CalledScripts DEF IInv, CallsAreCounted
<1>6. MessagesBelong'
  <2> SUFFICES ASSUME NEW u \in Threads, NEW k \in DOMAIN queue[u]
               PROVE  Belongs(u, queue[u][k])'
    BY <1>1 DEF MessagesBelong
  <2>1. /\ Belongs(u, queue[u][k])
        /\ queue[u][k].kind # "shutdown" => queue[u][k].isolate \in IsolateIds
    BY QueuedMessages
  <2> QED
    BY <1>1, <1>2, <2>1 DEF Belongs
<1>7. QueuesKeepOrder'
  BY <1>1 DEF IInv, QueuesKeepOrder, InOrder
<1>8. IsolatesBelong'
  <2>1. \A u \in Threads : \A j \in live[u] :
          assigned[j] = u /\ pc[u] # "exited" /\ creation'[j] \in {"answered", "created"}
    BY <1>1 DEF IInv, IsolatesBelong, TypeOK
  <2>2. \A j \in Known' : registry'[j] = assigned[j] /\ creation'[j] = "created"
    BY <1>1, <1>2 DEF IInv, IsolatesBelong, TypeOK
  <2>3. \A j \in IsolateIds : creation'[j] = "answered" \/ j \in Known' =>
          pc[assigned[j]] = "exited" \/ j \in live[assigned[j]]
    BY <1>1, <1>2 DEF IInv, IsolatesBelong
  <2>4. \A j \in IsolateIds :
          <<"destroyed", j>> \in events <=> creation'[j] = "created" /\ j \notin Known'
    <3> TAKE j \in IsolateIds
    <3>1. <<"destroyed", j>> \in events <=> creation[j] = "created" /\ j \notin Known
      BY DEF IInv, IsolatesBelong
    <3>2. CASE j = i
      BY <1>1, <1>2, <1>3, <3>1, <3>2
    <3>3. CASE j # i
      BY <1>1, <1>2, <3>1, <3>3
    <3> QED
      BY <3>2, <3>3
  <2> QED
    BY <1>1, <2>1, <2>2, <2>3, <2>4 DEF IInv, IsolatesBelong
<1>9. ScriptsBelong'
  BY <1>1 DEF IInv, ScriptsBelong, Busy
<1>10. NoIsolateLeaks'
  <2> SUFFICES ASSUME NEW u \in Threads, NEW j \in live[u]
               PROVE  \/ creation'[j] = "answered"
                      \/ j \in Known' /\ registry'[j] = u
                      \/ Waiting(u, Destroy(j))
    BY <1>1 DEF NoIsolateLeaks, Destroy, Waiting
  <2>1. j \in IsolateIds /\ assigned[j] = u /\ creation[j] \in {"answered", "created"}
    BY DEF IInv, TypeOK, IsolatesBelong
  <2>2. \/ creation[j] = "answered"
        \/ j \in Known
        \/ Waiting(u, Destroy(j))
    BY DEF IInv, NoIsolateLeaks
  <2> QED
    BY <1>1, <1>2, <2>1, <2>2
<1>11. PendingCallsAreHeld'
  BY <1>1 DEF IInv, PendingCallsAreHeld, Waiting, Create, Execute
<1>12. ScriptsInOrder' /\ NeverNotFound'
  BY <1>1 DEF IInv, ScriptsInOrder, NeverNotFound, Answers
<1> QED
  BY <1>4, <1>5, <1>6, <1>7, <1>8, <1>9, <1>10, <1>11, <1>12 DEF IInv

\* execute.
LEMMA ExecuteScriptStep ==
  ASSUME IInv, NEW i \in IsolateIds, ExecuteScript(i)
  PROVE  IInv'
<1>1. PICK x \in ScriptIds, t \in Threads : x = nextScript /\ t = registry[i]
  BY ConstantsAssumption DEF ExecuteScript, IInv, TypeOK, ScriptIds
<1>2. i \in Known /\ assigned[i] = t /\ creation[i] = "created"
  BY <1>1 DEF ExecuteScript, IInv, IsolatesBelong
<1>3. Sent({t}, Execute(i, x))
  <2>1. Execute(i, x) \in Message
    BY DEF Message
  <2> QED
    BY <1>1, <2>1, SendAppends DEF ExecuteScript, IInv, TypeOK
<1>4. /\ nextScript < MaxScripts /\ nextScript' = x + 1 /\ outcome[x] = "none"
      /\ outcome' \in [ScriptIds -> Outcomes]
      /\ target' \in [ScriptIds -> IsolateIds \cup {NoIsolate}]
      /\ \A y \in ScriptIds :
           /\ target'[y] = IF y = x THEN i ELSE target[y]
           /\ outcome'[y] = IF y # x THEN outcome[y]
                            ELSE IF pc[t] = "exited" THEN "lost" ELSE "queued"
      /\ UNCHANGED <<nextIsolateId, nextThreadIdx, assigned, registry, Known, creation,
                     shutdowns, events, terminable, pc, running, live, listening>>
  BY <1>1 DEF ExecuteScript, IInv, TypeOK, CallsAreCounted, Known, Outcomes
<1>5. TypeOK'
  <2>1. queue' \in [Threads -> Seq(Message)]
    BY <1>3 DEF Sent
  <2>2. nextScript' \in 0 .. MaxScripts
    BY <1>1, <1>4, ConstantsAssumption DEF IInv, TypeOK
  <2> QED
    BY <1>4, <2>1, <2>2 DEF IInv, TypeOK
<1>6. CallsAreCounted'
  <2>1. \A y \in ScriptIds : outcome'[y] = "none" <=> y >= nextScript'
    BY <1>1, <1>4, ConstantsAssumption DEF IInv, CallsAreCounted, ScriptIds
  <2>2. \A y \in ScriptIds : y < nextScript' =>
          target'[y] \in IsolateIds /\ creation[target'[y]] = "created"
    BY <1>1, <1>2, <1>4, ConstantsAssumption DEF IInv, CallsAreCounted, ScriptIds
  <2> QED
    BY <1>4, <2>1, <2>2 DEF IInv, CallsAreCounted
<1>7. MessagesBelong'
  <2> SUFFICES ASSUME NEW u \in Threads, NEW k \in DOMAIN queue'[u]
               PROVE  Belongs(u, queue[u][k])'
    BY DEF MessagesBelong
  <2>1. CASE k \in DOMAIN queue[u]
    <3>1. queue'[u][k] = queue[u][k]
      BY <2>1, <1>3 DEF Sent
    <3>2. /\ Belongs(u, queue[u][k])
          /\ queue[u][k].kind = "execute" => queue[u][k].script \in ScriptIds \ {x}
      BY <1>4, <2>1, QueuedMessages, MessageFields DEF Belongs
    <3> QED
      BY <1>4, <3>1, <3>2 DEF Belongs
  <2>2. CASE k \notin DOMAIN queue[u]
    <3>1. u = t /\ pc[t] # "exited" /\ queue'[u][k] = Execute(i, x)
      BY <2>2, <1>3 DEF Sent
    <3>2. i \in live[t]
      BY <1>2, <3>1 DEF IInv, IsolatesBelong
    <3> QED
      BY <1>2, <1>4, <3>1, <3>2 DEF Belongs, Execute
  <2> QED
    BY <2>1, <2>2
<1>8. QueuesKeepOrder'
  <2>1. ASSUME NEW k \in DOMAIN queue[t] PROVE InOrder(queue[t][k], Execute(i, x))
    <3>1. queue[t][k] \in Message /\ Belongs(t, queue[t][k])
      BY QueuedMessages
    <3>2. queue[t][k].isolate = i => queue[t][k].kind = "execute"
      BY <1>2, <3>1, MessageFields DEF Belongs
    <3>3. queue[t][k].kind = "execute" => queue[t][k].script < x
      BY <1>1, <3>1, MessageFields, CalledScripts DEF Belongs, IInv
    <3> QED
      BY <3>2, <3>3 DEF InOrder, Execute
  <2>2. queue \in [Threads -> Seq(Message)] /\ QueuesKeepOrder
    BY DEF IInv, TypeOK
  <2>3. Execute(i, x) \in Message
    BY <1>1 DEF Message
  <2> QED
    BY <1>3, <2>1, <2>2, <2>3, SentInOrder
<1>9. IsolatesBelong'
  BY <1>4 DEF IInv, IsolatesBelong
<1>10. ScriptsBelong'
  <2>1. \A u \in Threads : running[u] # NoScript => running[u] \in ScriptIds \ {x}
    BY <1>4 DEF IInv, TypeOK, ScriptsBelong
  <2>2. \A u \in Threads : running'[u] # NoScript =>
          outcome'[running'[u]] = "running" /\ target'[running'[u]] \in live'[u]
    BY <1>4, <2>1 DEF IInv, ScriptsBelong, Busy
  <2>3. \A y \in ScriptIds :
          /\ outcome'[y] = "running" => running'[assigned'[target'[y]]] = y
          /\ outcome'[y] = "lost" => pc'[assigned'[target'[y]]] = "exited"
    BY <1>2, <1>4 DEF IInv, ScriptsBelong
  <2> QED
    BY <2>2, <2>3 DEF ScriptsBelong, Busy
<1>11. NoIsolateLeaks'
  <2> SUFFICES ASSUME NEW u \in Threads, NEW j \in live[u]
               PROVE  \/ creation[j] = "answered"
                      \/ j \in Known /\ registry[j] = u
                      \/ Waiting(u, Destroy(j))'
    BY <1>4 DEF NoIsolateLeaks, Destroy, Waiting
  <2>1. \/ creation[j] = "answered"
        \/ j \in Known /\ registry[j] = u
        \/ Waiting(u, Destroy(j))
    BY DEF IInv, NoIsolateLeaks
  <2>2. pc'[u] # "exited"
    BY <1>4 DEF IInv, IsolatesBelong
  <2> QED
    BY <1>3, <2>1, <2>2, SentWaits
<1>12. PendingCallsAreHeld'
  <2>1. ASSUME NEW u \in Threads, NEW n, Waiting(u, n) PROVE Waiting(u, n)'
    BY <1>3, <1>4, <2>1, SentWaits DEF Waiting
  <2>2. pc[t] # "exited" => Waiting(t, Execute(i, x))'
    BY <1>1, <1>3, <1>4 DEF Sent, Waiting, ToSet, Execute
  <2>3. \A j \in IsolateIds : creation[j] = "pending" =>
          \E u \in Threads : Waiting(u, Create(j))'
    BY <2>1 DEF IInv, PendingCallsAreHeld
  <2>4. \A y \in ScriptIds : outcome'[y] = "queued" =>
          \E u \in Threads : Waiting(u, Execute(target[y], y))'
    BY <1>4, <2>1, <2>2 DEF IInv, PendingCallsAreHeld
  <2>5. \A y \in ScriptIds : outcome'[y] = "running" => \E u \in Threads : running'[u] = y
    BY <1>4 DEF IInv, PendingCallsAreHeld
  <2> QED
    BY <1>4, <2>3, <2>4, <2>5 DEF PendingCallsAreHeld, Create, Execute, Waiting
<1>13. NeverNotFound'
  BY <1>4 DEF IInv, NeverNotFound
<1>14. ScriptsInOrder'
  <2> SUFFICES ASSUME NEW y \in ScriptIds, NEW z \in ScriptIds,
                      y < z, z < nextScript', target'[y] = target'[z]
               PROVE  /\ outcome'[z] \in {"running"} \cup Answers => outcome'[y] \in Answers
                      /\ outcome'[y] = "lost" => outcome'[z] = "lost"
    BY DEF ScriptsInOrder, Answers
  <2>1. y # x /\ (z = x \/ z < nextScript)
    BY <1>1, <1>4 DEF ScriptIds
  <2>2. CASE z = x
    <3>1. target[y] = i
      BY <1>4, <2>1, <2>2
    <3>2. outcome[y] = "lost" => pc[t] = "exited"
      BY <1>2, <3>1 DEF IInv, ScriptsBelong
    <3> QED
      BY <1>4, <2>1, <2>2, <3>2 DEF Answers
  <2>3. CASE z # x
    BY <1>4, <2>1, <2>3 DEF IInv, ScriptsInOrder
  <2> QED
    BY <2>2, <2>3
<1> QED
  BY <1>5, <1>6, <1>7, <1>8, <1>9, <1>10, <1>11, <1>12, <1>13, <1>14 DEF IInv

\* destroy_isolate.
LEMMA DestroyIsolateStep ==
  ASSUME IInv, NEW i \in IsolateIds, DestroyIsolate(i)
  PROVE  IInv'
<1>1. PICK t \in Threads : t = registry[i]
  BY DEF DestroyIsolate, IInv, TypeOK
<1>2. i \in Known /\ assigned[i] = t /\ creation[i] = "created"
  BY <1>1 DEF DestroyIsolate, IInv, IsolatesBelong
<1>3. Sent({t}, Destroy(i))
  <2>1. Destroy(i) \in Message
    BY DEF Message
  <2> QED
    BY <1>1, <2>1, SendAppends DEF DestroyIsolate, TellToDestroy, IInv, TypeOK
<1>4. /\ Known' = Known \ {i}
      /\ registry' \in [Known' -> Threads]
      /\ \A j \in Known' : registry'[j] = registry[j]
      /\ events' = events \cup {<<"destroyed", i>>}
      /\ UNCHANGED <<nextIsolateId, nextThreadIdx, assigned, creation, nextScript, target,
                     outcome, shutdowns, terminable, pc, running, live, listening>>
  BY DEF DestroyIsolate, Forget, IInv, TypeOK, Known
<1>5. TypeOK'
  <2>1. queue' \in [Threads -> Seq(Message)]
    BY <1>3 DEF Sent
  <2> QED
    BY <1>4, <2>1 DEF IInv, TypeOK
<1>6. CallsAreCounted'
  BY <1>4 DEF IInv, CallsAreCounted
<1>7. MessagesBelong'
  <2> SUFFICES ASSUME NEW u \in Threads, NEW k \in DOMAIN queue'[u]
               PROVE  Belongs(u, queue[u][k])'
    BY DEF MessagesBelong
  <2>1. CASE k \in DOMAIN queue[u]
    <3>1. queue'[u][k] = queue[u][k] /\ Belongs(u, queue[u][k])
      BY <2>1, <1>3, QueuedMessages DEF Sent
    <3> QED
      BY <1>4, <3>1 DEF Belongs
  <2>2. CASE k \notin DOMAIN queue[u]
    <3>1. u = t /\ pc[t] # "exited" /\ queue'[u][k] = Destroy(i)
      BY <2>2, <1>3 DEF Sent
    <3> QED
      BY <1>2, <1>4, <3>1 DEF Belongs, Destroy
  <2> QED
    BY <2>1, <2>2
<1>8. QueuesKeepOrder'
  <2>1. ASSUME NEW k \in DOMAIN queue[t] PROVE InOrder(queue[t][k], Destroy(i))
    <3>1. queue[t][k] \in Message /\ Belongs(t, queue[t][k])
      BY QueuedMessages
    <3>2. queue[t][k].isolate = i => queue[t][k].kind = "execute"
      BY <1>2, <3>1, MessageFields DEF Belongs
    <3> QED
      BY <3>2 DEF InOrder, Destroy
  <2>2. queue \in [Threads -> Seq(Message)] /\ QueuesKeepOrder /\ Destroy(i) \in Message
    BY DEF IInv, TypeOK, Message
  <2> QED
    BY <1>3, <2>1, <2>2, SentInOrder
<1>9. IsolatesBelong'
  <2>1. \A j \in IsolateIds :
          <<"destroyed", j>> \in events' <=> creation[j] = "created" /\ j \notin Known'
    BY <1>2, <1>4 DEF IInv, IsolatesBelong
  <2> QED
    BY <1>4, <2>1 DEF IInv, IsolatesBelong
<1>10. ScriptsBelong'
  BY <1>4 DEF IInv, ScriptsBelong, Busy
<1>11. NoIsolateLeaks'
  <2> SUFFICES ASSUME NEW u \in Threads, NEW j \in live[u]
               PROVE  \/ creation[j] = "answered"
                      \/ j \in Known' /\ registry'[j] = u
                      \/ Waiting(u, Destroy(j))'
    BY <1>4 DEF NoIsolateLeaks, Destroy, Waiting
  <2>1. \/ creation[j] = "answered"
        \/ j \in Known /\ registry[j] = u
        \/ Waiting(u, Destroy(j))
    BY DEF IInv, NoIsolateLeaks
  <2>2. pc[u] # "exited" /\ pc'[u] # "exited" /\ assigned[j] = u
    BY <1>4 DEF IInv, IsolatesBelong
  <2>3. CASE j = i
    BY <1>1, <1>2, <1>3, <1>4, <2>2, <2>3 DEF Sent, Waiting, ToSet, Destroy
  <2>4. CASE j # i
    BY <1>3, <1>4, <2>1, <2>2, <2>4, SentWaits
  <2> QED
    BY <2>3, <2>4
<1>12. PendingCallsAreHeld'
  <2>1. ASSUME NEW u \in Threads, NEW n, Waiting(u, n) PROVE Waiting(u, n)'
    BY <1>3, <1>4, <2>1, SentWaits DEF Waiting
  <2> QED
    BY <1>4, <2>1 DEF IInv, PendingCallsAreHeld, Create, Execute
<1>13. ScriptsInOrder' /\ NeverNotFound'
  BY <1>4 DEF IInv, ScriptsInOrder, NeverNotFound, Answers
<1> QED
  BY <1>5, <1>6, <1>7, <1>8, <1>9, <1>10, <1>11, <1>12, <1>13 DEF IInv

\* shutdown.
LEMMA ShutdownPoolStep == ASSUME IInv, ShutdownPool PROVE IInv'
<1>1. Sent(Threads, Shutdown)
  <2>1. Shutdown \in Message
    BY DEF Message
  <2>2. ASSUME NEW u \in Threads
        PROVE  /\ Append(queue[u], Shutdown) \in Seq(Message)
               /\ DOMAIN Append(queue[u], Shutdown) = 1 .. Len(queue[u]) + 1
               /\ DOMAIN queue[u] = 1 .. Len(queue[u])
               /\ Len(queue[u]) \in Nat
               /\ \A k \in 1 .. Len(queue[u]) : Append(queue[u], Shutdown)[k] = queue[u][k]
               /\ Append(queue[u], Shutdown)[Len(queue[u]) + 1] = Shutdown
    BY <2>1 DEF IInv, TypeOK
  <2>3. \A u \in Threads :
          queue'[u] = IF pc[u] = "exited" THEN queue[u] ELSE Append(queue[u], Shutdown)
    BY DEF ShutdownPool, ToldToShutDown
  <2>4. queue' \in [Threads -> Seq(Message)]
    BY <2>2 DEF ShutdownPool, ToldToShutDown, IInv, TypeOK
  <2>5. ASSUME NEW u \in Threads
        PROVE  /\ \A k \in DOMAIN queue[u] :
                    k \in DOMAIN queue'[u] /\ queue'[u][k] = queue[u][k]
               /\ \A k \in DOMAIN queue'[u] :
                    \/ k \in DOMAIN queue[u]
                    \/ pc[u] # "exited" /\ queue'[u][k] = Shutdown /\ k = Len(queue[u]) + 1
               /\ pc[u] # "exited" => \E k \in DOMAIN queue'[u] : queue'[u][k] = Shutdown
    <3>1. CASE pc[u] = "exited"
      BY <2>3, <3>1
    <3>2. CASE pc[u] # "exited"
      <4>1. queue'[u] = Append(queue[u], Shutdown)
        BY <2>3, <3>2
      <4>2. Len(queue[u]) + 1 \in DOMAIN queue'[u]
        BY <2>2, <4>1
      <4> QED
        BY <2>2, <3>2, <4>1, <4>2
    <3> QED
      BY <3>1, <3>2
  <2> QED
    BY <2>4, <2>5 DEF Sent
<1>2. /\ shutdowns < MaxShutdowns /\ shutdowns' = shutdowns + 1
      /\ terminable' \subseteq terminable
      /\ UNCHANGED <<nextIsolateId, nextThreadIdx, assigned, registry, Known, creation,
                     nextScript, target, outcome, events, pc, running, live, listening>>
  BY DEF ShutdownPool, Known
<1>3. TypeOK'
  <2>1. queue' \in [Threads -> Seq(Message)]
    BY <1>1 DEF Sent
  <2>2. shutdowns' \in 0 .. MaxShutdowns
    BY <1>2, ConstantsAssumption DEF IInv, TypeOK
  <2> QED
    BY <1>2, <2>1, <2>2 DEF IInv, TypeOK
<1>4. CallsAreCounted'
  BY <1>2 DEF IInv, CallsAreCounted
<1>5. MessagesBelong'
  <2> SUFFICES ASSUME NEW u \in Threads, NEW k \in DOMAIN queue'[u]
               PROVE  Belongs(u, queue[u][k])'
    BY DEF MessagesBelong
  <2>1. CASE k \in DOMAIN queue[u]
    <3>1. queue'[u][k] = queue[u][k] /\ Belongs(u, queue[u][k])
      BY <2>1, <1>1, QueuedMessages DEF Sent
    <3> QED
      BY <1>2, <3>1 DEF Belongs
  <2>2. CASE k \notin DOMAIN queue[u]
    <3>1. pc[u] # "exited" /\ queue'[u][k] = Shutdown
      BY <2>2, <1>1 DEF Sent
    <3> QED
      BY <1>2, <3>1 DEF Belongs, Shutdown
  <2> QED
    BY <2>1, <2>2
<1>6. QueuesKeepOrder'
  <2>1. \A u \in Threads : \A k \in DOMAIN queue[u] : InOrder(queue[u][k], Shutdown)
    BY DEF InOrder, Shutdown
  <2>2. queue \in [Threads -> Seq(Message)] /\ QueuesKeepOrder /\ Shutdown \in Message
    BY DEF IInv, TypeOK, Message
  <2> QED
    BY <1>1, <2>1, <2>2, SentInOrder
<1>7. IsolatesBelong' /\ ScriptsBelong'
  BY <1>2 DEF IInv, IsolatesBelong, ScriptsBelong, Busy
<1>8. ASSUME NEW u \in Threads, NEW n, Waiting(u, n) PROVE Waiting(u, n)'
  BY <1>1, <1>2, <1>8, SentWaits DEF Waiting
<1>9. NoIsolateLeaks'
  BY <1>2, <1>8 DEF IInv, NoIsolateLeaks, Destroy
<1>10. PendingCallsAreHeld'
  BY <1>2, <1>8 DEF IInv, PendingCallsAreHeld, Create, Execute
<1>11. ScriptsInOrder' /\ NeverNotFound'
  BY <1>2 DEF IInv, ScriptsInOrder, NeverNotFound, Answers
<1> QED
  BY <1>3, <1>4, <1>5, <1>6, <1>7, <1>9, <1>10, <1>11 DEF IInv

\* What is left in the queues when thread t has taken a message was there before, and
\* in the queue of t after the message it took.
LEMMA TakenMessages ==
  ASSUME IInv, NEW t \in Threads, Taken(t), NEW u \in Threads, NEW k \in DOMAIN queue'[u]
  PROVE  \E j \in DOMAIN queue[u] :
           /\ queue'[u][k] = queue[u][j]
           /\ u = t => InOrder(Head(queue[t]), queue[u][j])
<1>1. CASE u = t
  <2>1. k + 1 \in DOMAIN queue[t] /\ queue'[t][k] = queue[t][k + 1] /\ 1 < k + 1
        /\ 1 \in DOMAIN queue[t] /\ Head(queue[t]) = queue[t][1]
    BY <1>1 DEF Taken
  <2>2. InOrder(queue[t][1], queue[t][k + 1])
    BY <2>1 DEF IInv, QueuesKeepOrder
  <2> QED
    BY <1>1, <2>1, <2>2
<1>2. CASE u # t
  BY <1>2 DEF Taken
<1> QED
  BY <1>1, <1>2

\* A thread at its queue executes nothing.
LEMMA ReceiverIsFree ==
  ASSUME IInv, NEW t \in Threads, pc[t] = "recv"
  PROVE  running[t] = NoScript
BY DEF IInv, TypeOK, BusyPcs

\* The thread builds an isolate.
LEMMA ReceiveCreateStep ==
  ASSUME IInv, NEW t \in Threads, ReceiveCreate(t)
  PROVE  IInv'
<1>1. Taken(t) /\ pc[t] = "recv" /\ Head(queue[t]).kind = "create"
  BY ReceiveTakes DEF ReceiveCreate, Receives, IInv, TypeOK
<1>2. PICK i \in IsolateIds : i = Head(queue[t]).isolate /\ Head(queue[t]) = Create(i)
  BY <1>1, MessageFields DEF Taken
<1>3. Belongs(t, Create(i)) /\ creation[i] = "pending" /\ assigned[i] = t
  BY <1>1, <1>2 DEF Taken, IInv, MessagesBelong, Belongs, Create
<1>4. /\ live' \in [Threads -> SUBSET IsolateIds]
      /\ creation' \in [IsolateIds -> Creations]
      /\ \A u \in Threads : live'[u] = IF u = t THEN live[t] \cup {i} ELSE live[u]
      /\ \A j \in IsolateIds : creation'[j] = IF j = i THEN "answered" ELSE creation[j]
      /\ listening' = listening \cup {i}
      /\ UNCHANGED <<nextIsolateId, nextThreadIdx, assigned, registry, Known, nextScript,
                     target, outcome, shutdowns, events, terminable, pc, running>>
  BY <1>2 DEF ReceiveCreate, poolVars, IInv, TypeOK, Known, Creations
<1>5. i \notin Known
  BY <1>3 DEF IInv, IsolatesBelong
<1>6. TypeOK'
  <2>1. queue' \in [Threads -> Seq(Message)]
    BY <1>1 DEF Taken
  <2> QED
    BY <1>4, <2>1 DEF IInv, TypeOK
<1>7. CallsAreCounted'
  BY <1>3, <1>4, CalledScripts DEF IInv, CallsAreCounted
<1>8. MessagesBelong'
  <2> SUFFICES ASSUME NEW u \in Threads, NEW k \in DOMAIN queue'[u]
               PROVE  Belongs(u, queue[u][k])'
    BY DEF MessagesBelong
  <2>1. PICK j \in DOMAIN queue[u] :
          /\ queue'[u][k] = queue[u][j]
          /\ u = t => InOrder(Head(queue[t]), queue[u][j])
    BY <1>1, TakenMessages
  <2>2. /\ Belongs(u, queue[u][j])
        /\ queue[u][j].kind # "shutdown" => queue[u][j].isolate \in IsolateIds
    BY QueuedMessages
  <2>3. queue[u][j].kind # "shutdown" => queue[u][j].isolate # i
    BY <1>2, <1>3, <2>1, <2>2 DEF InOrder, Belongs, Create
  <2> QED
    BY <1>4, <2>1, <2>2, <2>3 DEF Belongs
<1>9. QueuesKeepOrder'
  BY <1>1, TakenInOrder DEF IInv
<1>10. IsolatesBelong'
  <2>1. \A u \in Threads : \A j \in live'[u] :
          assigned[j] = u /\ pc[u] # "exited" /\ creation'[j] \in {"answered", "created"}
    BY <1>1, <1>3, <1>4 DEF IInv, IsolatesBelong, TypeOK
  <2>2. \A j \in Known : registry[j] = assigned[j] /\ creation'[j] = "created"
    BY <1>4, <1>5 DEF IInv, IsolatesBelong, TypeOK
  <2>3. \A j \in IsolateIds : creation'[j] = "answered" \/ j \in Known =>
          pc[assigned[j]] = "exited" \/ j \in live'[assigned[j]]
    <3> SUFFICES ASSUME NEW j \in IsolateIds, creation'[j] = "answered" \/ j \in Known
                 PROVE  pc[assigned[j]] = "exited" \/ j \in live'[assigned[j]]
      OBVIOUS
    <3>1. \/ j = i
          \/ pc[assigned[j]] = "exited"
          \/ j \in live[assigned[j]]
      BY <1>4 DEF IInv, IsolatesBelong
    <3>2. assigned[j] \in Threads
      BY DEF IInv, TypeOK
    <3> QED
      BY <1>3, <1>4, <3>1, <3>2
  <2>4. \A j \in listening' : j \in live'[assigned[j]]
    <3> SUFFICES ASSUME NEW j \in listening' PROVE j \in live'[assigned[j]]
      OBVIOUS
    <3>1. j \in IsolateIds /\ assigned[j] \in Threads /\ (j = i \/ j \in live[assigned[j]])
      BY <1>4 DEF IInv, IsolatesBelong, TypeOK
    <3> QED
      BY <1>3, <1>4, <3>1
  <2>5. \A j \in IsolateIds :
          <<"destroyed", j>> \in events <=> creation'[j] = "created" /\ j \notin Known
    <3> TAKE j \in IsolateIds
    <3>1. <<"destroyed", j>> \in events <=> creation[j] = "created" /\ j \notin Known
      BY DEF IInv, IsolatesBelong
    <3> QED
      BY <1>3, <1>4, <3>1
  <2> QED
    BY <1>4, <2>1, <2>2, <2>3, <2>4, <2>5 DEF IsolatesBelong
<1>11. ScriptsBelong'
  BY <1>4 DEF IInv, ScriptsBelong, Busy
<1>12. ASSUME NEW u \in Threads, NEW n, Waiting(u, n), n # Create(i) PROVE Waiting(u, n)'
  BY <1>1, <1>2, <1>4, <1>12, TakenWaits DEF Waiting
<1>13. NoIsolateLeaks'
  <2> SUFFICES ASSUME NEW u \in Threads, NEW j \in live'[u], creation'[j] # "answered"
               PROVE  \/ j \in Known /\ registry[j] = u
                      \/ Waiting(u, Destroy(j))'
    BY <1>4 DEF NoIsolateLeaks, Destroy, Waiting
  <2>1. j \in live[u] /\ creation[j] # "answered"
    BY <1>4 DEF IInv, TypeOK
  <2>2. Destroy(j) # Create(i)
    BY DEF Destroy, Create
  <2> QED
    BY <1>12, <2>1, <2>2 DEF IInv, NoIsolateLeaks
<1>14. PendingCallsAreHeld'
  <2>1. \A j \in IsolateIds : creation'[j] = "pending" =>
          \E u \in Threads : Waiting(u, Create(j))'
    <3> SUFFICES ASSUME NEW j \in IsolateIds, creation'[j] = "pending"
                 PROVE  \E u \in Threads : Waiting(u, Create(j))'
      OBVIOUS
    <3>1. Create(j) # Create(i) /\ creation[j] = "pending"
      BY <1>4 DEF Create
    <3> QED
      BY <1>12, <3>1 DEF IInv, PendingCallsAreHeld
  <2>2. \A x \in ScriptIds : outcome[x] = "queued" =>
          \E u \in Threads : Waiting(u, Execute(target[x], x))'
    <3>1. \A x \in ScriptIds : Execute(target[x], x) # Create(i)
      BY DEF Execute, Create
    <3> QED
      BY <1>4, <1>12, <3>1 DEF IInv, PendingCallsAreHeld
  <2> QED
    BY <1>4, <2>1, <2>2 DEF IInv, PendingCallsAreHeld, Create, Execute, Waiting
<1>15. ScriptsInOrder' /\ NeverNotFound'
  BY <1>4 DEF IInv, ScriptsInOrder, NeverNotFound, Answers
<1> QED
  BY <1>6, <1>7, <1>8, <1>9, <1>10, <1>11, <1>13, <1>14, <1>15 DEF IInv

\* The thread begins a script.
LEMMA ReceiveExecuteStep ==
  ASSUME IInv, NEW t \in Threads, ReceiveExecute(t)
  PROVE  IInv'
<1>1. Taken(t) /\ pc[t] = "recv" /\ Head(queue[t]).kind = "execute"
  BY ReceiveTakes DEF ReceiveExecute, Receives, IInv, TypeOK
<1>2. PICK i \in IsolateIds, x \in ScriptIds : Head(queue[t]) = Execute(i, x)
  BY <1>1, MessageFields DEF Taken
<1>3. /\ Belongs(t, Execute(i, x))
      /\ outcome[x] = "queued" /\ target[x] = i /\ i \in live[t] /\ assigned[i] = t
  BY <1>1, <1>2 DEF Taken, IInv, MessagesBelong, Belongs, Execute
<1>4. running[t] = NoScript /\ x # NoScript
  BY <1>1, ReceiverIsFree DEF NoScript, ScriptIds
<1>5. /\ pc' = [pc EXCEPT ![t] = "script"]
      /\ running' = [running EXCEPT ![t] = x]
      /\ outcome' = [outcome EXCEPT ![x] = "running"]
      /\ UNCHANGED <<nextIsolateId, nextThreadIdx, assigned, registry, Known, nextScript,
                     target, creation, shutdowns, events, terminable, live, listening>>
  BY <1>2, <1>3 DEF ReceiveExecute, poolVars, Known, Execute
<1>6. /\ pc' \in [Threads -> ThreadPcs]
      /\ running' \in [Threads -> ScriptIds \cup {NoScript}]
      /\ outcome' \in [ScriptIds -> Outcomes]
      /\ \A u \in Threads :
           /\ pc'[u] = IF u = t THEN "script" ELSE pc[u]
           /\ running'[u] = IF u = t THEN x ELSE running[u]
      /\ \A y \in ScriptIds : outcome'[y] = IF y = x THEN "running" ELSE outcome[y]
  BY <1>5 DEF IInv, TypeOK, ThreadPcs, BusyPcs, Outcomes
<1>7. TypeOK'
  <2>1. queue' \in [Threads -> Seq(Message)]
    BY <1>1 DEF Taken
  <2>2. \A u \in Threads : (pc'[u] \in BusyPcs) <=> (running'[u] # NoScript)
    BY <1>4, <1>6 DEF IInv, TypeOK, BusyPcs
  <2> HIDE <1>5
  <2> QED
    BY <1>5, <1>6, <2>1, <2>2 DEF IInv, TypeOK
<1>8. CallsAreCounted'
  BY <1>3, <1>5, <1>6 DEF IInv, CallsAreCounted
<1>9. MessagesBelong'
  <2> SUFFICES ASSUME NEW u \in Threads, NEW k \in DOMAIN queue'[u]
               PROVE  Belongs(u, queue[u][k])'
    BY DEF MessagesBelong
  <2>1. PICK j \in DOMAIN queue[u] :
          /\ queue'[u][k] = queue[u][j]
          /\ u = t => InOrder(Head(queue[t]), queue[u][j])
    BY <1>1, TakenMessages
  <2>2. /\ Belongs(u, queue[u][j])
        /\ queue[u][j].kind = "execute" => queue[u][j].script \in ScriptIds
    BY QueuedMessages, MessageFields
  <2>3. queue[u][j].kind = "execute" => queue[u][j].script # x
    BY <1>2, <1>3, <2>1, <2>2 DEF InOrder, Belongs, Execute, ScriptIds
  <2>4. pc'[u] # "exited"
    BY <1>6, <2>2 DEF Belongs
  <2> QED
    BY <1>5, <1>6, <2>1, <2>2, <2>3, <2>4 DEF Belongs
<1>10. QueuesKeepOrder'
  BY <1>1, TakenInOrder DEF IInv
<1>11. IsolatesBelong'
  BY <1>1, <1>5, <1>6 DEF IInv, IsolatesBelong, TypeOK
<1>12. ScriptsBelong'
  <2>1. \A u \in Threads : running'[u] # NoScript =>
          outcome'[running'[u]] = "running" /\ target[running'[u]] \in live[u]
    BY <1>3, <1>6 DEF IInv, ScriptsBelong, Busy, TypeOK
  <2>2. \A y \in ScriptIds : outcome'[y] = "running" => running'[assigned[target[y]]] = y
    <3> SUFFICES ASSUME NEW y \in ScriptIds, outcome'[y] = "running"
                 PROVE  running'[assigned[target[y]]] = y
      OBVIOUS
    <3>1. CASE y = x
      BY <1>3, <1>6, <3>1
    <3>2. CASE y # x
      <4>1. outcome[y] = "running" /\ running[assigned[target[y]]] = y
        BY <1>6, <3>2 DEF IInv, ScriptsBelong
      <4>2. target[y] \in IsolateIds /\ assigned[target[y]] \in Threads
        BY <4>1, CalledScripts DEF IInv, TypeOK
      <4>3. y # NoScript
        BY DEF NoScript, ScriptIds
      <4> QED
        BY <1>4, <1>6, <4>1, <4>2, <4>3
    <3> QED
      BY <3>1, <3>2
  <2>3. \A y \in ScriptIds : outcome'[y] = "lost" => pc'[assigned[target[y]]] = "exited"
    <3> SUFFICES ASSUME NEW y \in ScriptIds, outcome'[y] = "lost"
                 PROVE  pc'[assigned[target[y]]] = "exited"
      OBVIOUS
    <3>1. outcome[y] = "lost" /\ pc[assigned[target[y]]] = "exited"
      BY <1>6 DEF IInv, ScriptsBelong
    <3>2. assigned[target[y]] \in Threads
      BY <3>1, CalledScripts DEF IInv, TypeOK
    <3> QED
      BY <1>1, <1>6, <3>1, <3>2
  <2> QED
    BY <1>5, <2>1, <2>2, <2>3 DEF ScriptsBelong, Busy
<1>13. ASSUME NEW u \in Threads, NEW n, Waiting(u, n), n # Execute(i, x) PROVE Waiting(u, n)'
  <2>1. pc'[u] # "exited"
    BY <1>6, <1>13 DEF Waiting
  <2> QED
    BY <1>1, <1>2, <1>13, <2>1, TakenWaits
<1>14. NoIsolateLeaks'
  <2>1. \A j \in IsolateIds : Destroy(j) # Execute(i, x)
    BY DEF Destroy, Execute
  <2> QED
    BY <1>5, <1>13, <2>1 DEF IInv, NoIsolateLeaks, Destroy, TypeOK
<1>15. PendingCallsAreHeld'
  <2>1. \A j \in IsolateIds : creation[j] = "pending" =>
          \E u \in Threads : Waiting(u, Create(j))'
    <3>1. \A j \in IsolateIds : Create(j) # Execute(i, x)
      BY DEF Execute, Create
    <3> QED
      BY <1>13, <3>1 DEF IInv, PendingCallsAreHeld
  <2>2. \A y \in ScriptIds : outcome'[y] = "queued" =>
          \E u \in Threads : Waiting(u, Execute(target[y], y))'
    <3> SUFFICES ASSUME NEW y \in ScriptIds, outcome'[y] = "queued"
                 PROVE  \E u \in Threads : Waiting(u, Execute(target[y], y))'
      OBVIOUS
    <3>1. Execute(target[y], y) # Execute(i, x) /\ outcome[y] = "queued"
      BY <1>6 DEF Execute
    <3> QED
      BY <1>5, <1>13, <3>1 DEF IInv, PendingCallsAreHeld
  <2>3. \A y \in ScriptIds : outcome'[y] = "running" => \E u \in Threads : running'[u] = y
    <3> SUFFICES ASSUME NEW y \in ScriptIds, outcome'[y] = "running", y # x
                 PROVE  \E u \in Threads : running'[u] = y
      BY <1>6
    <3>1. PICK u \in Threads : running[u] = y
      BY <1>6 DEF IInv, PendingCallsAreHeld
    <3>2. u # t
      BY <1>4, <3>1 DEF NoScript, ScriptIds
    <3> QED
      BY <1>6, <3>1, <3>2
  <2> QED
    BY <1>5, <2>1, <2>2, <2>3 DEF PendingCallsAreHeld, Create, Execute, Waiting
<1>16. NeverNotFound'
  BY <1>6 DEF IInv, NeverNotFound
<1>17. ScriptsInOrder'
  <2> SUFFICES ASSUME NEW y \in ScriptIds, NEW z \in ScriptIds,
                      y < z, z < nextScript, target[y] = target[z]
               PROVE  /\ outcome'[z] \in {"running"} \cup Answers => outcome'[y] \in Answers
                      /\ outcome'[y] = "lost" => outcome'[z] = "lost"
    BY <1>5 DEF ScriptsInOrder, Answers
  <2>1. /\ outcome[z] \in {"running"} \cup Answers => outcome[y] \in Answers
        /\ outcome[y] = "lost" => outcome[z] = "lost"
    BY DEF IInv, ScriptsInOrder
  <2>2. CASE z = x
    <3>1. target[y] = i /\ y # x /\ outcome[y] \notin {"none", "lost"}
      <4>1. y < nextScript /\ y # z
        BY DEF ScriptIds, IInv, TypeOK
      <4>2. outcome[y] # "none"
        BY <4>1 DEF IInv, TypeOK, CallsAreCounted, ScriptIds
      <4> QED
        BY <1>3, <2>1, <2>2, <4>1, <4>2
    <3>2. outcome[y] # "running"
      BY <1>3, <1>4, <3>1 DEF IInv, ScriptsBelong, NoScript, ScriptIds
    <3>3. outcome[y] # "queued"
      <4> SUFFICES ASSUME outcome[y] = "queued" PROVE FALSE
        OBVIOUS
      <4> PICK u \in Threads : Waiting(u, Execute(i, y))
        BY <3>1 DEF IInv, PendingCallsAreHeld
      <4>1. PICK k \in DOMAIN queue[u] : queue[u][k] = Execute(i, y)
        BY DEF Waiting, ToSet
      <4>2. u = t
        BY <1>3, <4>1, QueuedMessages DEF Belongs, Execute
      <4>3. 1 \in DOMAIN queue[t] /\ queue[t][1] = Execute(i, x)
        BY <1>1, <1>2 DEF Taken
      <4>4. k # 1
        BY <3>1, <4>1, <4>2, <4>3 DEF Execute
      <4>5. k > 1
        BY <1>1, <4>2, <4>4 DEF Taken
      <4>6. InOrder(Execute(i, x), Execute(i, y))
        BY <4>1, <4>2, <4>3, <4>5 DEF IInv, QueuesKeepOrder
      <4> QED
        BY <2>2, <4>6 DEF InOrder, Execute, ScriptIds
    <3>4. outcome[y] \in Answers
      BY <3>1, <3>2, <3>3 DEF IInv, TypeOK, Outcomes, Answers
    <3> QED
      BY <1>6, <2>2, <3>1, <3>4 DEF Answers
  <2>3. CASE z # x
    BY <1>3, <1>6, <2>1, <2>3 DEF Answers
  <2> QED
    BY <2>2, <2>3
<1> QED
  BY <1>7, <1>8, <1>9, <1>10, <1>11, <1>12, <1>14, <1>15, <1>16, <1>17 DEF IInv

\* The thread drops an isolate.
LEMMA ReceiveDestroyStep ==
  ASSUME IInv, NEW t \in Threads, ReceiveDestroy(t)
  PROVE  IInv'
<1>1. Taken(t) /\ pc[t] = "recv" /\ Head(queue[t]).kind = "destroy"
  BY ReceiveTakes DEF ReceiveDestroy, Receives, IInv, TypeOK
<1>2. PICK i \in IsolateIds : i = Head(queue[t]).isolate /\ Head(queue[t]) = Destroy(i)
  BY <1>1, MessageFields DEF Taken
<1>3. Belongs(t, Destroy(i)) /\ creation[i] = "created" /\ assigned[i] = t /\ i \notin Known
  BY <1>1, <1>2 DEF Taken, IInv, MessagesBelong, Belongs, Destroy
<1>4. running[t] = NoScript
  BY <1>1, ReceiverIsFree
<1>5. /\ live' \in [Threads -> SUBSET IsolateIds]
      /\ \A u \in Threads : live'[u] = IF u = t THEN live[t] \ {i} ELSE live[u]
      /\ listening' = listening \ (live[t] \cap {i})
      /\ UNCHANGED <<nextIsolateId, nextThreadIdx, assigned, registry, Known, nextScript,
                     target, creation, outcome, shutdowns, events, terminable, pc, running>>
  BY <1>2 DEF ReceiveDestroy, poolVars, IInv, TypeOK, Known
<1>6. TypeOK'
  <2>1. queue' \in [Threads -> Seq(Message)]
    BY <1>1 DEF Taken
  <2> QED
    BY <1>5, <2>1 DEF IInv, TypeOK
<1>7. CallsAreCounted'
  BY <1>5 DEF IInv, CallsAreCounted
<1>8. MessagesBelong'
  <2> SUFFICES ASSUME NEW u \in Threads, NEW k \in DOMAIN queue'[u]
               PROVE  Belongs(u, queue[u][k])'
    BY DEF MessagesBelong
  <2>1. PICK j \in DOMAIN queue[u] :
          /\ queue'[u][k] = queue[u][j]
          /\ u = t => InOrder(Head(queue[t]), queue[u][j])
    BY <1>1, TakenMessages
  <2>2. Belongs(u, queue[u][j])
    BY QueuedMessages
  <2>3. queue[u][j].kind = "execute" => queue[u][j].isolate # i \/ u # t
    BY <1>2, <2>1 DEF InOrder, Destroy
  <2> QED
    BY <1>5, <2>1, <2>2, <2>3 DEF Belongs
<1>9. QueuesKeepOrder'
  BY <1>1, TakenInOrder DEF IInv
<1>10. IsolatesBelong'
  <2>1. \A u \in Threads : \A j \in live'[u] :
          assigned[j] = u /\ pc[u] # "exited" /\ creation[j] \in {"answered", "created"}
    BY <1>5 DEF IInv, IsolatesBelong
  <2>2. \A j \in IsolateIds : creation[j] = "answered" \/ j \in Known =>
          pc[assigned[j]] = "exited" \/ j \in live'[assigned[j]]
    <3> SUFFICES ASSUME NEW j \in IsolateIds, creation[j] = "answered" \/ j \in Known
                 PROVE  pc[assigned[j]] = "exited" \/ j \in live'[assigned[j]]
      OBVIOUS
    <3>1. pc[assigned[j]] = "exited" \/ j \in live[assigned[j]]
      BY DEF IInv, IsolatesBelong
    <3>2. j # i /\ assigned[j] \in Threads
      BY <1>3 DEF IInv, TypeOK
    <3> QED
      BY <1>5, <3>1, <3>2
  <2>3. \A j \in listening' : j \in live'[assigned[j]]
    <3> SUFFICES ASSUME NEW j \in listening' PROVE j \in live'[assigned[j]]
      OBVIOUS
    <3>1. j \in live[assigned[j]] /\ assigned[j] \in Threads /\ ~(j \in live[t] /\ j = i)
      BY <1>5 DEF IInv, IsolatesBelong, TypeOK
    <3> QED
      BY <1>3, <1>5, <3>1
  <2> QED
    BY <1>5, <2>1, <2>2, <2>3 DEF IInv, IsolatesBelong
<1>11. ScriptsBelong'
  BY <1>4, <1>5 DEF IInv, ScriptsBelong, Busy
<1>12. ASSUME NEW u \in Threads, NEW n, Waiting(u, n), n # Destroy(i) PROVE Waiting(u, n)'
  BY <1>1, <1>2, <1>5, <1>12, TakenWaits DEF Waiting
<1>13. NoIsolateLeaks'
  <2> SUFFICES ASSUME NEW u \in Threads, NEW j \in live'[u]
               PROVE  \/ creation[j] = "answered"
                      \/ j \in Known /\ registry[j] = u
                      \/ Waiting(u, Destroy(j))'
    BY <1>5 DEF NoIsolateLeaks, Destroy, Waiting
  <2>1. j \in live[u] /\ assigned[j] = u /\ j # i
    BY <1>3, <1>5 DEF IInv, IsolatesBelong
  <2>2. Destroy(j) # Destroy(i)
    BY <2>1 DEF Destroy
  <2> QED
    BY <1>12, <2>1, <2>2 DEF IInv, NoIsolateLeaks
<1>14. PendingCallsAreHeld'
  <2>1. /\ \A j \in IsolateIds : Create(j) # Destroy(i)
        /\ \A x \in ScriptIds : Execute(target[x], x) # Destroy(i)
    BY DEF Create, Execute, Destroy
  <2>2. \A j \in IsolateIds : creation[j] = "pending" =>
          \E u \in Threads : Waiting(u, Create(j))'
    BY <1>12, <2>1 DEF IInv, PendingCallsAreHeld
  <2>3. \A x \in ScriptIds : outcome[x] = "queued" =>
          \E u \in Threads : Waiting(u, Execute(target[x], x))'
    BY <1>5, <1>12, <2>1 DEF IInv, PendingCallsAreHeld
  <2> QED
    BY <1>5, <2>2, <2>3 DEF IInv, PendingCallsAreHeld, Create, Execute, Waiting
<1>15. ScriptsInOrder' /\ NeverNotFound'
  BY <1>5 DEF IInv, ScriptsInOrder, NeverNotFound, Answers
<1> QED
  BY <1>6, <1>7, <1>8, <1>9, <1>10, <1>11, <1>13, <1>14, <1>15 DEF IInv

\* What is dropped with the queue of a thread: the calls that wait there.
LEMMA DroppedCalls ==
  ASSUME IInv, NEW t \in Threads, Receives(t, "shutdown"),
         DropMessages(ToSet(Tail(queue[t])))
  PROVE  /\ \A j \in IsolateIds :
              creation'[j] = IF creation[j] = "pending" /\ assigned[j] = t
                               THEN "dropped" ELSE creation[j]
         /\ \A x \in ScriptIds :
              outcome'[x] = IF outcome[x] = "queued" /\ assigned[target[x]] = t
                              THEN "lost" ELSE outcome[x]
<1> DEFINE rest == ToSet(Tail(queue[t]))
<1>1. /\ pc[t] = "recv" /\ queue[t] # <<>> /\ Head(queue[t]).kind = "shutdown"
      /\ DropMessages(rest)
  BY DEF Receives
<1>2. ASSUME NEW n, n.kind # "shutdown" PROVE n \in rest <=> Waiting(t, n)
  <2>1. /\ DOMAIN queue[t] = 1 .. Len(queue[t])
        /\ Len(queue[t]) \in Nat /\ Len(queue[t]) > 0
        /\ DOMAIN Tail(queue[t]) = 1 .. Len(queue[t]) - 1
        /\ \A k \in 1 .. Len(queue[t]) - 1 : Tail(queue[t])[k] = queue[t][k + 1]
        /\ Head(queue[t]) = queue[t][1]
    BY <1>1 DEF IInv, TypeOK
  <2>2. ASSUME NEW k \in DOMAIN Tail(queue[t]), Tail(queue[t])[k] = n
        PROVE  \E j \in DOMAIN queue[t] : queue[t][j] = n
    BY <2>1, <2>2
  <2>3. ASSUME NEW k \in DOMAIN queue[t], queue[t][k] = n
        PROVE  \E j \in DOMAIN Tail(queue[t]) : Tail(queue[t])[j] = n
    <3>1. k # 1
      BY <1>1, <1>2, <2>1, <2>3
    <3>2. k - 1 \in DOMAIN Tail(queue[t]) /\ Tail(queue[t])[k - 1] = queue[t][k]
      BY <2>1, <3>1
    <3> QED
      BY <2>3, <3>2
  <2> QED
    BY <1>1, <2>2, <2>3 DEF Waiting, ToSet
<1>3. \A j \in IsolateIds :
        creation'[j] = IF creation[j] = "pending" /\ assigned[j] = t
                         THEN "dropped" ELSE creation[j]
  <2> TAKE j \in IsolateIds
  <2>1. creation'[j] = IF Waiting(t, Create(j)) THEN "dropped" ELSE creation[j]
    BY <1>1, <1>2 DEF DropMessages, Create
  <2>2. Waiting(t, Create(j)) => creation[j] = "pending" /\ assigned[j] = t
    BY QueuedMessages DEF Waiting, ToSet, Belongs, Create
  <2>3. creation[j] = "pending" /\ assigned[j] = t => Waiting(t, Create(j))
    <3> SUFFICES ASSUME creation[j] = "pending", assigned[j] = t PROVE Waiting(t, Create(j))
      OBVIOUS
    <3>1. PICK u \in Threads : Waiting(u, Create(j))
      BY DEF IInv, PendingCallsAreHeld
    <3>2. assigned[j] = u
      BY <3>1, QueuedMessages DEF Waiting, ToSet, Belongs, Create
    <3> QED
      BY <3>1, <3>2
  <2> QED
    BY <2>1, <2>2, <2>3
<1>4. \A x \in ScriptIds :
        outcome'[x] = IF outcome[x] = "queued" /\ assigned[target[x]] = t
                        THEN "lost" ELSE outcome[x]
  <2> TAKE x \in ScriptIds
  <2>1. outcome'[x] = IF Waiting(t, Execute(target[x], x)) THEN "lost" ELSE outcome[x]
    BY <1>1, <1>2 DEF DropMessages, Execute
  <2>2. Waiting(t, Execute(target[x], x)) => outcome[x] = "queued" /\ assigned[target[x]] = t
    BY QueuedMessages DEF Waiting, ToSet, Belongs, Execute
  <2>3. outcome[x] = "queued" /\ assigned[target[x]] = t => Waiting(t, Execute(target[x], x))
    <3> SUFFICES ASSUME outcome[x] = "queued", assigned[target[x]] = t
                 PROVE  Waiting(t, Execute(target[x], x))
      OBVIOUS
    <3>1. PICK u \in Threads : Waiting(u, Execute(target[x], x))
      BY DEF IInv, PendingCallsAreHeld
    <3>2. assigned[target[x]] = u
      BY <3>1, QueuedMessages DEF Waiting, ToSet, Belongs, Execute
    <3> QED
      BY <3>1, <3>2
  <2> QED
    BY <2>1, <2>2, <2>3
<1> QED
  BY <1>3, <1>4

\* The thread leaves its loop, with its isolates and the rest of its queue.
LEMMA ReceiveShutdownStep ==
  ASSUME IInv, NEW t \in Threads, ReceiveShutdown(t)
  PROVE  IInv'
<1> DEFINE rest == ToSet(Tail(queue[t]))
<1>1. /\ pc[t] = "recv" /\ queue[t] # <<>> /\ Head(queue[t]).kind = "shutdown"
      /\ pc' = [pc EXCEPT ![t] = "exited"]
      /\ live' = [live EXCEPT ![t] = {}]
      /\ listening' = listening \ live[t]
      /\ queue' = [queue EXCEPT ![t] = <<>>]
      /\ DropMessages(rest)
      /\ UNCHANGED <<nextIsolateId, nextThreadIdx, assigned, registry, Known, nextScript,
                     target, shutdowns, events, terminable, running>>
  BY DEF ReceiveShutdown, Receives, poolVars, Known
<1>2. running[t] = NoScript
  BY <1>1, ReceiverIsFree
<1>3. Receives(t, "shutdown") /\ DropMessages(ToSet(Tail(queue[t])))
  BY DEF ReceiveShutdown
<1>4. \A j \in IsolateIds :
        creation'[j] = IF creation[j] = "pending" /\ assigned[j] = t
                         THEN "dropped" ELSE creation[j]
  BY <1>3, DroppedCalls
<1>5. \A x \in ScriptIds :
        outcome'[x] = IF outcome[x] = "queued" /\ assigned[target[x]] = t
                        THEN "lost" ELSE outcome[x]
  BY <1>3, DroppedCalls
<1>6. /\ pc' \in [Threads -> ThreadPcs]
      /\ live' \in [Threads -> SUBSET IsolateIds]
      /\ queue' \in [Threads -> Seq(Message)]
      /\ creation' \in [IsolateIds -> Creations]
      /\ outcome' \in [ScriptIds -> Outcomes]
      /\ pc'[t] = "exited" /\ live'[t] = {} /\ queue'[t] = <<>>
      /\ \A u \in Threads \ {t} : pc'[u] = pc[u] /\ live'[u] = live[u] /\ queue'[u] = queue[u]
  BY <1>1, <1>4, <1>5 DEF DropMessages, IInv, TypeOK, ThreadPcs, BusyPcs, Creations, Outcomes
<1>7. TypeOK'
  <2>1. \A u \in Threads : (pc'[u] \in BusyPcs) <=> (running[u] # NoScript)
    BY <1>2, <1>6 DEF IInv, TypeOK, BusyPcs
  <2> QED
    BY <1>1, <1>6, <2>1 DEF IInv, TypeOK
<1>8. UNCHANGED <<nextIsolateId, nextThreadIdx, assigned, registry, Known, nextScript,
                  target, shutdowns, events, terminable, running>>
  BY <1>1
<1>9. CallsAreCounted'
  BY <1>4, <1>5, <1>8, CalledScripts DEF IInv, CallsAreCounted
<1>10. MessagesBelong'
  <2> SUFFICES ASSUME NEW u \in Threads, NEW k \in DOMAIN queue'[u]
               PROVE  Belongs(u, queue[u][k])'
    BY DEF MessagesBelong
  <2> u # t /\ queue'[u] = queue[u]
    BY <1>6
  <2>1. /\ Belongs(u, queue[u][k]) /\ queue[u][k] \in Message
        /\ queue[u][k].kind # "shutdown" => queue[u][k].isolate \in IsolateIds
        /\ queue[u][k].kind = "execute" => queue[u][k].script \in ScriptIds
    BY QueuedMessages, MessageFields
  <2> QED
    BY <1>4, <1>5, <1>6, <1>8, <2>1 DEF Belongs
<1>11. QueuesKeepOrder'
  <2> SUFFICES ASSUME NEW u \in Threads, NEW j \in DOMAIN queue'[u],
                      NEW k \in DOMAIN queue'[u], j < k
               PROVE  InOrder(queue'[u][j], queue'[u][k])
    BY DEF QueuesKeepOrder, InOrder
  <2> u # t /\ queue'[u] = queue[u]
    BY <1>6
  <2> QED
    BY DEF IInv, QueuesKeepOrder
<1>12. IsolatesBelong'
  <2>1. \A u \in Threads : \A j \in live'[u] :
          assigned[j] = u /\ pc'[u] # "exited" /\ creation'[j] \in {"answered", "created"}
    <3> SUFFICES ASSUME NEW u \in Threads \ {t}, NEW j \in live[u]
                 PROVE  /\ assigned[j] = u /\ pc'[u] # "exited"
                        /\ creation'[j] \in {"answered", "created"}
      BY <1>6
    <3>1. /\ j \in IsolateIds /\ assigned[j] = u /\ pc[u] # "exited"
          /\ creation[j] \in {"answered", "created"}
      BY DEF IInv, IsolatesBelong, TypeOK
    <3> QED
      BY <1>4, <1>6, <3>1
  <2>2. \A j \in Known : registry[j] = assigned[j] /\ creation'[j] = "created"
    BY <1>4 DEF IInv, IsolatesBelong, TypeOK
  <2>3. \A j \in IsolateIds : creation'[j] = "answered" \/ j \in Known =>
          pc'[assigned[j]] = "exited" \/ j \in live'[assigned[j]]
    <3> SUFFICES ASSUME NEW j \in IsolateIds, creation[j] = "answered" \/ j \in Known
                 PROVE  pc'[assigned[j]] = "exited" \/ j \in live'[assigned[j]]
      BY <1>4
    <3>1. assigned[j] \in Threads /\ (pc[assigned[j]] = "exited" \/ j \in live[assigned[j]])
      BY DEF IInv, IsolatesBelong, TypeOK
    <3> QED
      BY <1>6, <3>1
  <2>4. \A j \in listening' : j \in live'[assigned[j]]
    <3> SUFFICES ASSUME NEW j \in listening, j \notin live[t] PROVE j \in live'[assigned[j]]
      BY <1>1
    <3>1. assigned[j] \in Threads /\ j \in live[assigned[j]]
      BY DEF IInv, IsolatesBelong, TypeOK
    <3> QED
      BY <1>6, <3>1
  <2>5. \A j \in IsolateIds :
          <<"destroyed", j>> \in events <=> creation'[j] = "created" /\ j \notin Known
    <3> TAKE j \in IsolateIds
    <3>1. <<"destroyed", j>> \in events <=> creation[j] = "created" /\ j \notin Known
      BY DEF IInv, IsolatesBelong
    <3> QED
      BY <1>4, <3>1
  <2> QED
    BY <1>8, <2>1, <2>2, <2>3, <2>4, <2>5 DEF IsolatesBelong
<1>13. ScriptsBelong'
  <2>1. \A u \in Threads : running[u] # NoScript =>
          outcome'[running[u]] = "running" /\ target[running[u]] \in live'[u]
    <3> SUFFICES ASSUME NEW u \in Threads, running[u] # NoScript
                 PROVE  outcome'[running[u]] = "running" /\ target[running[u]] \in live'[u]
      OBVIOUS
    <3>1. /\ u # t /\ running[u] \in ScriptIds
          /\ outcome[running[u]] = "running" /\ target[running[u]] \in live[u]
      BY <1>2 DEF IInv, TypeOK, ScriptsBelong, Busy
    <3> QED
      BY <1>5, <1>6, <3>1
  <2>2. \A x \in ScriptIds : outcome'[x] = "running" => running[assigned[target[x]]] = x
    BY <1>5 DEF IInv, ScriptsBelong
  <2>3. \A x \in ScriptIds : outcome'[x] = "lost" => pc'[assigned[target[x]]] = "exited"
    <3> SUFFICES ASSUME NEW x \in ScriptIds, outcome[x] = "lost", assigned[target[x]] # t
                 PROVE  pc'[assigned[target[x]]] = "exited"
      BY <1>5, <1>6
    <3>1. assigned[target[x]] \in Threads /\ pc[assigned[target[x]]] = "exited"
      BY CalledScripts DEF IInv, TypeOK, ScriptsBelong
    <3> QED
      BY <1>6, <3>1
  <2> QED
    BY <1>8, <2>1, <2>2, <2>3 DEF ScriptsBelong, Busy
<1>14. ASSUME NEW u \in Threads \ {t}, NEW n, Waiting(u, n) PROVE Waiting(u, n)'
  BY <1>6, <1>14 DEF Waiting
<1>15. NoIsolateLeaks'
  <2> SUFFICES ASSUME NEW u \in Threads \ {t}, NEW j \in live[u]
               PROVE  \/ creation'[j] = "answered"
                      \/ j \in Known /\ registry[j] = u
                      \/ Waiting(u, Destroy(j))'
    BY <1>6, <1>8 DEF NoIsolateLeaks, Destroy, Waiting
  <2>1. creation[j] = "answered" => creation'[j] = "answered"
    BY <1>4 DEF IInv, TypeOK
  <2> QED
    BY <1>14, <2>1 DEF IInv, NoIsolateLeaks
<1>16. PendingCallsAreHeld'
  <2>1. \A j \in IsolateIds : creation'[j] = "pending" =>
          \E u \in Threads : Waiting(u, Create(j))'
    <3> SUFFICES ASSUME NEW j \in IsolateIds, creation[j] = "pending", assigned[j] # t
                 PROVE  \E u \in Threads : Waiting(u, Create(j))'
      BY <1>4
    <3>1. PICK u \in Threads : Waiting(u, Create(j))
      BY DEF IInv, PendingCallsAreHeld
    <3>2. assigned[j] = u
      BY <3>1, QueuedMessages DEF Waiting, ToSet, Belongs, Create
    <3> QED
      BY <1>14, <3>1, <3>2
  <2>2. \A x \in ScriptIds : outcome'[x] = "queued" =>
          \E u \in Threads : Waiting(u, Execute(target[x], x))'
    <3> SUFFICES ASSUME NEW x \in ScriptIds, outcome[x] = "queued", assigned[target[x]] # t
                 PROVE  \E u \in Threads : Waiting(u, Execute(target[x], x))'
      BY <1>5
    <3>1. PICK u \in Threads : Waiting(u, Execute(target[x], x))
      BY DEF IInv, PendingCallsAreHeld
    <3>2. assigned[target[x]] = u
      BY <3>1, QueuedMessages DEF Waiting, ToSet, Belongs, Execute
    <3> QED
      BY <1>8, <1>14, <3>1, <3>2
  <2>3. \A x \in ScriptIds : outcome'[x] = "running" => \E u \in Threads : running[u] = x
    BY <1>5 DEF IInv, PendingCallsAreHeld
  <2> QED
    BY <1>8, <2>1, <2>2, <2>3 DEF PendingCallsAreHeld, Create, Execute, Waiting
<1>17. NeverNotFound'
  BY <1>5 DEF IInv, NeverNotFound
<1>18. ScriptsInOrder'
  <2> SUFFICES ASSUME NEW y \in ScriptIds, NEW z \in ScriptIds,
                      y < z, z < nextScript, target[y] = target[z]
               PROVE  /\ outcome'[z] \in {"running"} \cup Answers => outcome'[y] \in Answers
                      /\ outcome'[y] = "lost" => outcome'[z] = "lost"
    BY <1>8 DEF ScriptsInOrder, Answers
  <2>1. /\ outcome[z] \in {"running"} \cup Answers => outcome[y] \in Answers
        /\ outcome[y] = "lost" => outcome[z] = "lost"
    BY DEF IInv, ScriptsInOrder
  <2>2. outcome[z] \in {"queued", "lost", "running"} \cup Answers
    <3>1. ~(z >= nextScript)
      BY DEF IInv, TypeOK, ScriptIds
    <3>2. outcome[z] # "none" /\ outcome[z] \in Outcomes
      BY <3>1 DEF IInv, TypeOK, CallsAreCounted
    <3> QED
      BY <3>2 DEF Outcomes, Answers
  <2> QED
    BY <1>5, <2>1, <2>2 DEF Answers
<1> QED
  BY <1>7, <1>9, <1>10, <1>11, <1>12, <1>13, <1>15, <1>16, <1>17, <1>18 DEF IInv

\* A script ends and the event loop begins, or one of the two hangs.
LEMMA ScriptGoesOnStep ==
  ASSUME IInv, NEW t \in Threads, ScriptEnds(t) \/ Hangs(t)
  PROVE  IInv'
<1>1. PICK p \in {"loop", "hung"} :
      /\ pc[t] \in {"script", "loop"} /\ pc' = [pc EXCEPT ![t] = p]
      /\ UNCHANGED <<nextIsolateId, nextThreadIdx, assigned, registry, Known, creation,
                     nextScript, target, outcome, shutdowns, events, terminable, queue, running, live,
                     listening>>
  BY DEF ScriptEnds, Hangs, poolVars, Known
<1>2. \A u \in Threads : pc'[u] = IF u = t THEN p ELSE pc[u]
  BY <1>1 DEF IInv, TypeOK
<1>3. TypeOK'
  <2>1. \A u \in Threads : (pc'[u] \in BusyPcs) <=> (running[u] # NoScript)
    BY <1>1, <1>2 DEF IInv, TypeOK, BusyPcs
  <2>2. pc' \in [Threads -> ThreadPcs]
    BY <1>1 DEF IInv, TypeOK, ThreadPcs, BusyPcs
  <2> QED
    BY <1>1, <2>1, <2>2 DEF IInv, TypeOK
<1>4. \A u \in Threads : pc'[u] = "exited" <=> pc[u] = "exited"
  BY <1>1, <1>2
<1>5. CallsAreCounted' /\ QueuesKeepOrder' /\ ScriptsInOrder' /\ NeverNotFound'
  BY <1>1 DEF IInv, CallsAreCounted, QueuesKeepOrder, InOrder, ScriptsInOrder, NeverNotFound,
     Answers
<1>6. MessagesBelong'
  BY <1>1, <1>4 DEF IInv, MessagesBelong, Belongs
<1>7. IsolatesBelong'
  BY <1>1, <1>4 DEF IInv, IsolatesBelong, TypeOK
<1>8. ScriptsBelong'
  <2>1. \A x \in ScriptIds : outcome[x] = "lost" => pc'[assigned[target[x]]] = "exited"
    BY <1>4, CalledScripts DEF IInv, ScriptsBelong, TypeOK
  <2> QED
    BY <1>1, <2>1 DEF IInv, ScriptsBelong, Busy
<1>9. NoIsolateLeaks' /\ PendingCallsAreHeld'
  BY <1>1, <1>4 DEF IInv, NoIsolateLeaks, PendingCallsAreHeld, Waiting, Create, Execute, Destroy
<1> QED
  BY <1>3, <1>5, <1>6, <1>7, <1>8, <1>9 DEF IInv

\* execute_with_timeout returns, and perhaps the message loop is over.
LEMMA ReturnsStep ==
  ASSUME IInv, NEW t \in Threads, pc[t] \in BusyPcs,
         NEW r \in {"ok", "error", "terminated"}, Returns(t, r),
         listening' \subseteq listening
  PROVE  IInv'
<1>1. PICK x \in ScriptIds : x = running[t] /\ running[t] # NoScript
  BY DEF IInv, TypeOK
<1>2. outcome[x] = "running" /\ target[x] \in live[t]
  BY <1>1 DEF IInv, ScriptsBelong, Busy
<1>3. /\ outcome' = [outcome EXCEPT ![x] = r]
      /\ pc' = [pc EXCEPT ![t] = "recv"]
      /\ running' = [running EXCEPT ![t] = NoScript]
      /\ UNCHANGED <<nextIsolateId, nextThreadIdx, assigned, registry, Known, creation,
                     nextScript, target, shutdowns, events, terminable, queue, live>>
  BY <1>1 DEF Returns, ForgetScript, poolVars, Known
<1>4. /\ \A u \in Threads : /\ pc'[u] = IF u = t THEN "recv" ELSE pc[u]
                            /\ running'[u] = IF u = t THEN NoScript ELSE running[u]
      /\ \A y \in ScriptIds : outcome'[y] = IF y = x THEN r ELSE outcome[y]
      /\ outcome' \in [ScriptIds -> Outcomes]
      /\ pc' \in [Threads -> ThreadPcs]
      /\ running' \in [Threads -> ScriptIds \cup {NoScript}]
  BY <1>3 DEF IInv, TypeOK, Outcomes, ThreadPcs, BusyPcs
<1>5. TypeOK'
  <2>1. \A u \in Threads : (pc'[u] \in BusyPcs) <=> (running'[u] # NoScript)
    BY <1>4 DEF IInv, TypeOK, BusyPcs
  <2> QED
    BY <1>3, <1>4, <2>1 DEF IInv, TypeOK
<1>6. \A u \in Threads : pc'[u] = "exited" <=> pc[u] = "exited"
  BY <1>4 DEF BusyPcs
<1>7. CallsAreCounted' /\ QueuesKeepOrder' /\ NeverNotFound'
  BY <1>2, <1>3, <1>4 DEF IInv, CallsAreCounted, QueuesKeepOrder, InOrder, NeverNotFound
<1>8. MessagesBelong'
  <2> SUFFICES ASSUME NEW u \in Threads, NEW k \in DOMAIN queue[u]
               PROVE  Belongs(u, queue[u][k])'
    BY <1>3 DEF MessagesBelong
  <2>1. /\ Belongs(u, queue[u][k])
        /\ queue[u][k].kind = "execute" => queue[u][k].script \in ScriptIds
    BY QueuedMessages, MessageFields
  <2> QED
    BY <1>2, <1>3, <1>4, <1>6, <2>1 DEF Belongs
<1>9. IsolatesBelong'
  BY <1>3, <1>6 DEF IInv, IsolatesBelong, TypeOK
<1>10. ScriptsBelong'
  <2>1. \A u \in Threads : running'[u] # NoScript =>
          outcome'[running'[u]] = "running" /\ target[running'[u]] \in live[u]
    <3> SUFFICES ASSUME NEW u \in Threads, u # t, running[u] # NoScript
                 PROVE  outcome'[running[u]] = "running" /\ target[running[u]] \in live[u]
      BY <1>4
    <3>1. /\ running[u] \in ScriptIds
          /\ outcome[running[u]] = "running" /\ target[running[u]] \in live[u]
      BY DEF IInv, TypeOK, ScriptsBelong, Busy
    <3>2. running[u] # x
      BY <1>2, <3>1 DEF IInv, IsolatesBelong
    <3> QED
      BY <1>4, <3>1, <3>2
  <2>2. \A y \in ScriptIds : outcome'[y] = "running" => running'[assigned[target[y]]] = y
    <3> SUFFICES ASSUME NEW y \in ScriptIds, y # x, outcome[y] = "running"
                 PROVE  running'[assigned[target[y]]] = y
      BY <1>4
    <3>1. assigned[target[y]] \in Threads /\ running[assigned[target[y]]] = y
      BY CalledScripts DEF IInv, TypeOK, ScriptsBelong
    <3> QED
      BY <1>1, <1>4, <3>1
  <2>3. \A y \in ScriptIds : outcome'[y] = "lost" => pc'[assigned[target[y]]] = "exited"
    <3> SUFFICES ASSUME NEW y \in ScriptIds, outcome[y] = "lost"
                 PROVE  pc'[assigned[target[y]]] = "exited"
      BY <1>4
    <3>1. assigned[target[y]] \in Threads /\ pc[assigned[target[y]]] = "exited"
      BY CalledScripts DEF IInv, TypeOK, ScriptsBelong
    <3> QED
      BY <1>6, <3>1
  <2> QED
    BY <1>3, <2>1, <2>2, <2>3 DEF ScriptsBelong, Busy
<1>11. NoIsolateLeaks'
  BY <1>3, <1>6 DEF IInv, NoIsolateLeaks, Waiting, Destroy
<1>12. PendingCallsAreHeld'
  <2>1. \A i \in IsolateIds : creation[i] = "pending" =>
          \E u \in Threads : Waiting(u, Create(i))'
    BY <1>3, <1>6 DEF IInv, PendingCallsAreHeld, Waiting, Create
  <2>2. \A y \in ScriptIds : outcome'[y] = "queued" =>
          \E u \in Threads : Waiting(u, Execute(target[y], y))'
    BY <1>3, <1>4, <1>6 DEF IInv, PendingCallsAreHeld, Waiting, Execute
  <2>3. \A y \in ScriptIds : outcome'[y] = "running" => \E u \in Threads : running'[u] = y
    <3> SUFFICES ASSUME NEW y \in ScriptIds, y # x, outcome[y] = "running"
                 PROVE  \E u \in Threads : running'[u] = y
      BY <1>4
    <3>1. PICK u \in Threads : running[u] = y
      BY DEF IInv, PendingCallsAreHeld
    <3> QED
      BY <1>1, <1>4, <3>1
  <2> QED
    BY <1>3, <2>1, <2>2, <2>3 DEF PendingCallsAreHeld, Create, Execute, Waiting
<1>13. ScriptsInOrder'
  <2> SUFFICES ASSUME NEW y \in ScriptIds, NEW z \in ScriptIds,
                      y < z, z < nextScript, target[y] = target[z]
               PROVE  /\ outcome'[z] \in {"running"} \cup Answers => outcome'[y] \in Answers
                      /\ outcome'[y] = "lost" => outcome'[z] = "lost"
    BY <1>3 DEF ScriptsInOrder, Answers
  <2>1. /\ outcome[z] \in {"running"} \cup Answers => outcome[y] \in Answers
        /\ outcome[y] = "lost" => outcome[z] = "lost"
    BY DEF IInv, ScriptsInOrder
  <2> QED
    BY <1>2, <1>4, <2>1 DEF Answers
<1> QED
  BY <1>5, <1>7, <1>8, <1>9, <1>10, <1>11, <1>12, <1>13 DEF IInv

-----------------------------------------------------------------------------
\* Every step preserves the inductive invariant.
LEMMA InvStep == IInv /\ [Next]_vars => IInv'
<1> SUFFICES ASSUME IInv, [Next]_vars PROVE IInv'
  OBVIOUS
<1>1. CASE CreateIsolate
  BY <1>1, CreateIsolateStep
<1>2. CASE ShutdownPool
  BY <1>2, ShutdownPoolStep
<1>3. ASSUME NEW i \in IsolateIds, CreateReturns(i) PROVE IInv'
  BY <1>3, CreateReturnsStep
<1>4. ASSUME NEW i \in IsolateIds, ExecuteScript(i) PROVE IInv'
  BY <1>4, ExecuteScriptStep
<1>5. ASSUME NEW i \in IsolateIds, DestroyIsolate(i) PROVE IInv'
  BY <1>5, DestroyIsolateStep
<1>6. ASSUME NEW t \in Threads, Receive(t) PROVE IInv'
  BY <1>6, ReceiveCreateStep, ReceiveExecuteStep, ReceiveDestroyStep, ReceiveShutdownStep
     DEF Receive
<1>7. ASSUME NEW t \in Threads, ScriptEnds(t) \/ Hangs(t) PROVE IInv'
  BY <1>7, ScriptGoesOnStep
<1>8. ASSUME NEW t \in Threads, ScriptThrows(t) PROVE IInv'
  BY <1>8, ReturnsStep DEF ScriptThrows, MayInterruptLoop, BusyPcs
<1>9. ASSUME NEW t \in Threads, LoopEnds(t) PROVE IInv'
  BY <1>9, ReturnsStep DEF LoopEnds, BusyPcs
<1>10. ASSUME NEW t \in Threads, LoopFails(t) PROVE IInv'
  BY <1>10, ReturnsStep DEF LoopFails, MayInterruptLoop, BusyPcs
<1>11. ASSUME NEW t \in Threads, Terminated(t) PROVE IInv'
  BY <1>11, ReturnsStep DEF Terminated, MayInterruptLoop
<1>12. CASE UNCHANGED vars
  BY <1>12 DEF vars, poolVars, threadVars, IInv, TypeOK, CallsAreCounted, MessagesBelong,
     Belongs, QueuesKeepOrder, InOrder, IsolatesBelong, ScriptsBelong, NoIsolateLeaks,
     NeverNotFound, PendingCallsAreHeld, ScriptsInOrder, Known, Busy, Waiting, Answers,
     Create, Execute, Destroy
<1> QED
  BY <1>1, <1>2, <1>3, <1>4, <1>5, <1>6, <1>7, <1>8, <1>9, <1>10, <1>11, <1>12
     DEF Next, Pool, Thread, ScriptOver

\* The inductive invariant holds in every state the program reaches.
THEOREM Invariance == Spec => []IInv
<1> QED
  BY InvInit, InvStep, PTL DEF Spec

\* Whatever the pool and its threads do, the registry, the queues and the maps of
\* the threads hold what they should.
THEOREM TypeCorrect == Spec => []TypeOK
<1>1. IInv => TypeOK
  BY DEF IInv
<1> QED
  BY <1>1, Invariance, PTL

\* The registry names live isolates only: destroy_isolate takes effect in the
\* registry before it does in the thread's map, and the creation after.
THEOREM RegistryIsRight == Spec => []KnownIsolatesAreLive
<1>1. IInv => KnownIsolatesAreLive
  <2> SUFFICES ASSUME IInv, NEW i \in Known, pc[registry[i]] # "exited"
               PROVE  i \in live[registry[i]] /\ ~Waiting(registry[i], Destroy(i))
    BY DEF KnownIsolatesAreLive
  <2>1. registry[i] \in Threads /\ i \in live[registry[i]]
    BY DEF IInv, TypeOK, IsolatesBelong
  <2>2. ~Waiting(registry[i], Destroy(i))
    BY <2>1, QueuedMessages DEF Waiting, ToSet, Belongs, Destroy
  <2> QED
    BY <2>1, <2>2
<1> QED
  BY <1>1, Invariance, PTL

\* No thread keeps an isolate for which no destruction can come any more.
THEOREM NothingLeaks == Spec => []NoIsolateLeaks
<1>1. IInv => NoIsolateLeaks
  BY DEF IInv
<1> QED
  BY <1>1, Invariance, PTL

\* execute never reports IsolateNotFound for an isolate the pool knew.
THEOREM ScriptsFindTheirIsolate == Spec => []NeverNotFound
<1>1. IInv => NeverNotFound
  BY DEF IInv
<1> QED
  BY <1>1, Invariance, PTL

\* Every call without an answer is in a queue or being executed.
THEOREM NoCallIsForgotten == Spec => []PendingCallsAreHeld
<1>1. IInv => PendingCallsAreHeld
  BY DEF IInv
<1> QED
  BY <1>1, Invariance, PTL

\* One isolate's scripts are executed in the order of the calls, and lost from some
\* call on.
THEOREM ScriptsKeepOrder == Spec => []ScriptsInOrder
<1>1. IInv => ScriptsInOrder
  BY DEF IInv
<1> QED
  BY <1>1, Invariance, PTL

=============================================================================
