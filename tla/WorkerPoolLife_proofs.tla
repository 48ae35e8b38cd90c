------------------------ MODULE WorkerPoolLife_proofs ------------------------
(***************************************************************************)
(* WorkerPool implements IsolateLife, for every isolate on every thread:   *)
(* one lemma per action of the pool and its threads, each an action of the *)
(* isolate's life or none.                                                 *)
(***************************************************************************)
EXTENDS WorkerPool_proofs, FiniteSetTheorems

\* A set of numbers with a bound has a greatest element: one with the fewest above it.
LEMMA HasGreatest ==
  ASSUME NEW N \in Nat, NEW S \in SUBSET (0 .. N), S # {}
  PROVE  \E x \in S : \A y \in S : y <= x
<1> DEFINE R == StrictSubsetOrdering(0 .. N)
           Above(x) == {y \in S : y > x}
           T == {Above(x) : x \in S}
<1>1. IsWellFoundedOn(R, SUBSET (0 .. N))
  <2>1. IsFiniteSet(0 .. N)
    BY FS_Interval
  <2> QED
    BY <2>1, FS_FiniteSubsetsOfFinite, FS_StrictSubsetOrderingWellFounded
<1>2. T \subseteq SUBSET (0 .. N) /\ T # {}
  OBVIOUS
<1>3. \E A \in T : \A B \in T : ~(<<B, A>> \in R)
  <2> HIDE DEF R, T
  <2> QED
    BY <1>1, <1>2, WFMin
<1>4. PICK x \in S : \A y \in S : ~(<<Above(y), Above(x)>> \in R)
  BY <1>3
<1>5. ASSUME NEW y \in S, y > x PROVE FALSE
  <2>1. y \in Above(x) /\ y \notin Above(y)
    BY <1>5
  <2>2. Above(y) \subseteq Above(x)
    <3> SUFFICES ASSUME NEW z \in S, z > y PROVE z > x
      OBVIOUS
    <3>1. x \in Int /\ y \in Int /\ z \in Int
      OBVIOUS
    <3> QED
      BY <1>5, <3>1
  <2>3. Above(x) \in SUBSET (0 .. N) /\ Above(y) \in SUBSET (0 .. N)
    OBVIOUS
  <2>4. <<Above(y), Above(x)>> \in R
    BY <2>1, <2>2, <2>3 DEF StrictSubsetOrdering
  <2> QED
    BY <1>4, <2>4
<1> QED
  BY <1>5

\* LastBegun is what it says.
LEMMA LastIsLast ==
  ASSUME NEW i \in IsolateIds, Begun(i) # {}
  PROVE  LastBegun(i) \in Begun(i) /\ \A y \in Begun(i) : y <= LastBegun(i)
<1>1. MaxScripts \in Nat /\ MaxScripts - 1 \in Nat
  BY ConstantsAssumption DEF Begun, ScriptIds
<1>2. Begun(i) \in SUBSET (0 .. MaxScripts - 1)
  BY DEF Begun, ScriptIds
<1>3. \E x \in Begun(i) : \A y \in Begun(i) : y <= x
  BY <1>1, <1>2, HasGreatest
<1> QED
  BY <1>3 DEF LastBegun

-----------------------------------------------------------------------------
(* What a step shows of isolate i.                                         *)

Hosted(i) == \E t \in Threads : i \in live[t]
Executing(i) == \E t \in Threads : running[t] # NoScript /\ Busy(t) = i
WasCreated(i) == creation[i] \in {"answered", "created"}
Released(i) == <<"destroyed", i>> \in events
LastOutcome(i) == IF Begun(i) = {} THEN "none" ELSE outcome[LastBegun(i)]

\* The stage of an isolate, in these words, and after a step.
LEMMA StageIs ==
  ASSUME NEW i \in IsolateIds
  PROVE  /\ Stage(i) = IF Hosted(i) THEN IF Executing(i) THEN "busy" ELSE "idle"
                                    ELSE IF WasCreated(i) THEN "gone" ELSE "none"
         /\ Stage(i)' = IF Hosted(i)' THEN IF Executing(i)' THEN "busy" ELSE "idle"
                                      ELSE IF WasCreated(i)' THEN "gone" ELSE "none"
BY DEF Stage, Hosted, Executing, WasCreated

\* The last execution is the same, and so is its outcome.
LEMMA SameLast ==
  ASSUME NEW i \in IsolateIds, Begun(i)' = Begun(i),
         \A x \in Begun(i) : outcome'[x] = outcome[x]
  PROVE  LastOutcome(i)' = LastOutcome(i)
<1>1. LastBegun(i)' = LastBegun(i)
  BY DEF LastBegun
<1>2. Begun(i) # {} => LastBegun(i) \in Begun(i)
  BY LastIsLast
<1> QED
  BY <1>1, <1>2 DEF LastOutcome

\* A step that shows nothing.
LEMMA Unseen ==
  ASSUME NEW i \in IsolateIds,
         Hosted(i)' <=> Hosted(i), Executing(i)' <=> Executing(i),
         WasCreated(i)' <=> WasCreated(i), LastOutcome(i)' = LastOutcome(i),
         i \in listening' <=> i \in listening, Released(i)' <=> Released(i)
  PROVE  UNCHANGED Life(i)!vars
<1>1. Stage(i)' = Stage(i)
  BY StageIs
<1> QED
  BY <1>1 DEF Life!vars, LastOutcome, Released

\* An isolate is on one thread, and only that executes its scripts.
LEMMA Alone ==
  ASSUME IInv, NEW i \in IsolateIds
  PROVE  /\ \A t \in Threads : i \in live[t] =>
              /\ assigned[i] = t /\ WasCreated(i)
              /\ \A u \in Threads : i \in live[u] => u = t
              /\ Executing(i) <=> running[t] # NoScript /\ Busy(t) = i
         /\ Executing(i) => Hosted(i)
         /\ i \in listening => Hosted(i)
BY DEF IInv, TypeOK, IsolatesBelong, ScriptsBelong, Hosted, Executing, WasCreated

-----------------------------------------------------------------------------
\* Before create_isolate has been called nothing is known of an isolate.
LEMMA LifeInit == Init => \A i \in IsolateIds : Life(i)!Init
<1> SUFFICES ASSUME Init, NEW i \in IsolateIds PROVE Life(i)!Init
  OBVIOUS
<1>1. Stage(i) = "none"
  BY DEF Init, Stage
<1>2. Begun(i) = {}
  BY DEF Init, Begun, Answers
<1>3. Limited \in BOOLEAN
  BY ConstantsAssumption
<1> QED
  BY <1>1, <1>2, <1>3 DEF Init, Life!Init

\* What the pool does is not seen, except the destruction of this isolate.
LEMMA PoolSteps ==
  ASSUME IInv, NEW i \in IsolateIds,
         \/ CreateIsolate \/ ShutdownPool
         \/ \E j \in IsolateIds : CreateReturns(j) \/ (j # i /\ DestroyIsolate(j))
  PROVE  UNCHANGED Life(i)!vars
<1>1. UNCHANGED <<target, outcome, running, live, listening>>
  BY DEF CreateIsolate, ShutdownPool, CreateReturns, DestroyIsolate, threadVars
<1>2. Released(i)' <=> Released(i)
  BY DEF CreateIsolate, ShutdownPool, CreateReturns, DestroyIsolate, Released
<1>3. WasCreated(i)' <=> WasCreated(i)
  <2>1. CASE CreateIsolate
    <3>1. nextIsolateId \in IsolateIds /\ creation[nextIsolateId] = "none"
      BY <2>1, ConstantsAssumption DEF CreateIsolate, IInv, TypeOK, CallsAreCounted, IsolateIds
    <3>2. creation'[i] = creation[i] \/ (i = nextIsolateId /\ creation'[i] \in {"dropped", "pending"})
      BY <2>1 DEF CreateIsolate, IInv, TypeOK
    <3> QED
      BY <3>1, <3>2 DEF WasCreated
  <2>2. ASSUME NEW j \in IsolateIds, CreateReturns(j) PROVE WasCreated(i)' <=> WasCreated(i)
    BY <2>2 DEF CreateReturns, WasCreated, IInv, TypeOK
  <2>3. ASSUME NEW j \in IsolateIds, DestroyIsolate(j) \/ ShutdownPool
        PROVE  WasCreated(i)' <=> WasCreated(i)
    BY <2>3 DEF DestroyIsolate, ShutdownPool, WasCreated
  <2> QED
    BY <2>1, <2>2, <2>3
<1>4. LastOutcome(i)' = LastOutcome(i)
  BY <1>1, SameLast DEF Begun
<1> QED
  BY <1>1, <1>2, <1>3, <1>4, Unseen DEF Hosted, Executing, Busy

\* Nor is a call of execute, before the thread hears of it.
LEMMA ExecuteScriptUnseen ==
  ASSUME IInv, NEW i \in IsolateIds, NEW j \in IsolateIds, ExecuteScript(j)
  PROVE  UNCHANGED Life(i)!vars
<1>1. PICK x \in ScriptIds : x = nextScript /\ outcome[x] = "none"
  BY ConstantsAssumption DEF ExecuteScript, IInv, TypeOK, CallsAreCounted, ScriptIds
<1>2. /\ \A y \in ScriptIds \ {x} : target'[y] = target[y] /\ outcome'[y] = outcome[y]
      /\ outcome'[x] \in {"queued", "lost"}
      /\ UNCHANGED <<creation, events, running, live, listening>>
  BY <1>1 DEF ExecuteScript, IInv, TypeOK
<1>3. LastOutcome(i)' = LastOutcome(i)
  <2>1. Begun(i)' = Begun(i) /\ x \notin Begun(i)
    BY <1>1, <1>2 DEF Begun, Answers
  <2> QED
    BY <1>2, <2>1, SameLast DEF Begun
<1>4. \A t \in Threads : running[t] # NoScript => target'[running[t]] = target[running[t]]
  <2> SUFFICES ASSUME NEW t \in Threads, running[t] # NoScript
               PROVE  running[t] \in ScriptIds \ {x}
    BY <1>2
  <2> QED
    BY <1>1 DEF IInv, TypeOK, ScriptsBelong
<1>5. Executing(i)' <=> Executing(i)
  BY <1>2, <1>4 DEF Executing, Busy
<1> QED
  BY <1>2, <1>3, <1>5, Unseen DEF Hosted, WasCreated, Released

\* destroy_isolate: the host drops its end of the channel.
LEMMA DestroyIsolateReleases ==
  ASSUME IInv, NEW i \in IsolateIds, DestroyIsolate(i)
  PROVE  Life(i)!Next
<1>1. /\ ~Released(i) /\ Released(i)'
      /\ UNCHANGED <<creation, target, outcome, running, live, listening>>
  BY DEF DestroyIsolate, IInv, IsolatesBelong, Released
<1>2. Stage(i)' = Stage(i) /\ LastOutcome(i)' = LastOutcome(i)
  BY <1>1, StageIs, SameLast DEF Hosted, Executing, Busy, WasCreated, Begun
<1>3. Life(i)!Release
  BY <1>1, <1>2 DEF Life!Release, Released, LastOutcome
<1> QED
  BY <1>3 DEF Life!Next

\* CreateIsolate: the life begins.
LEMMA ReceiveCreateCreates ==
  ASSUME IInv, NEW i \in IsolateIds, NEW t \in Threads, ReceiveCreate(t)
  PROVE  Life(i)!Next \/ UNCHANGED Life(i)!vars
<1>1. PICK j \in IsolateIds : j = Head(queue[t]).isolate /\ creation[j] = "pending"
  <2>1. 1 \in DOMAIN queue[t] /\ Head(queue[t]) = queue[t][1]
    BY DEF ReceiveCreate, Receives, IInv, TypeOK
  <2> QED
    BY <2>1, QueuedMessages DEF ReceiveCreate, Receives, Belongs
<1>2. /\ \A u \in Threads : live'[u] = IF u = t THEN live[t] \cup {j} ELSE live[u]
      /\ listening' = listening \cup {j}
      /\ \A k \in IsolateIds : creation'[k] = IF k = j THEN "answered" ELSE creation[k]
      /\ UNCHANGED <<events, target, outcome, running>>
  BY <1>1 DEF ReceiveCreate, poolVars, IInv, TypeOK
<1>3. /\ LastOutcome(i)' = LastOutcome(i)
      /\ Executing(i)' <=> Executing(i)
      /\ Released(i)' <=> Released(i)
  BY <1>2, SameLast DEF Begun, Executing, Busy, Released
<1>4. CASE i = j
  <2>1. ~Hosted(i) /\ ~Executing(i) /\ ~WasCreated(i)
    BY <1>1, <1>4, Alone DEF Hosted, WasCreated
  <2>2. Hosted(i)' /\ i \in listening'
    BY <1>2, <1>4 DEF Hosted
  <2>3. Stage(i) = "none" /\ Stage(i)' = "idle"
    BY <1>3, <2>1, <2>2, StageIs
  <2>4. Life(i)!Create
    BY <1>3, <2>2, <2>3 DEF Life!Create, LastOutcome, Released
  <2> QED
    BY <2>4 DEF Life!Next
<1>5. CASE i # j
  <2>1. /\ Hosted(i)' <=> Hosted(i)
        /\ WasCreated(i)' <=> WasCreated(i)
        /\ i \in listening' <=> i \in listening
    BY <1>2, <1>5 DEF Hosted, WasCreated
  <2> QED
    BY <1>3, <2>1, Unseen
<1> QED
  BY <1>4, <1>5

\* Execute: an execution begins, and it is the last of its isolate.
LEMMA ReceiveExecuteBegins ==
  ASSUME IInv, IInv', NEW i \in IsolateIds, NEW t \in Threads, ReceiveExecute(t)
  PROVE  Life(i)!Next \/ UNCHANGED Life(i)!vars
<1>1. 1 \in DOMAIN queue[t] /\ Head(queue[t]) = queue[t][1] /\ running[t] = NoScript
      /\ Head(queue[t]).kind = "execute"
  <2>1. running[t] = NoScript
    BY ReceiverIsFree DEF ReceiveExecute, Receives
  <2> QED
    BY <2>1 DEF ReceiveExecute, Receives, IInv, TypeOK
<1>2. PICK j \in IsolateIds, x \in ScriptIds : Head(queue[t]) = Execute(j, x)
  BY <1>1, QueuedMessages, MessageFields
<1>3. outcome[x] = "queued" /\ target[x] = j /\ j \in live[t]
  BY <1>1, <1>2, QueuedMessages DEF Belongs, Execute
<1>4. /\ outcome' = [outcome EXCEPT ![x] = "running"]
      /\ running' = [running EXCEPT ![t] = x]
      /\ UNCHANGED <<target, creation, events, live, listening>>
  BY <1>2, <1>3 DEF ReceiveExecute, Execute, poolVars
<1>5. /\ \A y \in ScriptIds : outcome'[y] = IF y = x THEN "running" ELSE outcome[y]
      /\ \A u \in Threads : running'[u] = IF u = t THEN x ELSE running[u]
      /\ x # NoScript /\ x < nextScript
  <2>1. x < nextScript
    BY <1>3, CalledScripts DEF IInv
  <2> QED
    BY <1>4, <2>1 DEF IInv, TypeOK, ScriptIds, NoScript
<1>6. CASE i = j
  <2>1. Hosted(i) /\ ~Executing(i)
    BY <1>1, <1>3, <1>6, Alone DEF Hosted
  <2>2. Hosted(i)' /\ Executing(i)'
    BY <1>3, <1>4, <1>5, <1>6, <2>1 DEF Hosted, Executing, Busy
  <2>3. Stage(i) = "idle" /\ Stage(i)' = "busy"
    BY <2>1, <2>2, StageIs
  <2>4. LastOutcome(i)' = "running"
    <3>1. Begun(i)' = Begun(i) \cup {x}
      BY <1>3, <1>4, <1>5, <1>6 DEF Begun
    <3>2. ASSUME NEW y \in Begun(i) PROVE y <= x
      <4>1. y \in ScriptIds /\ target[y] = i /\ outcome[y] \in {"running"} \cup Answers
        BY DEF Begun
      <4>2. y < nextScript
        BY <4>1, CalledScripts DEF IInv, Answers
      <4>3. ~(x < y)
        BY <1>3, <1>6, <4>1, <4>2 DEF IInv, ScriptsInOrder, Answers
      <4> QED
        BY <4>1, <4>3 DEF ScriptIds
    <3>3. ASSUME NEW y \in Begun(i)', \A z \in Begun(i)' : z <= y PROVE y = x
      BY <3>1, <3>2, <3>3 DEF Begun, ScriptIds
    <3>4. LastBegun(i)' = x
      <4>1. x \in Begun(i)' /\ \A z \in Begun(i)' : z <= x
        BY <3>1, <3>2 DEF ScriptIds
      <4> QED
        BY <3>3, <4>1 DEF LastBegun
    <3> QED
      BY <1>5, <3>1, <3>4 DEF LastOutcome
  <2>5. Life(i)!Begin
    BY <1>4, <2>3, <2>4 DEF Life!Begin, LastOutcome
  <2> QED
    BY <2>5 DEF Life!Next
<1>7. CASE i # j
  <2>1. Executing(i)' <=> Executing(i)
    BY <1>1, <1>3, <1>4, <1>5, <1>7 DEF Executing, Busy
  <2>2. LastOutcome(i)' = LastOutcome(i)
    <3>1. Begun(i)' = Begun(i) /\ x \notin Begun(i)
      BY <1>3, <1>4, <1>5, <1>7 DEF Begun
    <3> QED
      BY <1>5, <3>1, SameLast DEF Begun
  <2> QED
    BY <1>4, <2>1, <2>2, Unseen DEF Hosted, WasCreated, Released
<1> QED
  BY <1>6, <1>7

\* DestroyIsolate and Shutdown: the thread drops the isolate, and that only when it
\* executes nothing.
LEMMA ReceiveEndDrops ==
  ASSUME IInv, NEW i \in IsolateIds, NEW t \in Threads,
         ReceiveDestroy(t) \/ ReceiveShutdown(t)
  PROVE  Life(i)!Next \/ UNCHANGED Life(i)!vars
<1>1. PICK D \in SUBSET IsolateIds :
        /\ D \subseteq live[t]
        /\ \A u \in Threads : live'[u] = IF u = t THEN live[t] \ D ELSE live[u]
        /\ listening' = listening \ D
  <2>1. CASE ReceiveDestroy(t)
    <3> DEFINE E == live[t] \cap {Head(queue[t]).isolate}
    <3>1. /\ live' = [live EXCEPT ![t] = @ \ {Head(queue[t]).isolate}]
          /\ listening' = listening \ E
      BY <2>1 DEF ReceiveDestroy
    <3>2. E \in SUBSET IsolateIds /\ E \subseteq live[t]
      BY DEF IInv, TypeOK
    <3>3. \A u \in Threads : live'[u] = IF u = t THEN live[t] \ E ELSE live[u]
      BY <3>1 DEF IInv, TypeOK
    <3> HIDE DEF E
    <3> QED
      BY <3>1, <3>2, <3>3
  <2>2. CASE ReceiveShutdown(t)
    <3>1. /\ live[t] \in SUBSET IsolateIds /\ listening' = listening \ live[t]
          /\ \A u \in Threads : live'[u] = IF u = t THEN live[t] \ live[t] ELSE live[u]
      BY <2>2 DEF ReceiveShutdown, IInv, TypeOK
    <3> QED
      BY <3>1
  <2> QED
    BY <2>1, <2>2
<1>2. running[t] = NoScript /\ UNCHANGED <<events, target, running>>
  BY DEF ReceiveDestroy, ReceiveShutdown, Receives, poolVars, IInv, TypeOK, BusyPcs
<1>3. /\ \A j \in IsolateIds :
           creation'[j] = creation[j] \/ (creation[j] = "pending" /\ creation'[j] = "dropped")
      /\ \A x \in ScriptIds :
           outcome'[x] = outcome[x] \/ (outcome[x] = "queued" /\ outcome'[x] = "lost")
  BY DroppedCalls DEF ReceiveDestroy, ReceiveShutdown
<1>4. LastOutcome(i)' = LastOutcome(i)
  <2>1. Begun(i)' = Begun(i) /\ \A x \in Begun(i) : outcome'[x] = outcome[x]
    BY <1>2, <1>3 DEF Begun, Answers
  <2> QED
    BY <2>1, SameLast
<1>5. /\ Executing(i)' <=> Executing(i)
      /\ Released(i)' <=> Released(i)
      /\ WasCreated(i)' <=> WasCreated(i)
  BY <1>2, <1>3 DEF Executing, Busy, Released, WasCreated
<1>6. CASE i \in D
  <2>1. Hosted(i) /\ ~Executing(i) /\ WasCreated(i)
    BY <1>1, <1>2, <1>6, Alone DEF Hosted
  <2>2. ~Hosted(i)' /\ i \notin listening'
    BY <1>1, <1>6, Alone DEF Hosted
  <2>3. Stage(i) = "idle" /\ Stage(i)' = "gone"
    BY <1>5, <2>1, <2>2, StageIs
  <2>4. Life(i)!Drop
    BY <1>4, <1>5, <2>2, <2>3 DEF Life!Drop, LastOutcome, Released
  <2> QED
    BY <2>4 DEF Life!Next
<1>7. CASE i \notin D
  <2>1. (Hosted(i)' <=> Hosted(i)) /\ (i \in listening' <=> i \in listening)
    BY <1>1, <1>7 DEF Hosted
  <2> QED
    BY <1>4, <1>5, <2>1, Unseen
<1> QED
  BY <1>6, <1>7

\* execute_with_timeout returns: the last execution is over, and perhaps the message
\* loop with it.
LEMMA ReturnsReturns ==
  ASSUME IInv, NEW i \in IsolateIds, NEW t \in Threads, pc[t] \in BusyPcs,
         NEW r \in {"ok", "error", "terminated"}, Returns(t, r),
         listening' \in {listening, listening \ {Busy(t)}},
         listening' # listening => Busy(t) \in terminable \/ Busy(t) \notin Known,
         r = "ok" => Busy(t) \notin listening', r = "terminated" => Busy(t) \in terminable
  PROVE  Life(i)!Next \/ UNCHANGED Life(i)!vars
<1>1. PICK x \in ScriptIds : x = running[t] /\ running[t] # NoScript
  BY DEF IInv, TypeOK
<1>2. /\ outcome[x] = "running" /\ Busy(t) = target[x] /\ target[x] \in live[t]
      /\ x < nextScript /\ target[x] \in IsolateIds /\ creation[target[x]] = "created"
  <2>1. outcome[x] = "running" /\ Busy(t) = target[x] /\ target[x] \in live[t]
    BY <1>1 DEF IInv, ScriptsBelong, Busy
  <2> QED
    BY <2>1, CalledScripts DEF IInv
<1>3. /\ \A y \in ScriptIds : outcome'[y] = IF y = x THEN r ELSE outcome[y]
      /\ \A u \in Threads : running'[u] = IF u = t THEN NoScript ELSE running[u]
      /\ UNCHANGED <<target, creation, events, live>>
  BY <1>1 DEF Returns, ForgetScript, poolVars, IInv, TypeOK
<1>4. Begun(i)' = Begun(i)
  BY <1>2, <1>3 DEF Begun, Answers
<1>5. Busy(t) \in terminable => Limited
  BY DEF IInv, TypeOK
<1>6. CASE i = target[x]
  <2>1. Hosted(i) /\ Executing(i) /\ Hosted(i)'
    BY <1>1, <1>2, <1>3, <1>6 DEF Hosted, Executing
  <2>2. ~Executing(i)'
    <3> SUFFICES ASSUME NEW u \in Threads, u # t, running[u] # NoScript,
                        target[running[u]] = i
                 PROVE  FALSE
      BY <1>3 DEF Executing, Busy
    <3>1. i \in live[u]
      BY DEF IInv, ScriptsBelong, Busy
    <3> QED
      BY <1>2, <1>6, <3>1, Alone
  <2>3. Stage(i) = "busy" /\ Stage(i)' = "idle"
    BY <2>1, <2>2, StageIs
  <2>4. LastOutcome(i)' = r
    <3>1. x \in Begun(i)
      BY <1>2, <1>6 DEF Begun
    <3>2. ASSUME NEW y \in Begun(i), x <= y PROVE y = x
      <4>1. y \in ScriptIds /\ target[y] = i /\ outcome[y] \in {"running"} \cup Answers
        BY DEF Begun
      <4>2. y < nextScript
        BY <4>1, CalledScripts DEF IInv, Answers
      <4>3. ~(x < y)
        BY <1>2, <1>6, <4>1, <4>2 DEF IInv, ScriptsInOrder, Answers
      <4> QED
        BY <3>2, <4>1, <4>3 DEF ScriptIds
    <3>3. LastBegun(i) = x
      BY <3>1, <3>2, LastIsLast
    <3>4. LastBegun(i)' = LastBegun(i)
      BY <1>4 DEF LastBegun
    <3> QED
      BY <1>3, <1>4, <3>1, <3>3, <3>4 DEF LastOutcome
  <2>5. i \in listening' => i \in listening
    OBVIOUS
  <2>6. i \in listening /\ i \notin listening' => Limited \/ Released(i)
    BY <1>2, <1>6, <1>5 DEF IInv, IsolatesBelong, Released
  <2>7. r = "ok" => i \notin listening'
    BY <1>2, <1>6
  <2>8. Life(i)!Return(r)
    <3>1. ASSUME i \in listening' <=> i \in listening PROVE Life(i)!MayEnd
      BY <3>1 DEF Life!MayEnd
    <3>2. ASSUME i \in listening, i \notin listening' PROVE Life(i)!MayEnd
      <4>1. Limited \/ ~(<<"destroyed", i>> \notin events)
        BY <2>6, <3>2 DEF Released
      <4>2. (i \in listening') = FALSE
        BY <3>2
      <4>3. (IF Limited \/ ~(<<"destroyed", i>> \notin events) THEN {FALSE} ELSE {}) = {FALSE}
        BY <4>1
      <4> QED
        BY <4>2, <4>3, Zenon DEF Life!MayEnd
    <3>3. Life(i)!MayEnd
      BY <2>5, <3>1, <3>2
    <3> QED
      BY <1>3, <1>5, <2>3, <2>4, <2>7, <3>3 DEF Life!Return, LastOutcome
  <2> QED
    BY <2>8 DEF Life!Next
<1>7. CASE i # target[x]
  <2>1. Executing(i)' <=> Executing(i)
    BY <1>1, <1>2, <1>3, <1>7 DEF Executing, Busy
  <2>2. LastOutcome(i)' = LastOutcome(i)
    <3>1. x \notin Begun(i) /\ \A y \in Begun(i) : outcome'[y] = outcome[y]
      BY <1>3, <1>7 DEF Begun
    <3> QED
      BY <1>4, <3>1, SameLast
  <2>3. i \in listening' <=> i \in listening
    BY <1>2, <1>7
  <2> QED
    BY <1>3, <2>1, <2>2, <2>3, Unseen DEF Hosted, WasCreated, Released
<1> QED
  BY <1>6, <1>7

\* Every step of the pool and its threads is a step of isolate i's life or none.
LEMMA LifeStep ==
  ASSUME IInv, IInv', [Next]_vars, NEW i \in IsolateIds
  PROVE  Life(i)!Next \/ UNCHANGED Life(i)!vars
<1>1. CASE Pool
  BY <1>1, PoolSteps, ExecuteScriptUnseen, DestroyIsolateReleases DEF Pool
<1>2. ASSUME NEW t \in Threads, Receive(t)
      PROVE  Life(i)!Next \/ UNCHANGED Life(i)!vars
  BY <1>2, ReceiveCreateCreates, ReceiveExecuteBegins, ReceiveEndDrops DEF Receive
<1>3. ASSUME NEW t \in Threads, ScriptEnds(t) \/ Hangs(t) PROVE UNCHANGED Life(i)!vars
  <2>1. UNCHANGED <<creation, target, events, outcome, running, live, listening>>
    BY <1>3 DEF ScriptEnds, Hangs, poolVars
  <2>2. LastOutcome(i)' = LastOutcome(i)
    BY <2>1, SameLast DEF Begun
  <2> QED
    BY <2>1, <2>2, Unseen DEF Hosted, Executing, Busy, WasCreated, Released
<1>4. ASSUME NEW t \in Threads, LoopEnds(t)
      PROVE  Life(i)!Next \/ UNCHANGED Life(i)!vars
  BY <1>4, ReturnsReturns DEF LoopEnds, WaitsForMessages, BusyPcs
<1>5. ASSUME NEW t \in Threads, ScriptThrows(t) \/ LoopFails(t) \/ Terminated(t)
      PROVE  Life(i)!Next \/ UNCHANGED Life(i)!vars
  BY <1>5, ReturnsReturns
     DEF ScriptThrows, LoopFails, Terminated, MayInterruptLoop, BusyPcs
<1>6. CASE UNCHANGED vars
  <2>1. UNCHANGED <<creation, target, events, outcome, running, live, listening>>
    BY <1>6 DEF vars, poolVars, threadVars
  <2>2. LastOutcome(i)' = LastOutcome(i)
    BY <2>1, SameLast DEF Begun
  <2> QED
    BY <2>1, <2>2, Unseen DEF Hosted, Executing, Busy, WasCreated, Released
<1> QED
  BY <1>1, <1>2, <1>3, <1>4, <1>5, <1>6 DEF Next, Thread, ScriptOver

\* Whatever the pool does with the other isolates of a thread, each lives the life
\* IsolateLife describes, from its creation until its thread drops it.
THEOREM LifeIsImplemented == Spec => ImplementsIsolateLife
<1>1. IInv /\ IInv' /\ [Next]_vars =>
        [\A i \in IsolateIds : Life(i)!Next \/ UNCHANGED Life(i)!vars]_vars
  BY LifeStep
<1> QED
  BY <1>1, LifeInit, Invariance, PTL DEF Spec, ImplementsIsolateLife

=============================================================================
