------------------------ MODULE TimeoutManager_proofs ------------------------
(***************************************************************************)
(* Proofs about TimeoutManager, for any isolates, durations and bounds.    *)
(***************************************************************************)
EXTENDS TimeoutManager, TLAPS

\* The initial values are of their kinds.
LEMMA TypeInit == Init => TypeOK
<1> SUFFICES ASSUME Init PROVE TypeOK
  OBVIOUS
<1>1. owner \in [ExecutionIds -> Isolates]
  BY ConstantsAssumption DEF AnyIsolate, Init
<1>2. deadline \in [ExecutionIds -> Nat]
  BY DEF Init
<1>3. /\ phase \in [Isolates -> Phases]
      /\ current \in [Isolates -> ExecutionIds \cup {NoExecution}]
      /\ \A i \in Isolates : (current[i] = NoExecution) <=> (phase[i] = "idle")
  BY DEF Init, Phases
<1>4. /\ nextExecutionId \in 0 .. MaxExecutions
      /\ stops \in 0 .. MaxStops
  BY ConstantsAssumption DEF Init
<1>5. /\ queue = {} /\ cancelled = {} /\ fired = {}
      /\ now = 0 /\ wakeAt = 0 /\ scanTime = 0
      /\ stopFlag = FALSE /\ notifyOwed = FALSE
      /\ firing = NoExecution /\ pc = "acquire"
  BY DEF Init
<1> QED
  BY <1>1, <1>2, <1>3, <1>4, <1>5 DEF TypeOK, ManagerPcs

\* No step of the manager, of its callers or of the clock leaves the kinds.
LEMMA TypeStep == TypeOK /\ [Next]_vars => TypeOK'
<1> SUFFICES ASSUME TypeOK, [Next]_vars PROVE TypeOK'
  OBVIOUS
<1> USE ConstantsAssumption
    DEF TypeOK, ExecutionIds, NoExecution, Phases, ManagerPcs, clientVars,
        managerVars, sharedVars
<1>1. CASE Acquire
  BY <1>1 DEF Acquire
<1>2. CASE PeekEmpty
  BY <1>2 DEF PeekEmpty
<1>3. CASE PeekEntry
  BY <1>3 DEF PeekEntry, Earliest
<1>4. CASE WaitExpires
  BY <1>4 DEF WaitExpires
<1>5. CASE Recheck
  BY <1>5 DEF Recheck
<1>6. CASE ScanEnd
  BY <1>6 DEF ScanEnd
<1>7. CASE ScanPop
  BY <1>7 DEF ScanPop, Earliest
<1>8. CASE Terminate
  BY <1>8 DEF Terminate
<1>9. CASE SpuriousWake
  BY <1>9 DEF SpuriousWake, NotifyOne
<1>10. CASE StopStore
  BY <1>10 DEF StopStore
<1>11. CASE StopNotify
  BY <1>11 DEF StopNotify, NotifyOne
<1>12. CASE Tick
  BY <1>12 DEF Tick
<1>13. ASSUME NEW i \in Isolates, Client(i)
       PROVE  TypeOK'
  <2>1. ASSUME NEW d \in Durations, Prepare(i, d)
        PROVE  TypeOK'
    BY <2>1 DEF Prepare
  <2>2. CASE Push(i)
    BY <2>2 DEF Push
  <2>3. CASE Notify(i)
    BY <2>3 DEF Notify, NotifyOne
  <2>4. CASE Drop(i)
    BY <2>4 DEF Drop
  <2> QED
    BY <1>13, <2>1, <2>2, <2>3, <2>4 DEF Client
<1>14. CASE UNCHANGED vars
  BY <1>14 DEF vars
<1> QED
  BY <1>1, <1>2, <1>3, <1>4, <1>5, <1>6, <1>7, <1>8, <1>9, <1>10, <1>11,
   <1>12, <1>13, <1>14 DEF Next, Manager

\* Every variable keeps a value of its kind in every behaviour of the manager,
\* its callers and the clock.
THEOREM TypeCorrect == Spec => []TypeOK
  BY TypeInit, TypeStep, PTL DEF Spec

-----------------------------------------------------------------------------
(* The inductive invariant. *)

\* The parts of IInv besides the kinds.
Safe == /\ IdsAreFresh
        /\ CurrentIsOwn
        /\ UncancelledIsCurrent
        /\ ScanIsPast
        /\ NoMissedWakeup
        /\ NoCallDuringAnotherScript
        /\ ServesEarliestFirst

\* Initially nothing is registered and nobody sleeps.
LEMMA SafeInit == Init => Safe
  BY ConstantsAssumption
  DEF Init, Safe, IdsAreFresh, CurrentIsOwn, UncancelledIsCurrent, ScanIsPast,
      NoMissedWakeup, NoCallDuringAnotherScript, ServesEarliestFirst, NoExecution

\* No step breaks the invariant.
LEMMA SafeStep == TypeOK /\ TypeOK' /\ Safe /\ [Next]_vars => Safe'
<1> SUFFICES ASSUME TypeOK, TypeOK', Safe, [Next]_vars PROVE Safe'
  OBVIOUS
<1> USE DEF Safe, IdsAreFresh, CurrentIsOwn, UncancelledIsCurrent, ScanIsPast,
      NoMissedWakeup, NoCallDuringAnotherScript, ServesEarliestFirst,
      NotifyPending, TypeOK, ExecutionIds, NoExecution, clientVars, managerVars,
      sharedVars
<1>1. CASE Acquire
  BY <1>1 DEF Acquire
<1>2. CASE PeekEmpty
  BY <1>2 DEF PeekEmpty
<1>3. CASE PeekEntry
  BY <1>3 DEF PeekEntry, Earliest
<1>4. CASE WaitExpires
  BY <1>4 DEF WaitExpires
<1>5. CASE Recheck
  BY <1>5 DEF Recheck
<1>6. CASE ScanEnd
  BY <1>6 DEF ScanEnd
<1>7. CASE ScanPop
  BY <1>7 DEF ScanPop, Earliest
<1>8. CASE Terminate
  BY <1>8 DEF Terminate
<1>9. CASE SpuriousWake
  BY <1>9 DEF SpuriousWake, NotifyOne
<1>10. CASE StopStore
  BY <1>10 DEF StopStore
<1>11. CASE StopNotify
  BY <1>11 DEF StopNotify, NotifyOne
<1>12. CASE Tick
  BY <1>12 DEF Tick
<1>13. ASSUME NEW i \in Isolates, Client(i)
       PROVE  Safe'
  <2>1. ASSUME NEW d \in Durations, Prepare(i, d)
        PROVE  Safe'
    <3>1. nextExecutionId \notin queue \cup cancelled \cup fired \cup {firing}
      OBVIOUS
    <3>2. IdsAreFresh' /\ ScanIsPast'
      BY <2>1, <3>1 DEF Prepare
    <3>3. CurrentIsOwn'
      BY <2>1, <3>1 DEF Prepare
    <3>4. UncancelledIsCurrent' /\ NoMissedWakeup'
      BY <2>1, <3>1 DEF Prepare
    <3>5. NoCallDuringAnotherScript' /\ ServesEarliestFirst'
      BY <2>1, <3>1 DEF Prepare
    <3> QED
      BY <3>2, <3>3, <3>4, <3>5
  <2>2. CASE Push(i)
    BY <2>2 DEF Push, QueueLocked
  <2>3. CASE Notify(i)
    BY <2>3 DEF Notify, NotifyOne
  <2>4. CASE Drop(i)
    BY <2>4 DEF Drop
  <2> QED
    BY <1>13, <2>1, <2>2, <2>3, <2>4 DEF Client
<1>14. CASE UNCHANGED vars
  BY <1>14 DEF vars
<1> QED
  BY <1>1, <1>2, <1>3, <1>4, <1>5, <1>6, <1>7, <1>8, <1>9, <1>10, <1>11,
     <1>12, <1>13, <1>14 DEF Next, Manager

\* Every reachable state satisfies the inductive invariant.
LEMMA Invariance == Spec => []IInv
<1>1. Init => TypeOK /\ Safe
  BY TypeInit, SafeInit
<1>2. TypeOK /\ Safe /\ [Next]_vars => (TypeOK /\ Safe)'
  BY TypeStep, SafeStep
<1>3. TypeOK /\ Safe => IInv
  BY DEF Safe, IInv
<1> QED
  BY <1>1, <1>2, <1>3, PTL DEF Spec

\* The manager never sleeps past a deadline whose notification is already done.
THEOREM MissesNoWakeup == Spec => []NoMissedWakeup
<1>1. IInv => NoMissedWakeup
  BY DEF IInv
<1> QED
  BY <1>1, Invariance, PTL

\* terminate_execution is called while the execution it is meant for is current, or
\* while no script of its isolate runs - the next one may be registering, and then V8
\* keeps the request for it.
THEOREM CallsKeepOutOfOtherScripts == Spec => []NoCallDuringAnotherScript
<1>1. IInv => NoCallDuringAnotherScript
  BY DEF IInv
<1> QED
  BY <1>1, Invariance, PTL

\* Executions are terminated in the order of their deadlines, and none early.
THEOREM TerminatesInOrder == Spec => []ServesEarliestFirst
<1>1. IInv => ServesEarliestFirst
  BY DEF IInv
<1> QED
  BY <1>1, Invariance, PTL

-----------------------------------------------------------------------------
(* The contract. *)

\* Steps the contract does not see.
LEMMA StutterStep ==
  ASSUME UNCHANGED <<now, firing, fired, stopFlag>>,
         ArmedDeadlines' = ArmedDeadlines, EverRegistered' = EverRegistered
  PROVE  UNCHANGED Contract!vars
  BY DEF Contract!vars

\* Every step of the manager is a step of the contract or none.
LEMMA ContractStep ==
  IInv /\ IInv' /\ [Next]_vars => [Contract!Next]_(Contract!vars)
<1> SUFFICES ASSUME IInv, IInv', [Next]_vars
             PROVE  [Contract!Next]_(Contract!vars)
  OBVIOUS
<1> USE DEF clientVars, managerVars, sharedVars
<1>1. ASSUME UNCHANGED <<now, firing, fired, sharedVars>>
      PROVE  UNCHANGED Contract!vars
  BY <1>1, StutterStep DEF ArmedDeadlines, EverRegistered
<1>2. CASE \/ Acquire \/ PeekEmpty \/ PeekEntry \/ WaitExpires \/ Recheck
           \/ ScanEnd \/ SpuriousWake \/ StopNotify \/ UNCHANGED vars
           \/ \E i \in Isolates : Notify(i)
  BY <1>1, <1>2 DEF Acquire, PeekEmpty, PeekEntry, WaitExpires, Recheck, ScanEnd,
     SpuriousWake, StopNotify, Notify, vars
<1>3. CASE ScanPop
  <2>1. PICK e \in Earliest :
          /\ deadline[e] <= scanTime
          /\ queue' = queue \ {e}
          /\ IF e \in cancelled
               THEN UNCHANGED <<pc, firing>>
               ELSE pc' = "terminate" /\ firing' = e
    BY <1>3 DEF ScanPop
  <2>2. CASE e \in cancelled
    BY <1>3, <2>1, <2>2, StutterStep
       DEF ScanPop, ArmedDeadlines, EverRegistered, Earliest
  <2>3. CASE e \notin cancelled
    <3>1. ArmedDeadlines' = [f \in DOMAIN ArmedDeadlines \ {e} |-> ArmedDeadlines[f]]
      BY <1>3, <2>1 DEF ScanPop, ArmedDeadlines
    <3>2. EverRegistered' = EverRegistered
      BY <1>3, <2>1, <2>3
         DEF ScanPop, EverRegistered, Earliest, IInv, TypeOK, ExecutionIds, NoExecution
    <3>3. /\ e \in ExecutionIds
          /\ e \in DOMAIN ArmedDeadlines
          /\ ArmedDeadlines[e] <= now
          /\ \A f \in DOMAIN ArmedDeadlines : ArmedDeadlines[e] <= ArmedDeadlines[f]
      BY <1>3, <2>1, <2>3
         DEF ScanPop, ArmedDeadlines, Earliest, IInv, TypeOK, ScanIsPast
    <3>4. Contract!Expire(e)
      BY <1>3, <2>1, <2>3, <3>1, <3>2, <3>3
         DEF ScanPop, Contract!Expire, Contract!Armed, IInv, TypeOK
    <3> QED
      BY <3>3, <3>4 DEF Contract!Next
  <2> QED
    BY <2>2, <2>3
<1>4. CASE Terminate
  <2>1. ArmedDeadlines' = ArmedDeadlines /\ EverRegistered' = EverRegistered
    BY <1>4 DEF Terminate, ArmedDeadlines, EverRegistered, IInv, TypeOK
  <2>2. Contract!Fire
    BY <1>4, <2>1 DEF Terminate, Contract!Fire, IInv, TypeOK
  <2> QED
    BY <2>2 DEF Contract!Next
<1>5. CASE StopStore
  <2>1. ArmedDeadlines' = ArmedDeadlines /\ EverRegistered' = EverRegistered
    BY <1>5 DEF StopStore, ArmedDeadlines, EverRegistered
  <2>2. Contract!Stop \/ UNCHANGED Contract!vars
    BY <1>5, <2>1 DEF StopStore, Contract!Stop, Contract!vars, IInv, TypeOK
  <2> QED
    BY <2>2 DEF Contract!Next
<1>6. CASE Tick
  <2>1. ArmedDeadlines' = ArmedDeadlines /\ EverRegistered' = EverRegistered
    BY <1>6 DEF Tick, ArmedDeadlines, EverRegistered
  <2>2. Contract!Pass
    BY <1>6, <2>1 DEF Tick, Contract!Pass
  <2> QED
    BY <2>2 DEF Contract!Next
<1>7. ASSUME NEW i \in Isolates, NEW d \in Durations, Prepare(i, d)
      PROVE  UNCHANGED Contract!vars
  <2>1. ArmedDeadlines' = ArmedDeadlines
    <3>1. \A e \in queue : deadline'[e] = deadline[e]
      BY <1>7 DEF Prepare, IInv, TypeOK, IdsAreFresh, ExecutionIds
    <3> QED
      BY <1>7, <3>1 DEF Prepare, ArmedDeadlines
  <2>2. EverRegistered' = EverRegistered
    BY <1>7 DEF Prepare, EverRegistered
  <2> QED
    BY <1>7, <2>1, <2>2, StutterStep DEF Prepare
<1>8. ASSUME NEW i \in Isolates, Push(i)
      PROVE  Contract!Next
  <2> DEFINE e == current[i]
  <2>1. /\ e \in ExecutionIds
        /\ e \notin queue \cup cancelled \cup fired \cup {firing}
        /\ deadline[e] \in Nat
    BY <1>8 DEF Push, IInv, TypeOK, CurrentIsOwn
  <2>2. /\ ArmedDeadlines' \in [DOMAIN ArmedDeadlines \cup {e} -> Nat]
        /\ \A u \in DOMAIN ArmedDeadlines : ArmedDeadlines'[u] = ArmedDeadlines[u]
    BY <1>8, <2>1 DEF Push, ArmedDeadlines, IInv, TypeOK
  <2>3. EverRegistered' = EverRegistered \cup {e} /\ e \notin EverRegistered
    BY <1>8, <2>1 DEF Push, EverRegistered
  <2>4. firing = NoExecution
    BY <1>8 DEF Push, QueueLocked, IInv, TypeOK
  <2>5. Contract!Arm(e)
    BY <1>8, <2>2, <2>3, <2>4 DEF Push, Contract!Arm, Contract!Armed
  <2> QED
    BY <2>1, <2>5 DEF Contract!Next
<1>9. ASSUME NEW i \in Isolates, Drop(i)
      PROVE  [Contract!Next]_(Contract!vars)
  <2> DEFINE e == current[i]
  <2>1. e \in ExecutionIds /\ e \in queue \cup fired \cup {firing}
    BY <1>9 DEF Drop, IInv, TypeOK, CurrentIsOwn
  <2>2. EverRegistered' = EverRegistered
    BY <1>9, <2>1 DEF Drop, EverRegistered, ExecutionIds, NoExecution
  <2>3. CASE e \in queue
    <3>1. /\ e \in DOMAIN ArmedDeadlines
          /\ ArmedDeadlines' = [u \in DOMAIN ArmedDeadlines \ {e} |-> ArmedDeadlines[u]]
      BY <1>9, <2>1, <2>3 DEF Drop, ArmedDeadlines, IInv, TypeOK, CurrentIsOwn
    <3>2. Contract!Disarm(e)
      BY <1>9, <2>2, <3>1 DEF Drop, Contract!Disarm, Contract!Armed
    <3> QED
      BY <2>1, <3>2 DEF Contract!Next
  <2>4. CASE e \notin queue
    <3>1. ArmedDeadlines' = ArmedDeadlines
      BY <1>9, <2>4 DEF Drop, ArmedDeadlines
    <3> QED
      BY <1>9, <2>2, <3>1, StutterStep DEF Drop
  <2> QED
    BY <2>3, <2>4
<1> QED
  BY <1>2, <1>3, <1>4, <1>5, <1>6, <1>7, <1>8, <1>9 DEF Next, Manager, Client

\* The manager with its mutex, condition variable and lazy cancellation is a
\* set of one-shot timers, served in order, never early and never twice.
THEOREM ContractIsImplemented == Spec => ImplementsContract
<1>1. Init => Contract!Init
  BY DEF Init, Contract!Init, ArmedDeadlines, EverRegistered
<1> QED
  BY <1>1, ContractStep, Invariance, PTL DEF Spec, ImplementsContract, Contract!Spec

=============================================================================
