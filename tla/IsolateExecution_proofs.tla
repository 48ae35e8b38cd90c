------------------------ MODULE IsolateExecution_proofs ------------------------
(***************************************************************************)
(* Proofs about IsolateExecution, for any timeouts and bounds.             *)
(***************************************************************************)
EXTENDS IsolateExecution, FiniteSetTheorems, TLAPS

\* Initially nothing is executed, requested or counted.
LEMMA InvInit == Init => IInv
<1> SUFFICES ASSUME Init PROVE IInv
  OBVIOUS
<1> USE ConstantsAssumption DEF Init
<1>1. limit \in TimeoutsMs
  BY DEF TimeoutFromMs, None
<1>2. Timeouts!Armed = {} /\ used = {} /\ expiring = NoTimer /\ fired = {} /\ clock = 0
  BY DEF Timeouts!Init, Timeouts!Armed
<1>3. /\ result \in [ExecutionIds -> Results]
      /\ \A e \in ExecutionIds : (result[e] = "none") <=>
           (e > Current \/ (e = Current /\ pc \in {"script", "loop"}))
  BY DEF ExecutionIds, Current, Results
<1>4. /\ cpu \in [ExecutionIds -> 0 .. MaxTime]
      /\ clock \in 0 .. MaxTime
      /\ executions \in 0 .. MaxExecutions /\ overlooked \in 0 .. MaxExecutions
      /\ sent \in 0 .. MaxMessages /\ taken \in 0 .. sent
  BY <1>2
<1>5. TypeOK
  BY <1>1, <1>2, <1>3, <1>4 DEF TypeOK, Pcs, MessageLoops
<1> QED
  BY <1>2, <1>5 DEF IInv, TimersHaveExecutions, CountsAreBounded, ExecutionIds,
     RequestsHaveDeadlines, CompleteLeavesNobody, OnlyDeadlinesEndTheMessageLoop

\* What execute_inner's return does to the results.
LEMMA InnerReturnsResult ==
  ASSUME IInv, pc \in {"script", "loop"},
         NEW r \in Results \ {"none"}, InnerReturns(r)
  PROVE  /\ Current \in ExecutionIds
         /\ result' \in [ExecutionIds -> Results]
         /\ \A e \in ExecutionIds : (result'[e] = "none") <=> e > Current
         /\ result'[Current] = r
         /\ \A e \in ExecutionIds \ {Current} : result'[e] = result[e]
         /\ pc' = "probe"
<1> USE DEF IInv, TypeOK, CountsAreBounded
<1>1. Current \in ExecutionIds
  BY ConstantsAssumption DEF ExecutionIds, Current
<1>2. result' = [result EXCEPT ![Current] = r] /\ pc' = "probe"
  BY DEF InnerReturns
<1>3. \A e \in ExecutionIds : (result[e] = "none") <=> e > Current \/ e = Current
  BY DEF Current
<1>4. result'[Current] = r /\ \A e \in ExecutionIds \ {Current} : result'[e] = result[e]
  BY <1>1, <1>2
<1>5. result' \in [ExecutionIds -> Results]
  BY <1>2
<1>6. \A e \in ExecutionIds : (result'[e] = "none") <=> e > Current
  BY <1>1, <1>3, <1>4 DEF ExecutionIds, Current
<1> QED
  BY <1>1, <1>2, <1>4, <1>5, <1>6

\* A return from execute_inner keeps the invariant, if a termination was requested
\* and what is reported complete leaves nobody listening.
LEMMA InnerReturnsStep ==
  ASSUME IInv, pc \in {"script", "loop"},
         NEW r \in Results \ {"none"}, InnerReturns(r),
         r = "terminated" => requested,
         r = "ok" => messageLoop' = "over",
         messageLoop' = "closing" => ~hostOpen,
         messageLoop' = "over" /\ hostOpen => fired # {},
         js' = "none", messageLoop' \in MessageLoops, tasks' \in BOOLEAN,
         taken' \in 0 .. sent,
         UNCHANGED <<timerVars, limit, executions, cpu, requested, overlooked, sent,
                     hostOpen>>
  PROVE  IInv'
<1> USE DEF timerVars
<1>1. /\ Current \in ExecutionIds /\ Current' = Current
      /\ result' \in [ExecutionIds -> Results]
      /\ \A e \in ExecutionIds : (result'[e] = "none") <=> e > Current
      /\ result'[Current] = r
      /\ \A e \in ExecutionIds \ {Current} : result'[e] = result[e]
      /\ pc' = "probe"
  BY InnerReturnsResult DEF Current
<1>2. TypeOK'
  BY <1>1 DEF IInv, TypeOK, Pcs, Timeouts!Armed
<1>3. TimersHaveExecutions'
  BY <1>1 DEF IInv, TimersHaveExecutions, Timeouts!Armed
<1>4. CountsAreBounded'
  BY <1>1 DEF IInv, CountsAreBounded
<1>5. RequestsHaveDeadlines'
  BY <1>1 DEF IInv, RequestsHaveDeadlines
<1>6. CompleteLeavesNobody' /\ OnlyDeadlinesEndTheMessageLoop'
  BY <1>1 DEF IInv, CompleteLeavesNobody, OnlyDeadlinesEndTheMessageLoop
<1> QED
  BY <1>2, <1>3, <1>4, <1>5, <1>6 DEF IInv

\* Whatever the thread, the script, the manager or the host does keeps the
\* invariant.
LEMMA InvStep == IInv /\ [Next]_vars => IInv'
<1> SUFFICES ASSUME IInv, [Next]_vars PROVE IInv'
  OBVIOUS
<1> USE ConstantsAssumption
    DEF IInv, TypeOK, TimersHaveExecutions, CountsAreBounded, RequestsHaveDeadlines,
      CompleteLeavesNobody, OnlyDeadlinesEndTheMessageLoop, ExecutionIds, Current,
      NoTimer, None, Pcs, Results, MessageLoops, Timeouts!Armed, timerVars,
      threadVars, isolateVars, hostVars
<1>1. CASE Begin
  <2>1. /\ executions \in ExecutionIds
        /\ executions' = executions + 1
        /\ UNCHANGED <<limit, cpu, tasks, messageLoop, requested, overlooked, hostVars>>
    BY <1>1 DEF Begin
  <2>2. /\ DOMAIN due' \subseteq ExecutionIds /\ DOMAIN due' \subseteq used'
        /\ used' \subseteq 0 .. executions
        /\ used \subseteq used'
        /\ used' # {} => limit # 0
        /\ UNCHANGED <<clock, expiring, fired, stopped>>
    <3>1. CASE limit = None
      BY <1>1, <2>1, <3>1 DEF Begin, Register
    <3>2. CASE limit # None
      <4>1. /\ DOMAIN due' = DOMAIN due \cup {executions}
            /\ used' = used \cup {executions}
            /\ UNCHANGED <<clock, expiring, fired, stopped>>
        BY <1>1, <3>2 DEF Begin, Register, Timeouts!Arm
      <4> QED
        BY <2>1, <3>2, <4>1
    <3> QED
      BY <3>1, <3>2
  <2>3. CASE requested
    BY <1>1, <2>1, <2>2, <2>3 DEF Begin
  <2>4. CASE ~requested
    BY <1>1, <2>1, <2>2, <2>4 DEF Begin
  <2> QED
    BY <2>3, <2>4
<1>2. CASE ScriptEnds
  <2>1. CASE requested /\ InnerReturns("terminated")
    BY <1>2, <2>1, InnerReturnsStep DEF ScriptEnds
  <2>2. CASE pc' = "loop" /\ UNCHANGED result
    BY <1>2, <2>2 DEF ScriptEnds
  <2> QED
    BY <1>2, <2>1, <2>2 DEF ScriptEnds
<1>3. CASE ScriptThrows
  BY <1>3, InnerReturnsStep DEF ScriptThrows
<1>4. CASE TickEnds
  <2>1. CASE pc = "loop" /\ InnerReturns("error")
    BY <1>4, <2>1, InnerReturnsStep DEF TickEnds, AfterTick
  <2>2. CASE pc = "grace" /\ pc' = "cancel" /\ UNCHANGED result
    BY <1>4, <2>2 DEF TickEnds, AfterTick
  <2>3. CASE UNCHANGED <<pc, result>>
    BY <1>4, <2>3 DEF TickEnds, AfterTick
  <2> QED
    BY <1>4, <2>1, <2>2, <2>3 DEF TickEnds, LoopReturns
<1>5. CASE Interrupt
  <2>1. CASE pc \in {"script", "loop"} /\ InnerReturns("terminated")
    BY <1>5, <2>1, InnerReturnsStep DEF Interrupt, Interrupted
  <2>2. CASE pc = "grace" /\ pc' = "cancel" /\ UNCHANGED result
    BY <1>5, <2>2 DEF Interrupt, Interrupted
  <2> QED
    BY <1>5, <2>1, <2>2 DEF Interrupt, LoopReturns
<1>6. CASE LoopEnds
  <2>1. CASE pc = "loop" /\ InnerReturns("ok")
    BY <1>6, <2>1, InnerReturnsStep DEF LoopEnds
  <2>2. CASE pc = "grace" /\ pc' = "cancel" /\ UNCHANGED result
    BY <1>6, <2>2 DEF LoopEnds
  <2> QED
    BY <1>6, <2>1, <2>2 DEF LoopEnds, LoopReturns
<1>7. CASE Probe
  BY <1>7 DEF Probe
<1>8. CASE GraceEnds
  BY <1>8 DEF GraceEnds
<1>9. CASE CancelTermination
  BY <1>9 DEF CancelTermination
<1>10. CASE Exit
  BY <1>10 DEF Exit, Timeouts!Disarm
<1>11. CASE Tick
  BY <1>11 DEF Tick, TickStarts, Receives
<1>12. CASE TickInterrupted
  <2>1. /\ js = "none" /\ requested /\ pc \in {"loop", "grace"}
        /\ messageLoop' \in {messageLoop, "over"}
        /\ taken' \in 0 .. sent
        /\ UNCHANGED <<js, timerVars, limit, executions, cpu, tasks, requested, overlooked,
                       sent, hostOpen>>
    BY <1>12 DEF TickInterrupted, TickStarts, Receives
  <2>2. CASE pc = "loop" /\ InnerReturns("terminated")
    BY <2>1, <2>2, InnerReturnsStep
  <2>3. CASE pc = "grace" /\ pc' = "cancel" /\ UNCHANGED result
    BY <2>1, <2>3
  <2> QED
    BY <1>12, <2>1, <2>2, <2>3 DEF TickInterrupted, LoopReturns
<1>13. CASE Expire
  BY <1>13 DEF Expire, Timeouts!Expire
<1>14. CASE Fire
  BY <1>14 DEF Fire, Timeouts!Fire
<1>15. CASE Pass
  BY <1>15 DEF Pass, Timeouts!Pass
<1>16. CASE HostSends
  BY <1>16 DEF HostSends
<1>17. CASE HostCloses
  BY <1>17 DEF HostCloses
<1>18. CASE UNCHANGED vars
  BY <1>18 DEF vars
<1> QED
  BY <1>1, <1>2, <1>3, <1>4, <1>5, <1>6, <1>7, <1>8, <1>9, <1>10, <1>11, <1>12,
     <1>13, <1>14, <1>15, <1>16, <1>17, <1>18 DEF Next, Script, Thread

\* The inductive invariant holds in every state of every execution.
LEMMA Invariance == Spec => []IInv
  BY InvInit, InvStep, PTL DEF Spec

\* Every variable keeps a value of its kind, JavaScript runs only where
\* execute_with_timeout says so, and every execution gets one result.
THEOREM TypeCorrect == Spec => []TypeOK
<1>1. IInv => TypeOK
  BY DEF IInv
<1> QED
  BY <1>1, Invariance, PTL

\* While the host holds its end of the channel only a deadline that has passed ends
\* hostMessageLoop, however many scripts and handlers fail.
THEOREM MessageLoopOutlivesErrors == Spec => []OnlyDeadlinesEndTheMessageLoop
<1>1. IInv => OnlyDeadlinesEndTheMessageLoop
  BY DEF IInv
<1> QED
  BY <1>1, Invariance, PTL

-----------------------------------------------------------------------------
(* What terminations cost.                                                 *)

\* The sets that are counted are finite.
LEMMA CountsAreFinite ==
  ASSUME TypeOK
  PROVE  /\ IsFiniteSet(Terminated) /\ Cardinality(Terminated) \in Nat
         /\ IsFiniteSet(fired) /\ Cardinality(fired) \in Nat
         /\ overlooked \in Nat
<1>1. IsFiniteSet(ExecutionIds)
  <2>1. MaxExecutions - 1 \in Int
    BY ConstantsAssumption
  <2> QED
    BY <2>1, FS_Interval DEF ExecutionIds
<1>2. Terminated \in SUBSET ExecutionIds /\ fired \in SUBSET ExecutionIds
  BY DEF Terminated, TypeOK
<1>3. IsFiniteSet(Terminated) /\ IsFiniteSet(fired)
  BY <1>1, <1>2, FS_Subset
<1>4. overlooked \in Nat
  BY ConstantsAssumption DEF TypeOK
<1> QED
  BY <1>3, <1>4, FS_CardinalityType

\* One result changes: the count grows by one at most, and not at all unless the
\* result is "terminated".
LEMMA OneResultCounts ==
  ASSUME TypeOK, NEW x, \A e \in ExecutionIds \ {x} : result'[e] = result[e]
  PROVE  /\ Cardinality(Terminated') \in Nat
         /\ Cardinality(Terminated') <= Cardinality(Terminated) + 1
         /\ result'[x] # "terminated" => Cardinality(Terminated') <= Cardinality(Terminated)
<1>1. IsFiniteSet(Terminated) /\ Cardinality(Terminated) \in Nat
  BY CountsAreFinite
<1>2. Terminated' \in SUBSET (Terminated \cup {x})
  BY DEF Terminated
<1>3. /\ IsFiniteSet(Terminated \cup {x})
      /\ Cardinality(Terminated \cup {x}) \in Nat
      /\ Cardinality(Terminated \cup {x}) <= Cardinality(Terminated) + 1
  BY <1>1, FS_AddElement, FS_CardinalityType
<1>4. /\ IsFiniteSet(Terminated')
      /\ Cardinality(Terminated') <= Cardinality(Terminated \cup {x})
  BY <1>2, <1>3, FS_Subset
<1>5. Cardinality(Terminated') \in Nat
  BY <1>4, FS_CardinalityType
<1>6. ASSUME result'[x] # "terminated"
      PROVE  Cardinality(Terminated') <= Cardinality(Terminated)
  <2>1. Terminated' \in SUBSET Terminated
    BY <1>6 DEF Terminated
  <2> QED
    BY <1>1, <2>1, FS_Subset
<1> QED
  BY <1>1, <1>3, <1>4, <1>5, <1>6

\* A return from execute_inner spends the request, if it reports a termination.
LEMMA InnerReturnsAccount ==
  ASSUME IInv, RequestsAreCovered, pc \in {"script", "loop"},
         NEW r \in Results \ {"none"}, InnerReturns(r), r = "terminated" => requested,
         UNCHANGED <<fired, overlooked>>
  PROVE  RequestsAreCovered'
<1>1. /\ \A e \in ExecutionIds \ {Current} : result'[e] = result[e]
      /\ result'[Current] = r /\ pc' = "probe"
  BY InnerReturnsResult
<1>2. /\ Cardinality(Terminated') \in Nat
      /\ Cardinality(Terminated') <= Cardinality(Terminated) + 1
      /\ r # "terminated" => Cardinality(Terminated') <= Cardinality(Terminated)
  BY <1>1, OneResultCounts DEF IInv
<1>3. /\ Cardinality(Terminated) \in Nat /\ Cardinality(fired) \in Nat /\ overlooked \in Nat
  BY CountsAreFinite DEF IInv
<1>4. Cardinality(Terminated') <= Cardinality(fired) + overlooked
  BY <1>2, <1>3 DEF RequestsAreCovered
<1>5. fired' = fired /\ overlooked' = overlooked
  OBVIOUS
<1> QED
  BY <1>1, <1>2, <1>3, <1>4, <1>5 DEF RequestsAreCovered

\* Nothing that counts changes, and no request becomes one that can be spent.
LEMMA SameAccount ==
  ASSUME IInv, RequestsAreCovered, UNCHANGED <<result, fired, overlooked>>,
         requested' => requested,
         requested' /\ pc' \in {"idle", "script", "loop", "exit"} =>
           pc \in {"idle", "script", "loop", "exit"}
  PROVE  RequestsAreCovered'
<1>1. Terminated' = Terminated /\ fired' = fired /\ overlooked' = overlooked
  BY DEF Terminated
<1>2. /\ Cardinality(Terminated) \in Nat /\ Cardinality(fired) \in Nat /\ overlooked \in Nat
  BY CountsAreFinite DEF IInv
<1> QED
  BY <1>1, <1>2 DEF RequestsAreCovered

\* Nothing is armed, fired or terminated before a thread begins a script.
LEMMA AccountsInit == Init => Accounts
<1> SUFFICES ASSUME Init PROVE Accounts
  OBVIOUS
<1>1. Timeouts!Armed = {} /\ expiring = NoTimer /\ fired = {}
  BY DEF Init, Timeouts!Init, Timeouts!Armed
<1>2. Terminated = {}
  BY DEF Init, Terminated
<1>3. requested = FALSE /\ overlooked = 0
  BY DEF Init
<1> QED
  BY <1>1, <1>2, <1>3, FS_EmptySet DEF Accounts, TimersFireOnce, RequestsAreCovered

\* Every step keeps the timers apart: what is armed was never used, what is chosen was
\* armed, and what fires was chosen.
LEMMA TimersStep ==
  ASSUME IInv, TimersFireOnce, [Next]_vars
  PROVE  TimersFireOnce'
<1> USE DEF TimersFireOnce, Timeouts!Armed, timerVars
<1>1. CASE Begin
  <2>1. CASE limit = None
    BY <1>1, <2>1 DEF Begin, Register
  <2>2. CASE limit # None
    <3>1. /\ DOMAIN due' = DOMAIN due \cup {executions} /\ executions \notin used
          /\ expiring = NoTimer /\ UNCHANGED <<expiring, fired>>
      BY <1>1, <2>2 DEF Begin, Register, Timeouts!Arm
    <3>2. executions # NoTimer /\ fired \subseteq used
      BY ConstantsAssumption DEF IInv, TypeOK, NoTimer
    <3> QED
      BY <3>1, <3>2
  <2> QED
    BY <2>1, <2>2
<1>2. CASE Exit
  BY <1>2 DEF Exit, Timeouts!Disarm
<1>3. CASE Expire
  BY <1>3 DEF Expire, Timeouts!Expire
<1>4. CASE Fire
  <2>1. /\ expiring # NoTimer /\ fired' = fired \cup {expiring} /\ expiring' = NoTimer
        /\ due' = due
    BY <1>4 DEF Fire, Timeouts!Fire
  <2>2. NoTimer \notin ExecutionIds /\ DOMAIN due \subseteq ExecutionIds
        /\ fired \subseteq ExecutionIds
    BY ConstantsAssumption DEF IInv, TypeOK, NoTimer, ExecutionIds
  <2> QED
    BY <2>1, <2>2
<1>5. CASE Pass
  BY <1>5 DEF Pass, Timeouts!Pass
<1>6. CASE \/ Script \/ Interrupt \/ LoopEnds \/ Probe \/ GraceEnds \/ CancelTermination
           \/ Tick \/ TickInterrupted \/ HostSends \/ HostCloses \/ UNCHANGED vars
  BY <1>6 DEF Script, ScriptEnds, ScriptThrows, TickEnds, Interrupt, LoopEnds, Probe,
     GraceEnds, CancelTermination, Tick, TickInterrupted, TickStarts, HostSends,
     HostCloses, vars
<1> QED
  BY <1>1, <1>2, <1>3, <1>4, <1>5, <1>6 DEF Next, Thread

\* A step that fires an entry or raises a request pays for each termination it adds.
LEMMA CoverStep ==
  ASSUME IInv, Accounts, [Next]_vars
  PROVE  RequestsAreCovered'
<1> USE DEF Accounts
<1> DEFINE T == Cardinality(Terminated)
           F == Cardinality(fired)
<1>1. T \in Nat /\ F \in Nat /\ overlooked \in Nat
  BY CountsAreFinite DEF IInv
<1>2. CASE Begin
  <2>1. CASE ~requested
    BY <1>2, <2>1, SameAccount DEF Begin, Register, Timeouts!Arm, timerVars
  <2>2. CASE requested
    <3>1. /\ result' = [result EXCEPT ![executions] = "terminated"]
          /\ pc = "idle" /\ pc' = "probe" /\ overlooked' = overlooked
      BY <1>2, <2>2 DEF Begin
    <3>2. fired' = fired
      BY <1>2 DEF Begin, Register, Timeouts!Arm, timerVars
    <3>3. Cardinality(Terminated') \in Nat /\ Cardinality(Terminated') <= T + 1
      BY <3>1, OneResultCounts DEF IInv, TypeOK
    <3>4. T + 1 <= F + overlooked
      BY <2>2, <3>1 DEF RequestsAreCovered
    <3>5. Cardinality(Terminated') <= F + overlooked
      BY <1>1, <3>3, <3>4
    <3> QED
      BY <1>1, <3>1, <3>2, <3>3, <3>5 DEF RequestsAreCovered
  <2> QED
    BY <2>1, <2>2
<1>3. CASE Script \/ Interrupt \/ LoopEnds \/ TickInterrupted
  <2>1. UNCHANGED <<fired, overlooked, requested>>
    BY <1>3 DEF Script, ScriptEnds, ScriptThrows, TickEnds, Interrupt, LoopEnds,
       TickInterrupted, TickStarts, timerVars, isolateVars
  <2>2. \/ \E r \in Results \ {"none"} :
             /\ pc \in {"script", "loop"} /\ InnerReturns(r) /\ (r = "terminated" => requested)
        \/ pc = "grace" /\ pc' = "cancel" /\ UNCHANGED result
        \/ pc \in {"script", "loop"} /\ UNCHANGED result
        \/ UNCHANGED <<pc, result>>
    BY <1>3 DEF Script, ScriptEnds, ScriptThrows, TickEnds, Interrupt, LoopEnds,
       TickInterrupted, TickStarts, LoopReturns, Results, IInv, TypeOK
  <2>3. CASE \E r \in Results \ {"none"} :
               pc \in {"script", "loop"} /\ InnerReturns(r) /\ (r = "terminated" => requested)
    BY <2>1, <2>3, InnerReturnsAccount
  <2>4. CASE /\ UNCHANGED result
             /\ pc' = "cancel" \/ pc \in {"script", "loop"} \/ pc' = pc
    BY <2>1, <2>4, SameAccount
  <2> QED
    BY <2>2, <2>3, <2>4
<1>4. CASE Probe
  <2>1. /\ UNCHANGED <<result, fired, requested>>
        /\ \/ pc' = "grace" /\ overlooked' = overlooked
           \/ pc' = "exit" /\ overlooked' = overlooked + (IF requested THEN 1 ELSE 0)
        /\ pc = "probe"
    BY <1>4 DEF Probe, timerVars
  <2>2. Terminated' = Terminated
    BY <2>1 DEF Terminated
  <2>3. T <= F + overlooked
    BY <1>1, <2>1 DEF RequestsAreCovered
  <2> QED
    BY <1>1, <2>1, <2>2, <2>3 DEF RequestsAreCovered
<1>5. CASE GraceEnds
  BY <1>5, SameAccount DEF GraceEnds, timerVars, isolateVars
<1>6. CASE CancelTermination
  BY <1>6, SameAccount DEF CancelTermination, timerVars, isolateVars
<1>7. CASE Exit
  BY <1>7, SameAccount DEF Exit, Timeouts!Disarm, timerVars, isolateVars
<1>8. CASE Fire
  <2>1. /\ UNCHANGED <<result, pc, overlooked>> /\ requested' = TRUE
        /\ fired' = fired \cup {expiring}
    BY <1>8 DEF Fire, Timeouts!Fire, threadVars
  <2>2. expiring \notin fired
    BY DEF TimersFireOnce
  <2>3. Cardinality(fired') = F + 1
    BY <2>1, <2>2, CountsAreFinite, FS_AddElement DEF IInv
  <2>4. Terminated' = Terminated
    BY <2>1 DEF Terminated
  <2>5. T <= F + overlooked
    BY <1>1 DEF RequestsAreCovered
  <2> QED
    BY <1>1, <2>1, <2>3, <2>4, <2>5 DEF RequestsAreCovered
<1>9. CASE Tick \/ Expire \/ Pass \/ HostSends \/ HostCloses \/ UNCHANGED vars
  <2>1. UNCHANGED <<pc, result, fired, overlooked, requested>>
    BY <1>9 DEF Tick, TickStarts, Expire, Timeouts!Expire, Pass, Timeouts!Pass,
       HostSends, HostCloses, vars, timerVars, threadVars, isolateVars
  <2> QED
    BY <2>1, SameAccount
<1> QED
  BY <1>2, <1>3, <1>4, <1>5, <1>6, <1>7, <1>8, <1>9 DEF Next, Script, Thread

\* Every execution that was terminated has a deadline of its own that passed, or a
\* request that the probe overlooked: none is terminated for what was paid before.
THEOREM TerminationsArePaidFor == Spec => []TerminationsAreAccountedFor
<1>1. IInv /\ Accounts /\ [Next]_vars => Accounts'
  BY TimersStep, CoverStep DEF Accounts
<1>2. IInv /\ Accounts => TerminationsAreAccountedFor
  <2> SUFFICES ASSUME IInv, Accounts PROVE TerminationsAreAccountedFor
    OBVIOUS
  <2>1. Cardinality(Terminated) \in Nat /\ Cardinality(fired) \in Nat /\ overlooked \in Nat
    BY CountsAreFinite DEF IInv
  <2> QED
    BY <2>1 DEF Accounts, RequestsAreCovered, TerminationsAreAccountedFor
<1> QED
  BY <1>1, <1>2, AccountsInit, Invariance, PTL DEF Spec

-----------------------------------------------------------------------------
(* The refinement. *)

\* What happens in an execution is not seen, unless the message loop ends.
LEMMA BusyStep ==
  ASSUME IInv, IInv', pc # "idle", pc' # "idle",
         UNCHANGED <<limit, executions, hostOpen>>,
         messageLoop = "over" => messageLoop' = "over"
  PROVE  [Life!Next]_(Life!vars)
<1>1. executions # 0
  BY DEF IInv, CountsAreBounded
<1>2. CASE (messageLoop = "over") <=> (messageLoop' = "over")
  BY <1>1, <1>2 DEF Life!vars
<1>3. CASE messageLoop # "over" /\ messageLoop' = "over"
  <2>1. limit # None \/ ~hostOpen
    <3>1. fired' # {} => limit # None
      BY DEF IInv, TypeOK, TimersHaveExecutions
    <3> QED
      BY <1>3, <3>1 DEF IInv, OnlyDeadlinesEndTheMessageLoop
  <2>2. Life!MessageLoopEnds
    BY <1>1, <1>3, <2>1 DEF Life!MessageLoopEnds, Life!MayEnd
  <2> QED
    BY <2>2 DEF Life!Next
<1> QED
  BY <1>2, <1>3

\* Every step of the execution is a step of an isolate's life or none.
LEMMA LifeStep == IInv /\ IInv' /\ [Next]_vars => [Life!Next]_(Life!vars)
<1> SUFFICES ASSUME IInv, IInv', [Next]_vars PROVE [Life!Next]_(Life!vars)
  OBVIOUS
<1> USE DEF timerVars, threadVars, isolateVars, hostVars
<1>1. CASE Begin
  <2>1. /\ pc = "idle" /\ pc' # "idle" /\ executions' # 0
        /\ UNCHANGED <<limit, messageLoop, hostOpen>>
    BY <1>1 DEF Begin, IInv, TypeOK
  <2>2. Life!Begin
    BY <2>1 DEF Life!Begin
  <2> QED
    BY <2>2 DEF Life!Next
<1>2. CASE \/ ScriptEnds \/ ScriptThrows \/ TickEnds \/ Interrupt \/ LoopEnds
           \/ Probe \/ GraceEnds \/ CancelTermination \/ Tick \/ TickInterrupted
  <2>1. UNCHANGED <<limit, executions, hostOpen>>
    BY <1>2 DEF ScriptEnds, ScriptThrows, TickEnds, Interrupt, LoopEnds, Probe,
       GraceEnds, CancelTermination, Tick, TickInterrupted, TickStarts
  <2>2. messageLoop = "over" => messageLoop' = "over"
    BY <1>2 DEF ScriptEnds, ScriptThrows, TickEnds, AfterTick, Interrupt, Interrupted,
       LoopEnds, Probe, GraceEnds, CancelTermination, Tick, TickInterrupted,
       TickStarts, Receives
  <2>3. pc # "idle" /\ pc' # "idle"
    BY <1>2 DEF ScriptEnds, ScriptThrows, TickEnds, Interrupt, LoopEnds, Probe,
       GraceEnds, CancelTermination, Tick, TickInterrupted, TickStarts, InnerReturns,
       LoopReturns, IInv, TypeOK
  <2> QED
    BY <2>1, <2>2, <2>3, BusyStep
<1>3. CASE Exit
  <2> DEFINE r == result[Current]
  <2>1. /\ pc = "exit" /\ pc' = "idle" /\ executions # 0
        /\ UNCHANGED <<limit, executions, result, messageLoop, hostOpen>>
    BY <1>3 DEF Exit, IInv, CountsAreBounded
  <2>2. Current \in ExecutionIds
    BY <2>1, ConstantsAssumption DEF IInv, TypeOK, ExecutionIds, Current
  <2>3. r \in {"ok", "error", "terminated"}
    <3>1. r \in Results
      BY <2>2 DEF IInv, TypeOK
    <3>2. (r = "none") <=>
            (Current > Current \/ (Current = Current /\ pc \in {"script", "loop"}))
      BY <2>2 DEF IInv, TypeOK
    <3>3. ~(Current > Current)
      BY <2>2, ConstantsAssumption DEF ExecutionIds
    <3> QED
      BY <2>1, <3>1, <3>2, <3>3 DEF Results
  <2>4. r = "ok" => messageLoop = "over"
    BY <2>1 DEF IInv, CompleteLeavesNobody
  <2>5. r = "terminated" => limit # None
    <3>1. r = "terminated" => fired # {}
      BY <2>2 DEF IInv, RequestsHaveDeadlines
    <3>2. fired # {} => used # {}
      BY DEF IInv, TypeOK
    <3> QED
      BY <3>1, <3>2 DEF IInv, TimersHaveExecutions
  <2>6. Life!Return(r)
    BY <2>1, <2>4, <2>5 DEF Life!Return, Life!MayEnd, Current
  <2> QED
    BY <2>3, <2>6 DEF Life!Next
<1>4. CASE HostCloses
  <2>1. Life!Release
    BY <1>4 DEF HostCloses, Life!Release, Current
  <2> QED
    BY <2>1 DEF Life!Next
<1>5. CASE Expire \/ Fire \/ Pass \/ HostSends \/ UNCHANGED vars
  BY <1>5 DEF Expire, Fire, Pass, HostSends, vars, Life!vars, Current
<1> QED
  BY <1>1, <1>2, <1>3, <1>4, <1>5 DEF Next, Script, Thread

\* An execution, with V8's late requests, the probe, the grace period and the host
\* message loop, is what the pool counts on from an isolate.
THEOREM LifeIsImplemented == Spec => ImplementsIsolateLife
<1>1. Init => Life!Init
  BY DEF Init, Life!Init
<1> QED
  BY <1>1, LifeStep, Invariance, PTL DEF Spec, ImplementsIsolateLife, Life!Spec

=============================================================================
