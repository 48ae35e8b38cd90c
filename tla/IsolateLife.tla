------------------------------ MODULE IsolateLife ------------------------------
(***************************************************************************)
(* What the pool of src/src/pool.rs counts on from one isolate, whatever   *)
(* its scripts do: it executes one script at a time, and its host message  *)
(* loop, once started, goes on until the host drops its end of the channel *)
(* or the isolate is dropped - or, where executions are limited, a         *)
(* termination ends it.  An execution is reported as complete only when    *)
(* nothing listens any more.                                               *)
(* WorkerPool, for every isolate, and IsolateExecution implement it.       *)
(***************************************************************************)

VARIABLES
  state,      \* none: not created yet.  idle.  busy: executing.  gone: dropped
  outcome,    \* of its last execution
  listening,  \* its host message loop has not ended
  held,       \* the host holds its end of the isolate's channel
  limited     \* there is an execution timeout

vars == <<state, outcome, listening, held, limited>>

Init ==
  /\ state \in {"none", "idle"}
  /\ listening = (state = "idle")
  /\ outcome = "none"
  /\ held = TRUE
  /\ limited \in BOOLEAN

Create ==
  /\ state = "none"
  /\ state' = "idle"
  /\ listening' = TRUE
  /\ UNCHANGED <<outcome, held, limited>>

Begin ==
  /\ state = "idle"
  /\ state' = "busy"
  /\ outcome' = "running"
  /\ UNCHANGED <<listening, held, limited>>

\* The message loop may end in an execution, for one of two reasons.
MayEnd == listening' \in {listening} \cup (IF limited \/ ~held THEN {FALSE} ELSE {})

MessageLoopEnds ==
  /\ state = "busy"
  /\ MayEnd
  /\ UNCHANGED <<state, outcome, held, limited>>

Return(r) ==
  /\ state = "busy"
  /\ state' = "idle"
  /\ outcome' = r
  /\ MayEnd
  /\ r = "ok" => ~listening'
  /\ r = "terminated" => limited
  /\ UNCHANGED <<held, limited>>

Release ==
  /\ held
  /\ held' = FALSE
  /\ UNCHANGED <<state, outcome, listening, limited>>

Drop ==
  /\ state = "idle"
  /\ state' = "gone"
  /\ listening' = FALSE
  /\ UNCHANGED <<outcome, held, limited>>

Next == \/ Create \/ Begin \/ MessageLoopEnds \/ Release \/ Drop
        \/ \E r \in {"ok", "error", "terminated"} : Return(r)

Spec == Init /\ [][Next]_vars

=============================================================================
