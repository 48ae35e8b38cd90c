--------------------------- MODULE TimeoutContract ---------------------------
(***************************************************************************)
(* What the timeout manager of src/src/pool.rs promises to                 *)
(* execute_with_timeout, without its mutex, condition variable, heap or    *)
(* thread: a set of one-shot timers.  A timer is armed once and then       *)
(* either disarmed or chosen to expire, in the order of the deadlines and  *)
(* never early; the one chosen fires in a later step, and disarming it in  *)
(* between comes too late.  No timer is armed in that window.              *)
(* That a due timer is served at all is stated on the implementation,      *)
(* TimeoutManager, where the fairness of its thread is.                    *)
(***************************************************************************)
EXTENDS Naturals

CONSTANTS
  Timers,   \* one per execution
  NoTimer   \* not one of them

VARIABLES
  clock,     \* the time
  due,       \* the deadline of every armed timer, and of no other
  used,      \* every timer that was ever armed
  expiring,  \* the timer chosen to fire, or NoTimer
  fired,     \* the timers that have fired
  stopped    \* the service was told to stop

vars == <<clock, due, used, expiring, fired, stopped>>

Armed == DOMAIN due

Init ==
  /\ clock = 0
  /\ due = [t \in {} |-> 0]
  /\ used = {}
  /\ expiring = NoTimer
  /\ fired = {}
  /\ stopped = FALSE

\* register: the deadline was computed some time ago and may be over.
Arm(t) ==
  /\ expiring = NoTimer
  /\ t \notin used
  /\ due' \in [Armed \cup {t} -> Nat]
  /\ \A u \in Armed : due'[u] = due[u]
  /\ used' = used \cup {t}
  /\ UNCHANGED <<clock, expiring, fired, stopped>>

\* cancel, or the drop of the handle.
Disarm(t) ==
  /\ t \in Armed
  /\ due' = [u \in Armed \ {t} |-> due[u]]
  /\ UNCHANGED <<clock, used, expiring, fired, stopped>>

\* A timer is due and none is due before it.
Expire(t) ==
  /\ expiring = NoTimer
  /\ t \in Armed
  /\ due[t] <= clock
  /\ \A u \in Armed : due[t] <= due[u]
  /\ due' = [u \in Armed \ {t} |-> due[u]]
  /\ expiring' = t
  /\ UNCHANGED <<clock, used, fired, stopped>>

\* terminate_execution.
Fire ==
  /\ expiring # NoTimer
  /\ fired' = fired \cup {expiring}
  /\ expiring' = NoTimer
  /\ UNCHANGED <<clock, due, used, stopped>>

\* stop, any number of times; a service told to stop may still fire timers.
Stop ==
  /\ ~stopped
  /\ stopped' = TRUE
  /\ UNCHANGED <<clock, due, used, expiring, fired>>

Pass ==
  /\ clock' = clock + 1
  /\ UNCHANGED <<due, used, expiring, fired, stopped>>

Next == \/ \E t \in Timers : Arm(t) \/ Disarm(t) \/ Expire(t)
        \/ Fire
        \/ Stop
        \/ Pass

Spec == Init /\ [][Next]_vars

=============================================================================
