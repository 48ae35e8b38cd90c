------------------------------ MODULE RequestLife ------------------------------
(***************************************************************************)
(* What one NETWORK.request of a worker may go through                     *)
(* (src/src/js/bootstrap_worker.js), whatever the other requests, the      *)
(* other workers and the batches they travel in do.  The host handles it   *)
(* at most once, after it was made and never after the isolate was         *)
(* destroyed (src/src/js/bootstrap.js).  Its promise is settled at most    *)
(* once, after that and as the handler decided - also when the isolate was *)
(* destroyed in between - and never if the handler threw.  The handler may *)
(* destroy the isolate itself.                                             *)
(* Messaging implements it, for every request of every worker.             *)
(***************************************************************************)
VARIABLES
  made,       \* the worker has made the request
  handlings,  \* the times it was handled, each with what was done
  promise,    \* how the promise was settled: "no", "resolved" or "rejected"
  destroyed   \* the isolate is destroyed

vars == <<made, handlings, promise, destroyed>>

\* How what the handler did may settle a promise: it settles none if it threw or could
\* not reply.  As what an error without a message arrives is left open.
SettledBy == [resolves |-> {"resolved"}, rejects |-> {"rejected"}, missing |-> {"rejected"},
              rejectsBlank |-> {"resolved", "rejected"}]

Init ==
  /\ made = FALSE
  /\ handlings = {}
  /\ promise = "no"
  /\ destroyed = FALSE

Make ==
  /\ ~made
  /\ made' = TRUE
  /\ UNCHANGED <<handlings, promise, destroyed>>

Handle ==
  /\ made /\ ~destroyed
  /\ handlings = {}
  /\ handlings' # {} /\ \A g, h \in handlings' : g = h
  /\ destroyed' \in BOOLEAN
  /\ UNCHANGED <<made, promise>>

Settle ==
  /\ promise = "no"
  /\ \E h \in handlings : h.did \in DOMAIN SettledBy /\ promise' \in SettledBy[h.did]
  /\ UNCHANGED <<made, handlings, destroyed>>

Destroy ==
  /\ ~destroyed
  /\ destroyed' = TRUE
  /\ UNCHANGED <<made, handlings, promise>>

Next == Make \/ Handle \/ Settle \/ Destroy

Spec == Init /\ [][Next]_vars

=============================================================================
