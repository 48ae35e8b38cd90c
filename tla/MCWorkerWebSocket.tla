--------------------------- MODULE MCWorkerWebSocket ---------------------------
(* WorkerWebSocket on small instances: the values are in the .cfg files. *)
EXTENDS WorkerWebSocket

=============================================================================
