----------------------------- MODULE MCWorkerPool -----------------------------
(* WorkerPool on small instances: the values are in the .cfg files. *)
EXTENDS WorkerPool

=============================================================================
