--------------------------- MODULE MCIsolateExecution ---------------------------
(* IsolateExecution on small instances: the values are in the .cfg files. *)
EXTENDS IsolateExecution

=============================================================================
