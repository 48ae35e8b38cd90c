--------------------------- MODULE MCTimeoutManager ---------------------------
(* TimeoutManager on small instances: the values are in the .cfg files. *)
EXTENDS TimeoutManager

=============================================================================
