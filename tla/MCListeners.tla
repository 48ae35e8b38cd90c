------------------------------ MODULE MCListeners ------------------------------
(* Listeners on small instances: the values are in the .cfg files. *)
EXTENDS Listeners

=============================================================================
