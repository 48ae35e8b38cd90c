------------------------------ MODULE MCMessaging ------------------------------
(* Messaging on small instances: the values are in the .cfg files. *)
EXTENDS Messaging

=============================================================================
