------------------------------ MODULE MCOutbox ------------------------------
(* Three producers with two messages each, one stop request, one loop. *)
EXTENDS Outbox
=============================================================================
