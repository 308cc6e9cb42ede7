------------------------------ MODULE MCEventHub ------------------------------
(* An instance of EventHub for TLC. *)
EXTENDS EventHub
=============================================================================
