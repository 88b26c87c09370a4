---------------------------- MODULE MCEventDelivery ----------------------------
(* Instances of EventDelivery for TLC. *)
EXTENDS EventDelivery
=============================================================================
