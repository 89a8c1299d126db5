----------------------------- MODULE MCSupervisor -----------------------------
(* Instances of Supervisor: the configurations give the constants. *)
EXTENDS Supervisor
=============================================================================
