------------------------- MODULE MCSupervisorShutdown -------------------------
(* SupervisorShutdown with two processes, for TLC. *)
EXTENDS SupervisorShutdown

TwoPids == {1, 2}
=============================================================================
