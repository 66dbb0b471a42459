---------------------------- MODULE MCPollerModule ----------------------------
(* PollerModule with two descriptors and two calling threads, for TLC. *)
EXTENDS PollerModule

CONSTANTS c1, c2

TwoCallers == {c1, c2}
TwoFds == {3, 4}
=============================================================================
