---------------------------- MODULE MCSelectServer ----------------------------
(* SelectServer with a few clients and as many descriptors, for TLC. *)
EXTENDS SelectServer

CONSTANTS c1, c2

TwoClients == {c1, c2}
=============================================================================
