---------------------------- MODULE MCPollerServer ----------------------------
(* PollerServer with a listening socket and one connection, for TLC. *)
EXTENDS PollerServer

ListenerAndConnection == {3, 4}
=============================================================================
