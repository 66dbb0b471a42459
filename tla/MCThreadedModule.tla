-------------------------- MODULE MCThreadedModule --------------------------
(* ThreadedModule with model values for the messages, for TLC. *)
EXTENDS ThreadedModule

CONSTANT Work

\* What the JSON server passes on: any text a client puts into a message.
ClientTexts == {Work, Exit, Empty}

BothClasses == {"base", "derived"}
=============================================================================
