----------------------------- MODULE BoundedFifo -----------------------------
(***************************************************************************)
(* What CircularBuffer promises: a queue of at most Capacity characters      *)
(* whose push() throws, and changes nothing, when it is full, and whose      *)
(* pop() throws when it is empty and else returns the oldest character.      *)
(***************************************************************************)
EXTENDS Integers, Sequences

CONSTANTS Capacity, Chars

VARIABLES
  contents,  \* the characters, oldest first
  outcome    \* how the last call ended

Init ==
  /\ contents = <<>>
  /\ outcome = <<"none">>

Push(c) ==
  \/ /\ Len(contents) < Capacity
     /\ contents' = Append(contents, c)
     /\ outcome' = <<"pushed", c>>
  \/ /\ Len(contents) = Capacity
     /\ outcome' = <<"overrun">>
     /\ UNCHANGED contents

Pop ==
  \/ /\ contents # <<>>
     /\ contents' = Tail(contents)
     /\ outcome' = <<"popped", Head(contents)>>
  \/ /\ contents = <<>>
     /\ outcome' = <<"underrun">>
     /\ UNCHANGED contents

Next == Pop \/ \E c \in Chars : Push(c)

Spec == Init /\ [][Next]_<<contents, outcome>>
=============================================================================
