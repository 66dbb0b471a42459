----------------------------- MODULE BlockingQueue -----------------------------
(***************************************************************************)
(* What a SafeQueue promises to those who call it and know of no mutex, no   *)
(* condition variable and no notification: an operation has its effect in     *)
(* one step, in which it takes the first element; while there is none it      *)
(* stays, and only those operations come back without one that may.           *)
(***************************************************************************)
EXTENDS Sequences

CONSTANTS
  Consumers,  \* those who take elements
  Values,     \* the elements
  Operations, \* what they call to take one
  Patient,    \* the operations that stay until they have one
  Hasty       \* the operations that may come back without looking

VARIABLES
  queue,  \* the elements
  inside  \* per consumer, the operation it is in, or "none"

queueVars == <<queue, inside>>

Init ==
  /\ queue = <<>>
  /\ inside = [c \in Consumers |-> "none"]

Put(v) ==
  /\ queue' = Append(queue, v)
  /\ UNCHANGED inside

Enter(c, o) ==
  /\ inside[c] = "none"
  /\ inside' = [inside EXCEPT ![c] = o]
  /\ UNCHANGED queue

\* A consumer takes the first element, at once or after it has waited.
TakeFirst(c) ==
  /\ queue # <<>>
  /\ queue' = Tail(queue)
  /\ inside' = [inside EXCEPT ![c] = "none"]

GiveUp(c) ==
  /\ inside[c] \notin Patient \cup {"none"}
  /\ queue = <<>> \/ inside[c] \in Hasty
  /\ inside' = [inside EXCEPT ![c] = "none"]
  /\ UNCHANGED queue

Next ==
  \/ \E v \in Values : Put(v)
  \/ \E c \in Consumers : \/ \E o \in Operations : Enter(c, o)
                          \/ TakeFirst(c) \/ GiveUp(c)

Spec == Init /\ [][Next]_queueVars
=============================================================================
