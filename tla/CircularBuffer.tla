---------------------------- MODULE CircularBuffer ----------------------------
(***************************************************************************)
(* CircularBuffer, the character ring in every ThreadedModule, which the     *)
(* JSON server collects a message in: two indices into a vector, the read    *)
(* index doubling as the mark of the empty buffer, and a count beside them.   *)
(***************************************************************************)
EXTENDS Integers, Sequences

CONSTANTS
  Size,   \* the constructor's argument, data.size()
  EMPTY,  \* ~0u, which is no index
  Chars,  \* the characters
  Nul     \* what a new vector<char> is filled with

ASSUME BufferAssumption ==
  /\ Size \in Nat \ {0}
  /\ EMPTY \in Nat \ (0 .. Size - 1)
  /\ Nul \in Chars

VARIABLES data, write_ptr, read_ptr, count,
  outcome  \* how the last call ended: what it stored, returned or threw

vars == <<data, write_ptr, read_ptr, count, outcome>>

Indices == 0 .. Size - 1

empty == read_ptr = EMPTY

\* size() works from the indices: equal ones mean a full buffer.
size ==
  IF empty THEN 0
  ELSE IF write_ptr > read_ptr THEN write_ptr - read_ptr
  ELSE Size - read_ptr + write_ptr

Init ==
  /\ data = [i \in Indices |-> Nul]
  /\ write_ptr = 0
  /\ read_ptr = EMPTY
  /\ count = 0
  /\ outcome = <<"none">>

\* ++ptr, and back to 0 at the end of the vector.
Advance(ptr) == IF ptr + 1 = Size THEN 0 ELSE ptr + 1

Store(c) ==
  /\ write_ptr # read_ptr
  /\ data' = [data EXCEPT ![write_ptr] = c]
  /\ read_ptr' = IF empty THEN write_ptr ELSE read_ptr
  /\ write_ptr' = Advance(write_ptr)
  /\ count' = count + 1
  /\ outcome' = <<"pushed", c>>

Overrun ==
  /\ write_ptr = read_ptr
  /\ outcome' = <<"overrun">>
  /\ UNCHANGED <<data, write_ptr, read_ptr, count>>

\* Mistake: drop the character of a full buffer without a word.
PushOrDrop(c) ==
  \/ Store(c)
  \/ /\ write_ptr = read_ptr
     /\ outcome' = <<"pushed", c>>
     /\ UNCHANGED <<data, write_ptr, read_ptr, count>>

Push(c) == Store(c) \/ Overrun

Underrun ==
  /\ empty
  /\ outcome' = <<"underrun">>
  /\ UNCHANGED <<data, write_ptr, read_ptr, count>>

Take ==
  /\ ~empty
  /\ outcome' = <<"popped", data[read_ptr]>>
  /\ read_ptr' = IF Advance(read_ptr) = write_ptr THEN EMPTY ELSE Advance(read_ptr)
  /\ count' = count - 1
  /\ UNCHANGED <<data, write_ptr>>

Pop == Take \/ Underrun

Next == Pop \/ \E c \in Chars : Push(c)

Spec == Init /\ [][Next]_vars

-----------------------------------------------------------------------------
\* The index of the i-th oldest character, and the characters in their order.
Slot(i) == IF read_ptr + i - 1 < Size THEN read_ptr + i - 1
                                      ELSE read_ptr + i - 1 - Size
Contents == [i \in 1 .. size |-> data[Slot(i)]]

Fifo == INSTANCE BoundedFifo WITH Capacity <- Size, contents <- Contents

\* The ring is a bounded queue: every operation of the ring, the throwing ones
\* included, is that operation of the queue of its characters.
ImplementsFifo == Fifo!Spec

\* getCount(), after which the JSON server pops so many characters, and size(),
\* which follows from the indices, never come apart.
CountIsSize == count = size
=============================================================================
