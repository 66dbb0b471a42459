------------------------- MODULE CircularBufferProofs -------------------------
(***************************************************************************)
(* CircularBuffer implements BoundedFifo, for every size and every set of    *)
(* characters.                                                              *)
(***************************************************************************)
EXTENDS CircularBuffer, SequenceTheorems, TLAPS

\* Between the read and the write index lie exactly count characters.
RingInv ==
  /\ data \in [Indices -> Chars]
  /\ write_ptr \in Indices
  /\ read_ptr \in Indices \cup {EMPTY}
  /\ count \in 0 .. Size
  /\ empty <=> count = 0
  /\ ~empty => write_ptr = Slot(count + 1)

\* size() is the number of characters.
LEMMA SizeIsCount == RingInv => size = count
BY BufferAssumption DEF RingInv, size, empty, Slot, Indices

\* Every character has its place in the vector.
LEMMA SlotIsIndex ==
  ASSUME RingInv, NEW i \in 1 .. count PROVE Slot(i) \in Indices
BY BufferAssumption DEF RingInv, empty, Slot, Indices

\* What Contents looks like.
ContentsForm ==
  /\ Contents \in Seq(Chars)
  /\ Len(Contents) = count
  /\ \A i \in 1 .. count : Contents[i] = data[Slot(i)]

LEMMA ContentsHasForm == RingInv => ContentsForm
<1> SUFFICES ASSUME RingInv PROVE ContentsForm
  OBVIOUS
<1>1. Contents = [i \in 1 .. count |-> data[Slot(i)]]
  BY SizeIsCount DEF Contents
<1>2. \A i \in 1 .. count : data[Slot(i)] \in Chars
  BY SlotIsIndex DEF RingInv
<1>3. count \in Nat
  BY BufferAssumption DEF RingInv
<1> HIDE DEF Contents
<1> QED BY <1>1, <1>2, <1>3 DEF ContentsForm

LEMMA NextContentsHasForm == RingInv' => ContentsForm'
BY ContentsHasForm, PTL

LEMMA RingStep == RingInv /\ [Next]_vars => RingInv'
<1> SUFFICES ASSUME RingInv, [Next]_vars PROVE RingInv'
  OBVIOUS
<1> USE BufferAssumption DEF RingInv, empty, Slot, Indices, Advance
<1>1. ASSUME Pop, ~empty PROVE RingInv'
  <2>1. /\ read_ptr' = IF Advance(read_ptr) = write_ptr THEN EMPTY ELSE Advance(read_ptr)
        /\ count' = count - 1 /\ data' = data /\ write_ptr' = write_ptr
    BY <1>1 DEF Pop, Take, Underrun
  <2>2. count \in 1 .. Size
    BY <1>1
  <2>3. Advance(read_ptr) = write_ptr <=> count = 1
    BY <1>1, <2>2
  <2>4. ~empty' => write_ptr' = Slot(count + 1)'
    BY <1>1, <2>1, <2>2, <2>3
  <2> QED BY <1>1, <2>1, <2>2, <2>3, <2>4
<1>2. ASSUME NEW c \in Chars, Store(c) PROVE RingInv'
  <2>1. /\ data' \in [Indices -> Chars] /\ count' = count + 1
        /\ read_ptr' = IF empty THEN write_ptr ELSE read_ptr
        /\ write_ptr' = Advance(write_ptr) /\ write_ptr # read_ptr
    BY <1>2 DEF Store
  <2>2. count \in 0 .. Size - 1
    BY <2>1
  <2>3. ~empty' /\ write_ptr' \in Indices /\ read_ptr' \in Indices
    BY <2>1
  <2>4. write_ptr' = Slot(count + 1)'
    BY <2>1, <2>2, <2>3
  <2> QED BY <2>1, <2>2, <2>3, <2>4
<1>3. CASE UNCHANGED <<data, write_ptr, read_ptr, count>>
  BY <1>3
<1> QED BY <1>1, <1>2, <1>3 DEF Next, Push, Pop, Take, Underrun, Overrun, vars

\* A push that does not throw appends the character to the queue.
LEMMA PushAppends ==
  ASSUME RingInv, RingInv', NEW c \in Chars, Store(c)
  PROVE  count < Size /\ Contents' = Append(Contents, c)
<1>1. /\ count \in 0 .. Size - 1 /\ count' = count + 1
      /\ data' = [data EXCEPT ![write_ptr] = c] /\ write_ptr # read_ptr
      /\ read_ptr' = IF empty THEN write_ptr ELSE read_ptr
  BY BufferAssumption DEF RingInv, Store, empty, Slot, Indices
<1>2. ContentsForm /\ ContentsForm'
  BY ContentsHasForm, NextContentsHasForm
<1>3. \A i \in 1 .. count : Slot(i)' = Slot(i) /\ Slot(i) # write_ptr /\ Slot(i) \in Indices
  BY <1>1, BufferAssumption DEF RingInv, empty, Slot, Indices
<1>4. Slot(count)' = write_ptr
  BY <1>1, BufferAssumption DEF RingInv, empty, Slot, Indices
<1>5. \A i \in 1 .. count : data'[Slot(i)'] = data[Slot(i)]
  BY <1>1, <1>3 DEF RingInv
<1>6. data'[Slot(count)'] = c
  BY <1>1, <1>4 DEF RingInv
<1>7. Contents'[count'] = c
  BY <1>1, <1>2, <1>6 DEF ContentsForm
<1>8. \A i \in 1 .. count' : Contents'[i] = Append(Contents, c)[i]
  BY <1>1, <1>2, <1>5, <1>7 DEF ContentsForm
<1>9. Append(Contents, c) \in Seq(Chars) /\ Len(Append(Contents, c)) = count'
  BY <1>1, <1>2 DEF ContentsForm
<1>10. Contents' \in Seq(Chars) /\ Len(Contents') = count'
  BY <1>2 DEF ContentsForm
<1>11. Contents' = Append(Contents, c)
  BY <1>8, <1>9, <1>10, SeqEqual
<1> QED BY <1>1, <1>11, BufferAssumption

\* A pop that does not throw takes the oldest character from the queue.
LEMMA PopTakesOldest ==
  ASSUME RingInv, RingInv', Pop, ~empty
  PROVE  /\ Contents # <<>>
         /\ Contents' = Tail(Contents)
         /\ outcome' = <<"popped", Head(Contents)>>
<1>1. count \in 1 .. Size /\ count' = count - 1
  BY BufferAssumption DEF RingInv, Pop, Take, Underrun
<1>2. ContentsForm /\ ContentsForm'
  BY ContentsHasForm, NextContentsHasForm
<1>3. Contents # <<>> /\ Head(Contents) = data[read_ptr]
  BY <1>1, <1>2, BufferAssumption DEF ContentsForm, RingInv, Slot, Indices, empty
<1>0. /\ read_ptr' = IF Advance(read_ptr) = write_ptr THEN EMPTY ELSE Advance(read_ptr)
      /\ data' = data /\ write_ptr' = write_ptr
  BY DEF Pop, Take, Underrun
<1>4. \A i \in 1 .. count' : data'[Slot(i)'] = data[Slot(i + 1)]
  <2> SUFFICES ASSUME NEW i \in 1 .. count' PROVE Slot(i)' = Slot(i + 1)
    BY <1>0
  <2>1. ~empty' /\ read_ptr' = Advance(read_ptr)
    BY <1>1, <1>0 DEF RingInv, empty
  <2> QED BY <1>1, <2>1, BufferAssumption DEF RingInv, empty, Slot, Indices, Advance
<1>5. \A i \in 1 .. count' : Contents'[i] = Contents[i + 1]
  BY <1>1, <1>2, <1>4 DEF ContentsForm
<1>6. /\ Tail(Contents) \in Seq(Chars) /\ Len(Tail(Contents)) = count'
      /\ \A i \in 1 .. count' : Tail(Contents)[i] = Contents[i + 1]
  BY <1>1, <1>2, <1>3, HeadTailProperties DEF ContentsForm
<1>7. Contents' = Tail(Contents)
  BY <1>1, <1>2, <1>5, <1>6, SeqEqual DEF ContentsForm
<1> QED BY <1>3, <1>7 DEF Pop, Take, Underrun

\* Calls that throw leave the queue alone.
LEMMA ContentsUnchanged ==
  UNCHANGED <<data, write_ptr, read_ptr, count>> => Contents' = Contents
BY DEF Contents, size, empty, Slot

LEMMA StepRefines == RingInv /\ RingInv' /\ [Next]_vars => [Fifo!Next]_<<Contents, outcome>>
<1> SUFFICES ASSUME RingInv, RingInv', [Next]_vars
             PROVE  [Fifo!Next]_<<Contents, outcome>>
  OBVIOUS
<1>f. Contents \in Seq(Chars) /\ Len(Contents) = count
  BY ContentsHasForm DEF ContentsForm
<1> HIDE DEF Contents
<1>1. ASSUME Pop, ~empty PROVE Fifo!Pop
  BY <1>1, PopTakesOldest DEF Fifo!Pop
<1>2. ASSUME Underrun PROVE Fifo!Pop
  <2>1. Contents = <<>>
    BY <1>2, <1>f DEF RingInv, Underrun
  <2> QED BY <1>2, <2>1, ContentsUnchanged DEF Underrun, Fifo!Pop
<1>3. ASSUME NEW c \in Chars, Store(c) PROVE Fifo!Push(c)
  BY <1>3, <1>f, PushAppends DEF Store, Fifo!Push
<1>4. ASSUME NEW c \in Chars, Overrun PROVE Fifo!Push(c)
  <2>1. count = Size
    BY <1>4, BufferAssumption DEF Overrun, RingInv, empty, Slot, Indices
  <2> QED BY <1>4, <1>f, <2>1, ContentsUnchanged DEF Overrun, Fifo!Push
<1>5. CASE UNCHANGED vars
  BY <1>5, ContentsUnchanged DEF vars
<1> QED BY <1>1, <1>2, <1>3, <1>4, <1>5 DEF Next, Pop, Take, Underrun, Push, Fifo!Next

\* push() and pop() keep the two indices and the count of the ring in step.
THEOREM RingInvariance == Spec => []RingInv
<1>1. Init => RingInv
  BY BufferAssumption DEF Init, RingInv, empty, Slot, Indices
<1> QED BY <1>1, RingStep, PTL DEF Spec

\* getCount() and size() agree, whatever was pushed, popped and refused.
THEOREM CountsAgree == Spec => []CountIsSize
<1>1. RingInv => CountIsSize
  BY SizeIsCount DEF CountIsSize
<1> QED BY <1>1, RingInvariance, PTL

\* The ring implements the bounded queue.
THEOREM RingIsFifo == Spec => ImplementsFifo
<1>1. Init => Fifo!Init
  <2>1. Init => Contents = [i \in 1 .. 0 |-> data[Slot(i)]] /\ outcome = <<"none">>
    BY DEF Init, Contents, size, empty
  <2>2. [i \in 1 .. 0 |-> data[Slot(i)]] = <<>>
    OBVIOUS
  <2> QED BY <2>1, <2>2 DEF Fifo!Init
<1>2. RingInv /\ RingInv' /\ [Next]_vars => [Fifo!Next]_<<Contents, outcome>>
  BY StepRefines
<1> QED BY <1>1, <1>2, RingInvariance, PTL DEF Spec, ImplementsFifo, Fifo!Spec
=============================================================================
