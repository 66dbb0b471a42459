--------------------------- MODULE JsonServerProofs ---------------------------
(***************************************************************************)
(* Proofs about JsonServer, for every ring size and all chunks: the ring, the *)
(* brace count and the text that is being popped fit together.               *)
(***************************************************************************)
EXTENDS JsonServer, CircularBufferProofs

\* What the ring holds of a document whose last brace is still to come.
Unfinished(s) ==
  /\ s # <<>> => s[1] = Open
  /\ \A k \in 1 .. Len(s) : s[k] # Close

\* A text as the parser gets it.
Finished(s) ==
  /\ s # <<>> /\ s[1] = Open
  /\ \A k \in 1 .. Len(s) : s[k] = Close <=> k = Len(s)

\* What is popped and what still has to be are together one finished text.
FormInv ==
  /\ jsonPc \in {"recv", "scan"} => Unfinished(Contents)
  /\ jsonPc = "drain" => Finished(jsonStr \o Contents)

\* Every open brace that counts stands for a character in the ring.
CountInv ==
  /\ jsonPc \in {"recv", "scan"} => curlyCount <= count /\ (curlyCount = 0 <=> count = 0)
  /\ jsonPc = "drain" => curlyCount = 0 /\ left = count

JsonInv == JsonTypeOK /\ RingInv /\ CountInv /\ FormInv

\* Every step of the server is a step of the ring or leaves it alone.
LEMMA JsonStepIsRingStep == [JsonNext]_jsonVars => [Next]_vars
<1> SUFFICES ASSUME [JsonNext]_jsonVars PROVE [Next]_vars
  OBVIOUS
<1> USE DEF Next, ringVars
<1>1. CASE SetModules
  BY <1>1 DEF SetModules
<1>2. ASSUME NEW received \in Chunks, HandleReceivedString(received) PROVE [Next]_vars
  BY <1>2 DEF HandleReceivedString
<1>3. CASE EndOfChunk
  BY <1>3 DEF EndOfChunk
<1>4. CASE OpenBrace
  BY <1>4, JsonAssumption DEF OpenBrace, PushThen
<1>5. CASE InnerBrace
  BY <1>5 DEF InnerBrace, CloseInner
<1>6. CASE OuterBrace
  BY <1>6, JsonAssumption DEF OuterBrace, CloseDocument, PushThen
<1>7. ASSUME NEW c \in Chars, KeepCharacter(c) PROVE [Next]_vars
  BY <1>7 DEF KeepCharacter, KeepFrom, PushThen
<1>8. ASSUME NEW c \in Chars, SkipCharacter(c) PROVE [Next]_vars
  BY <1>8 DEF SkipCharacter
<1>9. CASE PopOne
  BY <1>9 DEF PopOne, Pop
<1>10. CASE Distribute
  BY <1>10 DEF Distribute
<1>11. CASE Discard
  BY <1>11 DEF Discard
<1>12. CASE CallUnsetModule
  BY <1>12 DEF CallUnsetModule
<1>13. CASE UNCHANGED jsonVars
  BY <1>13 DEF jsonVars
<1> QED
  BY <1>1, <1>2, <1>3, <1>4, <1>5, <1>6, <1>7, <1>8, <1>9, <1>10, <1>11, <1>12, <1>13
  DEF JsonNext, Filter

\* A push kills the server or appends its character.
LEMMA PushThenFacts ==
  ASSUME RingInv, RingInv', NEW c \in Chars, NEW next, PushThen(c, next)
  PROVE  \/ jsonPc' = "overrun"
         \/ jsonPc' = next /\ count' = count + 1 /\ Contents' = Append(Contents, c)
<1>1. CASE Overrun
  BY <1>1 DEF PushThen, Overrun
<1>2. CASE Store(c)
  <2>1. Contents' = Append(Contents, c)
    BY <1>2, PushAppends
  <2>2. count' = count + 1 /\ outcome' = <<"pushed", c>>
    BY <1>2 DEF Store
  <2>3. <<"pushed", c>> # <<"overrun">>
    OBVIOUS
  <2> QED
    BY <2>1, <2>2, <2>3 DEF PushThen
<1> QED
  BY <1>1, <1>2 DEF PushThen, Push

\* A pop takes the ring's first character over into jsonStr.
LEMMA PopOneFacts ==
  ASSUME JsonTypeOK, RingInv, RingInv', PopOne
  PROVE  /\ jsonStr' \in Seq(Chars)
         /\ count' = count - 1
         /\ jsonStr' \o Contents' = jsonStr \o Contents
<1>1. Take /\ Pop /\ ~empty
  BY DEF PopOne, Pop, Take
<1>2. Contents # <<>> /\ Contents' = Tail(Contents) /\ outcome' = <<"popped", Head(Contents)>>
  BY <1>1, PopTakesOldest
<1>3. Contents \in Seq(Chars)
  BY ContentsHasForm DEF ContentsForm
<1>4. Head(Contents) \in Chars /\ Tail(Contents) \in Seq(Chars)
  BY <1>2, <1>3
<1>5. jsonStr' = Append(jsonStr, Head(Contents))
  BY <1>2 DEF PopOne
<1>6. jsonStr \in Seq(Chars)
  BY DEF JsonTypeOK
<1>7. Append(jsonStr, Head(Contents)) \o Tail(Contents) = jsonStr \o Contents
  BY <1>2, <1>3, <1>4, <1>6
<1>8. Append(jsonStr, Head(Contents)) \in Seq(Chars)
  BY <1>4, <1>6
<1>9. count' = count - 1
  BY <1>1 DEF Take
<1> QED
  BY <1>2, <1>5, <1>7, <1>8, <1>9, Zenon

\* Characters that are no closing brace keep a text unfinished, one finishes it.
LEMMA AppendToUnfinished ==
  ASSUME NEW s \in Seq(Chars), NEW c \in Chars, Unfinished(s)
  PROVE  /\ c # Close /\ (s = <<>> => c = Open) => Unfinished(Append(s, c))
         /\ c = Close /\ s # <<>> => Finished(Append(s, c))
<1>1. /\ Append(s, c) \in Seq(Chars) /\ Len(Append(s, c)) = Len(s) + 1
      /\ \A k \in 1 .. Len(s) : Append(s, c)[k] = s[k]
      /\ Append(s, c)[Len(s) + 1] = c
      /\ Append(s, c) # <<>>
  OBVIOUS
<1>2. s # <<>> => Len(s) >= 1
  OBVIOUS
<1>3. s = <<>> => Len(s) = 0
  OBVIOUS
<1> HIDE DEF Unfinished, Finished
<1>4. CASE s = <<>>
  BY <1>1, <1>3, <1>4 DEF Unfinished, Finished
<1>5. CASE s # <<>>
  BY <1>1, <1>2, <1>5 DEF Unfinished, Finished
<1> QED
  BY <1>4, <1>5

LEMMA JsonInvInit == JsonInit => JsonInv
<1> SUFFICES ASSUME JsonInit PROVE JsonInv
  OBVIOUS
<1>1. RingInv /\ count = 0
  BY BufferAssumption DEF JsonInit, Init, RingInv, empty, Slot, Indices
<1>2. Contents = <<>>
  <2>1. Contents \in Seq(Chars) /\ Len(Contents) = 0
    BY <1>1, ContentsHasForm DEF ContentsForm
  <2> QED
    BY <2>1
<1>3. CountInv
  BY <1>1 DEF JsonInit, CountInv
<1>4. JsonTypeOK
  <2>1. <<>> \in Seq({1, 2} \X Seq(Chars)) /\ <<>> \in Seq(Chars)
    OBVIOUS
  <2> QED
    BY <2>1 DEF JsonInit, JsonTypeOK
<1>5. FormInv
  <2>1. Unfinished(Contents)
    BY <1>2 DEF Unfinished
  <2> QED
    BY <2>1 DEF JsonInit, FormInv
<1> QED
  BY <1>1, <1>3, <1>4, <1>5 DEF JsonInv

\* The types, of which all but those of the ring are plain.
LEMMA JsonTypeStep ==
  JsonTypeOK /\ RingInv /\ RingInv' /\ [JsonNext]_jsonVars => JsonTypeOK'
<1> SUFFICES ASSUME JsonTypeOK, RingInv, RingInv', [JsonNext]_jsonVars PROVE JsonTypeOK'
  OBVIOUS
<1> USE DEF JsonTypeOK, scanVars, chunkVars
<1>1. CASE SetModules \/ EndOfChunk
  BY <1>1 DEF SetModules, EndOfChunk
<1>2. ASSUME NEW received \in Chunks, HandleReceivedString(received) PROVE JsonTypeOK'
  BY <1>2, JsonAssumption DEF HandleReceivedString
<1>3. CASE OpenBrace
  BY <1>3 DEF OpenBrace, PushThen
<1>4. CASE InnerBrace
  BY <1>4 DEF InnerBrace, CloseInner
<1>5. CASE OuterBrace
  <2>1. count' \in Nat
    BY DEF RingInv
  <2> QED
    BY <1>5, <2>1 DEF OuterBrace, CloseDocument, PushThen
<1>6. ASSUME NEW c \in Chars, KeepCharacter(c) \/ SkipCharacter(c) PROVE JsonTypeOK'
  BY <1>6 DEF KeepCharacter, KeepFrom, SkipCharacter, PushThen
<1>7. CASE PopOne
  <2>1. jsonStr' \in Seq(Chars)
    BY <1>7, PopOneFacts
  <2> QED
    BY <1>7, <2>1 DEF PopOne
<1>8. CASE Distribute
  <2>1. ModuleOf(jsonStr) \in {1, 2}
    BY <1>8 DEF Distribute, ModuleOf
  <2> QED
    BY <1>8, <2>1 DEF Distribute
<1>9. CASE Discard \/ CallUnsetModule
  BY <1>9 DEF Discard, CallUnsetModule
<1>10. CASE UNCHANGED jsonVars
  BY <1>10 DEF jsonVars
<1> QED
  BY <1>1, <1>2, <1>3, <1>4, <1>5, <1>6, <1>7, <1>8, <1>9, <1>10 DEF JsonNext, Filter

LEMMA JsonInvStep == JsonInv /\ [JsonNext]_jsonVars => JsonInv'
<1> SUFFICES ASSUME JsonInv, [JsonNext]_jsonVars, RingInv', JsonTypeOK'
             PROVE  CountInv' /\ FormInv'
  BY JsonTypeStep, JsonStepIsRingStep, RingStep DEF JsonInv
<1>a. JsonTypeOK /\ RingInv /\ CountInv /\ FormInv
  BY DEF JsonInv
<1>b. RingInv'
  OBVIOUS
<1>c. /\ Contents \in Seq(Chars) /\ Len(Contents) = count
      /\ count \in Nat
      /\ (count = 0 <=> Contents = <<>>)
  BY <1>a, ContentsHasForm, BufferAssumption DEF ContentsForm, RingInv
<1>d. {Open, Close} \subseteq Chars /\ Open # Close
  BY JsonAssumption
<1>1. ASSUME ringVars' = ringVars PROVE Contents' = Contents /\ count' = count
  BY <1>1, ContentsUnchanged DEF ringVars, vars
<1>2. ASSUME NEW received \in Chunks, HandleReceivedString(received)
      PROVE  CountInv' /\ FormInv'
  BY <1>a, <1>1, <1>2 DEF HandleReceivedString, CountInv, FormInv, Unfinished, Finished
<1>3. CASE SetModules \/ EndOfChunk
  BY <1>a, <1>1, <1>3 DEF SetModules, EndOfChunk, scanVars, CountInv, FormInv, Unfinished,
                          Finished
<1>4. CASE OpenBrace
  <2>1. /\ jsonPc = "scan" /\ curlyCount' = curlyCount + 1
        /\ PushThen(Open, "scan")
    BY <1>4 DEF OpenBrace, Reads
  <2>2. CASE jsonPc' = "overrun"
    BY <2>2 DEF CountInv, FormInv, Unfinished, Finished
  <2>3. CASE jsonPc' = "scan" /\ count' = count + 1 /\ Contents' = Append(Contents, Open)
    <3>1. Unfinished(Contents')
      BY <1>a, <1>c, <1>d, <2>1, <2>3, AppendToUnfinished DEF FormInv
    <3> QED
      BY <1>a, <1>c, <2>1, <2>3, <3>1 DEF CountInv, FormInv, Unfinished, Finished,
                                          JsonTypeOK
  <2> QED
    BY <1>a, <1>b, <1>d, <2>1, <2>2, <2>3, PushThenFacts
<1>5. CASE InnerBrace
  BY <1>a, <1>c, <1>1, <1>5 DEF InnerBrace, CloseInner, Reads, CountInv, FormInv,
                                Unfinished, Finished, JsonTypeOK
<1>6. CASE OuterBrace
  <2>1. /\ jsonPc = "scan" /\ curlyCount = 1 /\ curlyCount' = 0
        /\ left' = count' /\ jsonStr' = <<>>
        /\ PushThen(Close, "drain")
    BY <1>6 DEF OuterBrace, CloseDocument, Reads
  <2>2. CASE jsonPc' = "overrun"
    BY <2>2 DEF CountInv, FormInv, Unfinished, Finished
  <2>3. CASE jsonPc' = "drain" /\ count' = count + 1 /\ Contents' = Append(Contents, Close)
    <3>1. Finished(Contents')
      BY <1>a, <1>c, <1>d, <2>1, <2>3, AppendToUnfinished DEF FormInv, CountInv
    <3>2. jsonStr' \o Contents' = Contents'
      BY <1>c, <1>d, <2>1, <2>3
    <3> QED
      BY <2>1, <2>3, <3>1, <3>2 DEF CountInv, FormInv, Unfinished, Finished
  <2> QED
    BY <1>a, <1>b, <1>d, <2>1, <2>2, <2>3, PushThenFacts
<1>7. ASSUME NEW c \in Chars, KeepCharacter(c) PROVE CountInv' /\ FormInv'
  <2>1. /\ jsonPc = "scan" /\ curlyCount >= 1 /\ curlyCount' = curlyCount
        /\ c \notin {Open, Close}
        /\ PushThen(c, "scan")
    BY <1>7 DEF KeepCharacter, KeepFrom, Reads
  <2>2. CASE jsonPc' = "overrun"
    BY <2>2 DEF CountInv, FormInv, Unfinished, Finished
  <2>3. CASE jsonPc' = "scan" /\ count' = count + 1 /\ Contents' = Append(Contents, c)
    <3>1. Contents # <<>>
      BY <1>a, <1>c, <2>1 DEF CountInv, JsonTypeOK
    <3>2. Unfinished(Contents')
      BY <1>a, <1>c, <2>1, <2>3, <3>1, AppendToUnfinished DEF FormInv
    <3>3. CountInv'
      BY <1>a, <1>c, <2>1, <2>3 DEF CountInv, JsonTypeOK
    <3>4. FormInv'
      BY <2>3, <3>2 DEF FormInv
    <3> QED
      BY <3>3, <3>4
  <2> QED
    BY <1>a, <1>b, <2>1, <2>2, <2>3, PushThenFacts
<1>8. ASSUME NEW c \in Chars, SkipCharacter(c) PROVE CountInv' /\ FormInv'
  BY <1>a, <1>1, <1>8 DEF SkipCharacter, Reads, CountInv, FormInv, Unfinished, Finished
<1>9. CASE PopOne
  <2>1. /\ count' = count - 1 /\ jsonStr' \o Contents' = jsonStr \o Contents
    BY <1>a, <1>b, <1>9, PopOneFacts
  <2>2. /\ jsonPc = "drain" /\ jsonPc' = "drain" /\ left' = left - 1
        /\ curlyCount' = curlyCount
    BY <1>9 DEF PopOne
  <2> QED
    BY <1>a, <1>c, <2>1, <2>2 DEF CountInv, FormInv, Unfinished, Finished
<1>10. CASE Distribute \/ Discard
  <2>1. /\ jsonPc = "drain" /\ jsonPc' = "scan" /\ left = 0 /\ curlyCount' = curlyCount
        /\ count' = count /\ Contents' = Contents
    BY <1>1, <1>10 DEF Distribute, Discard
  <2>2. count = 0 /\ Contents = <<>>
    BY <1>a, <1>c, <2>1 DEF CountInv
  <2> QED
    BY <1>a, <2>1, <2>2 DEF CountInv, FormInv, Unfinished, Finished
<1>11. CASE CallUnsetModule
  BY <1>11 DEF CallUnsetModule, CountInv, FormInv, Unfinished, Finished
<1>12. CASE UNCHANGED jsonVars
  <2>1. Contents' = Contents /\ UNCHANGED <<count, jsonPc, curlyCount, left, jsonStr>>
    BY <1>1, <1>12 DEF jsonVars, ringVars
  <2> QED
    BY <1>a, <2>1 DEF CountInv, FormInv, Unfinished, Finished
<1> QED
  BY <1>2, <1>3, <1>4, <1>5, <1>6, <1>7, <1>8, <1>9, <1>10, <1>11, <1>12
  DEF JsonNext, Filter

THEOREM JsonInvariance == JsonSpec => []JsonInv
BY JsonInvInit, JsonInvStep, PTL DEF JsonSpec

\* Every variable of the server keeps its type; in particular curlyCount never gets
\* below zero.
THEOREM JsonTypes == JsonSpec => []JsonTypeOK
<1>1. JsonInv => JsonTypeOK
  BY DEF JsonInv
<1> QED
  BY <1>1, JsonInvariance, PTL

\* Between two characters the ring is empty exactly when no brace is open.
THEOREM RestsEmpty == JsonSpec => []AtRest
<1>1. JsonInv => AtRest
  BY DEF JsonInv, CountInv, RingInv, AtRest
<1> QED
  BY <1>1, JsonInvariance, PTL

\* A text for the parser begins with an opening brace and has one closing brace, at its
\* end, from whichever documents and clients its characters came.
THEOREM TextsCloseOnce == JsonSpec => []OneClosingBrace
<1>1. JsonInv => OneClosingBrace
  <2> SUFFICES ASSUME JsonInv, jsonPc = "drain", left = 0
               PROVE  /\ jsonStr # <<>> /\ Head(jsonStr) = Open
                      /\ \A k \in DOMAIN jsonStr : jsonStr[k] = Close <=> k = Len(jsonStr)
    BY DEF OneClosingBrace
  <2>1. count = 0 /\ RingInv /\ Finished(jsonStr \o Contents) /\ jsonStr \in Seq(Chars)
    BY DEF JsonInv, CountInv, FormInv, JsonTypeOK
  <2>2. Contents = <<>>
    BY <2>1, ContentsHasForm DEF ContentsForm
  <2>3. jsonStr \o Contents = jsonStr
    BY <2>1, <2>2
  <2>4. Finished(jsonStr)
    BY <2>1, <2>3
  <2> QED
    BY <2>1, <2>4 DEF Finished
<1> QED
  BY <1>1, JsonInvariance, PTL

\* The server uses the ring as the bounded queue that it is, and asks it for as
\* many characters as it holds.
THEOREM JsonRingIsFifo == JsonSpec => ImplementsFifo /\ []CountIsSize
<1>1. JsonInit => Init
  BY DEF JsonInit
<1>2. [JsonNext]_jsonVars => [Next]_vars
  BY JsonStepIsRingStep
<1>3. JsonSpec => Spec
  BY <1>1, <1>2, PTL DEF JsonSpec, Spec
<1> QED
  BY <1>3, RingIsFifo, CountsAgree, PTL

-----------------------------------------------------------------------------
(* The refinement of the splitter. *)

State == IF jsonPc = "drain" THEN "complete"
         ELSE IF jsonPc \in {"recv", "scan"} THEN "reading" ELSE "dead"

\* A push adds its character to the text that is read, or finds it as long as it may be.
LEMMA PushExtends ==
  ASSUME RingInv, RingInv', NEW c \in Chars, NEW next \in {"scan", "drain"},
         PushThen(c, next), jsonPc = "scan", next = "drain" => jsonStr' = <<>>
  PROVE  /\ Pending = Contents
         /\ \/ /\ Len(Pending) < Size /\ Pending' = Append(Pending, c) /\ jsonPc' = next
            \/ /\ Len(Pending) = Size /\ Pending' = Pending /\ jsonPc' = "overrun"
<1>1. Pending = Contents
  BY DEF Pending
<1>2. Contents \in Seq(Chars) /\ Len(Contents) = count
  BY ContentsHasForm DEF ContentsForm
<1>3. CASE Overrun
  <2>1. jsonPc' = "overrun" /\ Contents' = Contents
    BY <1>3, ContentsUnchanged DEF PushThen, Overrun
  <2>2. count = Size
    BY <1>3, BufferAssumption DEF Overrun, RingInv, empty, Slot, Indices
  <2> QED
    BY <1>1, <1>2, <2>1, <2>2 DEF Pending
<1>4. CASE Store(c)
  <2>1. count < Size /\ Contents' = Append(Contents, c)
    BY <1>4, PushAppends
  <2>2. outcome' # <<"overrun">>
    BY <1>4 DEF Store
  <2>3. jsonPc' = next
    BY <2>2 DEF PushThen
  <2>4. Pending' = Append(Contents, c)
    <3>1. CASE next = "scan"
      BY <2>1, <2>3, <3>1 DEF Pending
    <3>2. CASE next = "drain"
      <4>1. Pending' = <<>> \o Contents'
        BY <2>3, <3>2 DEF Pending
      <4>2. Append(Contents, c) \in Seq(Chars)
        BY <1>2
      <4> QED
        BY <2>1, <4>1, <4>2
    <3> QED
      BY <3>1, <3>2
  <2> QED
    BY <1>1, <1>2, <2>1, <2>3, <2>4
<1> QED
  BY <1>3, <1>4 DEF PushThen, Push

\* So the splitter keeps the character.
LEMMA PushKeeps ==
  ASSUME RingInv, RingInv', NEW c \in Chars, NEW next \in {"scan", "drain"},
         PushThen(c, next), jsonPc = "scan", next = "drain" => jsonStr' = <<>>,
         NEW depth \in Nat, curlyCount' = depth, next = "drain" <=> depth = 0,
         UNCHANGED <<modulesSet, handed>>
  PROVE  Splitter!Keep(c, depth)
<1>1. \/ Len(Pending) < Size /\ Pending' = Append(Pending, c) /\ jsonPc' = next
      \/ Len(Pending) = Size /\ Pending' = Pending /\ jsonPc' = "overrun"
  BY PushExtends
<1>2. State = "reading"
  BY DEF State
<1>3. /\ jsonPc' = next => State' = IF depth = 0 THEN "complete" ELSE "reading"
      /\ jsonPc' = "overrun" => State' = "dead"
  BY DEF State
<1> QED
  BY <1>1, <1>2, <1>3 DEF Splitter!Keep, State

\* What leaves the ring, the count and the position in the document alone is not seen.
LEMMA TextStays ==
  ASSUME UNCHANGED <<ringVars, jsonPc, jsonStr>>
  PROVE  Pending' = Pending /\ State' = State
BY ContentsUnchanged DEF Pending, State, ringVars, vars

LEMMA SplitterStep ==
  JsonInv /\ RingInv' /\ [JsonNext]_jsonVars => [Splitter!Next]_Splitter!splitterVars
<1> SUFFICES ASSUME JsonInv, RingInv', [JsonNext]_jsonVars
             PROVE  [Splitter!Next]_Splitter!splitterVars
  OBVIOUS
<1>a. JsonTypeOK /\ RingInv /\ CountInv
  BY DEF JsonInv
<1>b. Open \in Chars /\ Close \in Chars /\ Open # Close
  BY JsonAssumption
<1>u. ASSUME Pending' = Pending, State' = State, UNCHANGED <<curlyCount, modulesSet, handed>>
      PROVE  UNCHANGED Splitter!splitterVars
  BY <1>u DEF Splitter!splitterVars, State
<1>1. CASE SetModules
  <2>1. Pending' = Pending /\ State' = State
    BY <1>1, TextStays DEF SetModules, scanVars
  <2>2. Splitter!LearnModules
    BY <1>1, <2>1 DEF SetModules, Splitter!LearnModules, State, scanVars
  <2> QED
    BY <2>2 DEF Splitter!Next
<1>2. ASSUME NEW received \in Chunks, HandleReceivedString(received)
      PROVE  [Splitter!Next]_Splitter!splitterVars
  <2>1. Contents' = Contents
    BY <1>2, ContentsUnchanged DEF HandleReceivedString, ringVars, vars
  <2>2. Pending' = Pending /\ State = "reading" /\ State' = "reading"
    BY <1>2, <2>1 DEF HandleReceivedString, Pending, State
  <2>3. Splitter!NewPiece
    BY <1>2, <2>2 DEF HandleReceivedString, Splitter!NewPiece, State
  <2> QED
    BY <2>3 DEF Splitter!Next
<1>3. CASE EndOfChunk
  <2>1. Contents' = Contents
    BY <1>3, ContentsUnchanged DEF EndOfChunk, ringVars, vars
  <2> QED
    BY <1>3, <1>u, <2>1 DEF EndOfChunk, scanVars, Pending, State
<1>4. CASE OpenBrace
  <2>1. curlyCount \in Nat /\ PushThen(Open, "scan") /\ jsonPc = "scan"
    BY <1>4, <1>a DEF OpenBrace, Reads, JsonTypeOK
  <2>2. PICK depth \in Nat : depth = curlyCount + 1
    BY <2>1
  <2>3. Splitter!Keep(Open, depth)
    BY <1>4, <1>a, <1>b, <2>1, <2>2, PushKeeps DEF OpenBrace
  <2>4. Splitter!Keep(Open, curlyCount + 1)
    BY <2>2, <2>3 DEF Splitter!Keep
  <2> QED
    BY <2>4 DEF Splitter!Next, Splitter!Read
<1>5. CASE InnerBrace
  <2>1. Pending' = Pending /\ State' = State
    BY <1>5, TextStays DEF InnerBrace, CloseInner
  <2>2. curlyCount > 1 /\ State = "reading"
    BY <1>5 DEF InnerBrace, CloseInner, Reads, State
  <2>3. Splitter!DropInnerBrace
    BY <1>5, <2>1, <2>2 DEF InnerBrace, CloseInner, Splitter!DropInnerBrace, State
  <2> QED
    BY <2>3 DEF Splitter!Next, Splitter!Read
<1>6. CASE OuterBrace
  <2>1. /\ curlyCount = 1 /\ curlyCount' = 0 /\ jsonStr' = <<>> /\ jsonPc = "scan"
        /\ PushThen(Close, "drain")
        /\ UNCHANGED <<modulesSet, handed>>
    BY <1>6 DEF OuterBrace, CloseDocument, Reads
  <2>2. Splitter!Keep(Close, 0)
    BY <1>a, <1>b, <2>1, PushKeeps
  <2> QED
    BY <2>1, <2>2 DEF Splitter!Next, Splitter!Read
<1>7. ASSUME NEW c \in Chars, KeepCharacter(c) PROVE Splitter!Next
  <2>1. /\ curlyCount \in Nat /\ curlyCount > 0 /\ c \notin {Open, Close}
        /\ PushThen(c, "scan") /\ jsonPc = "scan"
        /\ UNCHANGED <<curlyCount, modulesSet, handed>>
    BY <1>7, <1>a DEF KeepCharacter, KeepFrom, Reads, JsonTypeOK
  <2>2. PICK depth \in Nat : depth = curlyCount
    BY <2>1
  <2>3. Splitter!Keep(c, depth)
    BY <1>a, <2>1, <2>2, PushKeeps
  <2>4. Splitter!Keep(c, curlyCount)
    BY <2>2, <2>3 DEF Splitter!Keep
  <2> QED
    BY <2>1, <2>4 DEF Splitter!Next, Splitter!Read
<1>8. ASSUME NEW c \in Chars, SkipCharacter(c) PROVE UNCHANGED Splitter!splitterVars
  BY <1>8, <1>u, TextStays DEF SkipCharacter
<1>9. CASE PopOne
  <2>1. jsonStr' \o Contents' = jsonStr \o Contents
    BY <1>9, <1>a, PopOneFacts
  <2> QED
    BY <1>9, <1>u, <2>1 DEF PopOne, Pending, State
<1>10. ASSUME jsonPc = "drain", left = 0 PROVE Contents = <<>> /\ Pending = jsonStr
  <2>1. Contents = <<>>
    BY <1>10, <1>a, ContentsHasForm DEF CountInv, ContentsForm
  <2> QED
    BY <1>10, <1>a, <2>1 DEF Pending, JsonTypeOK
<1>11. CASE Distribute \/ Discard
  <2>1. Pending = jsonStr /\ State = "complete" /\ jsonPc = "drain"
    BY <1>10, <1>11 DEF Distribute, Discard, State
  <2>2. Contents' = <<>> /\ jsonPc' = "scan"
    BY <1>10, <1>11, ContentsUnchanged DEF Distribute, Discard, ringVars, vars
  <2>3. Pending' = <<>> /\ State' = "reading"
    BY <2>2 DEF Pending, State
  <2>4. CASE Distribute
    <3>1. PICK m \in {1, 2} : m = ModuleOf(jsonStr)
      BY <2>4 DEF Distribute, ModuleOf
    <3>2. <<m, jsonStr>> \in {<<1, <<Open, One, Close>>>>, <<2, <<Open, Two, Close>>>>}
      BY <3>1 DEF ModuleOf
    <3>3. Splitter!HandOut(m)
      BY <2>1, <2>3, <2>4, <3>1, <3>2 DEF Distribute, Splitter!HandOut, State
    <3> QED
      BY <3>3 DEF Splitter!Next
  <2>5. CASE Discard
    <3>1. \A m \in {1, 2} :
            <<m, jsonStr>> \notin {<<1, <<Open, One, Close>>>>, <<2, <<Open, Two, Close>>>>}
      BY <2>5 DEF Discard, ModuleOf
    <3>2. Splitter!Discard
      BY <2>1, <2>3, <2>5, <3>1 DEF Discard, Splitter!Discard, State
    <3> QED
      BY <3>2 DEF Splitter!Next
  <2> QED
    BY <1>11, <2>4, <2>5
<1>12. CASE CallUnsetModule
  <2>1. Pending = jsonStr /\ State = "complete" /\ jsonPc = "drain"
    BY <1>10, <1>12 DEF CallUnsetModule, State
  <2>2. Contents' = Contents /\ jsonPc' = "segfault" /\ jsonStr' = jsonStr
    BY <1>12, ContentsUnchanged DEF CallUnsetModule, ringVars, vars, scanVars
  <2>3. Pending' = Pending /\ State' = "dead"
    BY <2>1, <2>2 DEF Pending, State
  <2>4. PICK m \in {1, 2} : m = ModuleOf(jsonStr)
    BY <1>12 DEF CallUnsetModule, ModuleOf
  <2>5. <<m, jsonStr>> \in {<<1, <<Open, One, Close>>>>, <<2, <<Open, Two, Close>>>>}
    BY <2>4 DEF ModuleOf
  <2>6. Splitter!HandOut(m)
    BY <1>12, <2>1, <2>3, <2>5 DEF CallUnsetModule, Splitter!HandOut, State, scanVars
  <2> QED
    BY <2>6 DEF Splitter!Next
<1>13. CASE UNCHANGED jsonVars
  BY <1>13, <1>u, TextStays DEF jsonVars, ringVars
<1> QED
  BY <1>1, <1>2, <1>3, <1>4, <1>5, <1>6, <1>7, <1>8, <1>9, <1>11, <1>12, <1>13
  DEF JsonNext, Filter

\* The server is the splitter, for every size of the ring and whatever comes in whatever
\* chunks.
THEOREM ServerIsSplitter == JsonSpec => ImplementsSplitter
<1>1. JsonInit => Splitter!Init
  <2> SUFFICES ASSUME JsonInit PROVE Splitter!Init
    OBVIOUS
  <2>1. RingInv /\ count = 0
    BY BufferAssumption DEF JsonInit, Init, RingInv, empty, Slot, Indices
  <2>2. Contents \in Seq(Chars) /\ Len(Contents) = 0
    BY <2>1, ContentsHasForm DEF ContentsForm
  <2>3. Pending = <<>>
    BY <2>2 DEF JsonInit, Pending
  <2> QED
    BY <2>3 DEF JsonInit, Splitter!Init
<1>2. JsonInv => RingInv
  BY DEF JsonInv
<1> QED
  BY <1>1, <1>2, SplitterStep, JsonInvariance, PTL
  DEF JsonSpec, ImplementsSplitter, Splitter!Spec
=============================================================================
