------------------------------ MODULE JsonServer ------------------------------
(***************************************************************************)
(* JsonThreadedTCPServer: the chunks that recv() returns, of whichever      *)
(* client, go character by character through one brace count into one ring; *)
(* the brace that closes the outermost document empties the ring into a      *)
(* text, which json::parse() reads and one of two modules receives.          *)
(*                                                                         *)
(* A document is a brace, one letter that stands for its members, and a      *)
(* brace: the letters One and Two for the members of a message to module 1    *)
(* or 2.                                                                     *)
(***************************************************************************)
EXTENDS CircularBuffer, SequencesExt

CONSTANTS
  Open, Close, Newline, One, Two,  \* characters
  Chunks                           \* what one recv() may return

ASSUME JsonAssumption ==
  /\ {Open, Close, Newline, One, Two} \subseteq Chars
  /\ Open # Close
  /\ Chunks \subseteq Seq(Chars)

VARIABLES
  modulesSet,  \* whether modules[] holds the two modules, not two nullptr
  curlyCount,  \* the braces open, over all chunks
  jsonPc,      \* where the server thread is in filterJsonToRingBuffer, or how it died
  chunk,       \* recv_buffer
  i,           \* the scan's index
  left,        \* how many characters are still to be popped: count - j
  jsonStr,     \* what was popped
  opened,      \* curlyCount when the chunk came
  handed       \* the messages that this chunk sent, with their module

ringVars == vars
scanVars == <<curlyCount, i, left, jsonStr>>
chunkVars == <<chunk, opened>>
jsonVars == <<vars, modulesSet, curlyCount, jsonPc, chunk, i, left, jsonStr, opened,
              handed>>

\* The members that json::parse() finds; any other text is an exception or has
\* an id that is nobody's.
ModuleOf(text) ==
  CASE text = <<Open, One, Close>> -> 1
    [] text = <<Open, Two, Close>> -> 2
    [] OTHER -> 0

JsonTypeOK ==
  /\ modulesSet \in BOOLEAN
  /\ curlyCount \in Nat
  /\ jsonPc \in {"recv", "scan", "drain", "overrun", "segfault"}
  /\ chunk \in Seq(Chars)
  /\ i \in Nat
  /\ left \in Nat
  /\ jsonStr \in Seq(Chars)
  /\ opened \in Nat
  /\ handed \in Seq({1, 2} \X Seq(Chars))

JsonInit ==
  /\ Init
  /\ modulesSet = FALSE
  /\ curlyCount = 0
  /\ jsonPc = "recv"
  /\ chunk = <<>>
  /\ i = 0
  /\ left = 0
  /\ jsonStr = <<>>
  /\ opened = 0
  /\ handed = <<>>

-----------------------------------------------------------------------------
\* The received string ends at the first Nul and loses its newlines, but the scan
\* goes on to bytesRecv - 1: past the text it reads the terminator, and then
\* whatever lies behind the string.
Text(received) ==
  LET nul == SelectInSeq(received, LAMBDA c : c = Nul)
      kept == IF nul = 0 THEN received ELSE SubSeq(received, 1, nul - 1)
  IN  SelectSeq(kept, LAMBDA c : c # Newline)

MayRead(received, index) ==
  IF index < Len(Text(received)) THEN {Text(received)[index + 1]}
  ELSE IF index = Len(Text(received)) THEN {Nul} ELSE Chars

\* The owner's call, at any time.
SetModules ==
  /\ ~modulesSet
  /\ modulesSet' = TRUE
  /\ UNCHANGED <<ringVars, scanVars, jsonPc, chunkVars, handed>>

\* A chunk of some client; the empty one is a recv() that returned -1.
HandleReceivedString(received) ==
  /\ jsonPc = "recv"
  /\ jsonPc' = "scan"
  /\ chunk' = received
  /\ i' = 0
  /\ opened' = curlyCount
  /\ handed' = <<>>
  /\ jsonStr' = <<>>
  /\ UNCHANGED <<ringVars, modulesSet, curlyCount, left>>

\* Mistake: leave out two bytes at the end.
ScanEndEarly == Len(chunk) - 2

\* The last byte of a chunk, taken for its terminator, is not looked at.
ScanEnd == Len(chunk) - 1

EndOfChunk ==
  /\ jsonPc = "scan"
  /\ i >= ScanEnd
  /\ jsonPc' = "recv"
  /\ UNCHANGED <<ringVars, modulesSet, scanVars, chunkVars, handed>>

Reads(c) ==
  /\ jsonPc = "scan"
  /\ i < ScanEnd
  /\ c \in MayRead(chunk, i)

\* push() throws into the server thread, where nobody catches it.
PushThen(c, next) ==
  /\ Push(c)
  /\ jsonPc' = IF outcome' = <<"overrun">> THEN "overrun" ELSE next

OpenBrace ==
  /\ Reads(Open)
  /\ curlyCount' = curlyCount + 1
  /\ PushThen(Open, "scan")
  /\ i' = i + 1
  /\ UNCHANGED <<modulesSet, left, jsonStr, chunkVars, handed>>

CloseInner(allowed) ==
  /\ Reads(Close)
  /\ curlyCount \in allowed
  /\ curlyCount' = curlyCount - 1
  /\ i' = i + 1
  /\ UNCHANGED <<ringVars, modulesSet, jsonPc, left, jsonStr, chunkVars, handed>>

\* Mistake: count a closing brace that closes nothing.
InnerBraceAtZero == CloseInner(Nat \ {1})

\* An inner closing brace is counted and not kept.
InnerBrace == CloseInner(Nat \ {0, 1})

CloseDocument(popped) ==
  /\ Reads(Close)
  /\ curlyCount = 1
  /\ curlyCount' = 0
  /\ PushThen(Close, "drain")
  /\ left' = popped
  /\ jsonStr' = <<>>
  /\ UNCHANGED <<modulesSet, i, chunkVars, handed>>

\* Mistake: getCount() before the last push().
CountFirst == CloseDocument(count)

OuterBrace == CloseDocument(count')

KeepFrom(depth, c) ==
  /\ Reads(c)
  /\ c \notin {Open, Close}
  /\ curlyCount >= depth
  /\ PushThen(c, "scan")
  /\ i' = i + 1
  /\ UNCHANGED <<modulesSet, curlyCount, left, jsonStr, chunkVars, handed>>

\* Mistake: keep what stands between two documents.
KeepEverything(c) == KeepFrom(0, c)

KeepCharacter(c) == KeepFrom(1, c)

SkipCharacter(c) ==
  /\ Reads(c)
  /\ c # Open
  /\ curlyCount = 0
  /\ i' = i + 1
  /\ UNCHANGED <<ringVars, modulesSet, curlyCount, jsonPc, left, jsonStr, chunkVars,
                 handed>>

PopOne ==
  /\ jsonPc = "drain"
  /\ left > 0
  /\ Take
  /\ jsonStr' = Append(jsonStr, outcome'[2])
  /\ left' = left - 1
  /\ UNCHANGED <<modulesSet, curlyCount, jsonPc, i, chunkVars, handed>>

\* triggerParseJsonDistribute(): the text goes to its module, to nobody when the
\* parser or the access to a member throws, or through a null pointer.
Distribute ==
  /\ jsonPc = "drain"
  /\ left = 0
  /\ ModuleOf(jsonStr) # 0
  /\ modulesSet
  /\ handed' = Append(handed, <<ModuleOf(jsonStr), jsonStr>>)
  /\ jsonPc' = "scan"
  /\ i' = i + 1
  /\ UNCHANGED <<ringVars, modulesSet, curlyCount, left, jsonStr, chunkVars>>

Discard ==
  /\ jsonPc = "drain"
  /\ left = 0
  /\ ModuleOf(jsonStr) = 0
  /\ jsonPc' = "scan"
  /\ i' = i + 1
  /\ UNCHANGED <<ringVars, modulesSet, curlyCount, left, jsonStr, chunkVars, handed>>

CallUnsetModule ==
  /\ jsonPc = "drain"
  /\ left = 0
  /\ ModuleOf(jsonStr) # 0
  /\ ~modulesSet
  /\ jsonPc' = "segfault"
  /\ UNCHANGED <<ringVars, modulesSet, scanVars, chunkVars, handed>>

Filter ==
  \/ EndOfChunk \/ OpenBrace \/ InnerBrace \/ OuterBrace
  \/ \E c \in Chars : KeepCharacter(c) \/ SkipCharacter(c)
  \/ PopOne \/ Distribute \/ Discard \/ CallUnsetModule

JsonNext ==
  \/ SetModules
  \/ \E received \in Chunks : HandleReceivedString(received)
  \/ Filter

JsonSpec == JsonInit /\ [][JsonNext]_jsonVars

\* The server thread works off the chunk it has.
JsonFairSpec == JsonSpec /\ WF_jsonVars(Filter)

-----------------------------------------------------------------------------
\* The characters of the document that is read or handed out, wherever they are.
Pending == IF jsonPc \in {"drain", "segfault"} THEN jsonStr \o Contents ELSE Contents

Splitter == INSTANCE TextSplitter WITH
  Capacity <- Size,
  Addressed <- {<<1, <<Open, One, Close>>>>, <<2, <<Open, Two, Close>>>>},
  pending <- Pending,
  depth <- curlyCount,
  state <- IF jsonPc = "drain" THEN "complete"
           ELSE IF jsonPc \in {"recv", "scan"} THEN "reading" ELSE "dead",
  known <- modulesSet

\* Seen from outside, the ring, the count beside it, the loop that pops so many characters
\* and the chunks they came in are a splitter of one stream into texts: what is handed
\* out is what was kept since the last text, all of it and in its order, and the end comes
\* with the first character too many or for want of the modules and not otherwise.
ImplementsSplitter == Splitter!Spec

-----------------------------------------------------------------------------
\* Between two characters no brace is open exactly when the ring is empty, from
\* whichever chunks and clients the characters came: nothing of a finished
\* document is left for the next one and no open one is forgotten.
AtRest ==
  jsonPc \in {"recv", "scan"} => (curlyCount = 0 <=> empty)

\* The text for the parser starts with an opening brace, and its only closing brace is its
\* last character, inner ones being dropped.  So one flat document never follows another
\* in one text, but it may have got between the characters of one: {1{2} has the form.
OneClosingBrace ==
  jsonPc = "drain" /\ left = 0 =>
    /\ jsonStr # <<>> /\ Head(jsonStr) = Open
    /\ \A k \in DOMAIN jsonStr : jsonStr[k] = Close <=> k = Len(jsonStr)

\* Each document the ring had room for, in its place.
Documents == {<<Open, One, Close>>, <<Open, Two, Close>>}
Sent(documents) == [k \in DOMAIN documents |-> <<ModuleOf(documents[k]), documents[k]>>]

\* A chunk of whole documents, with something behind the last one that belongs to
\* none and not so many newlines that the scan leaves the string.
IsClean(received, documents) ==
  /\ Text(received) = FlattenSeq(documents)
  /\ Len(received) - 1 \in Len(Text(received)) .. Len(Text(received)) + 1

\* Whole flat documents that come in one chunk while no brace is open are handed to
\* their modules, each once and in their order, and the server survives it,
\* provided setModules() was called.
CleanChunkServed ==
  \A documents \in BoundedSeq(Documents, 2) :
    jsonPc = "scan" /\ i = 0 /\ opened = 0 /\ modulesSet /\ IsClean(chunk, documents)
      ~> jsonPc = "recv" /\ handed = Sent(documents)
=============================================================================
