----------------------------- MODULE TextSplitter -----------------------------
(***************************************************************************)
(* What the JSON server promises: of all the characters that come, whoever    *)
(* sent them and in whatever pieces, those of one document at a time make up   *)
(* a text, in their order; when its last brace comes the whole text goes to    *)
(* the module that it is for, if it is for one, and nothing of it is kept.      *)
(* Only a text of more than Capacity characters, or one for a module that is    *)
(* not known yet, is the end.                                                  *)
(***************************************************************************)
EXTENDS Naturals, Sequences

CONSTANTS
  Capacity,     \* how long a text may be
  Chars,        \* the characters
  Open, Close,  \* the braces
  Addressed     \* the texts that are for a module, with its number

VARIABLES
  pending,  \* the text so far
  depth,    \* how many braces are open
  state,    \* "reading", "complete" once the last brace came, or "dead"
  known,    \* whether the modules are known
  handed    \* the texts handed out since the last piece came

splitterVars == <<pending, depth, state, known, handed>>

Init ==
  /\ pending = <<>>
  /\ depth = 0
  /\ state = "reading"
  /\ known = FALSE
  /\ handed = <<>>

LearnModules ==
  /\ ~known
  /\ known' = TRUE
  /\ UNCHANGED <<pending, depth, state, handed>>

\* Another piece, which may well continue a text.
NewPiece ==
  /\ state = "reading"
  /\ handed' = <<>>
  /\ UNCHANGED <<pending, depth, state, known>>

\* A character that belongs to the text, after which so many braces are open.
Keep(c, open) ==
  /\ state = "reading"
  /\ depth' = open
  /\ \/ /\ Len(pending) < Capacity
        /\ pending' = Append(pending, c)
        /\ state' = IF open = 0 THEN "complete" ELSE "reading"
     \/ /\ Len(pending) = Capacity
        /\ state' = "dead"
        /\ UNCHANGED pending
  /\ UNCHANGED <<known, handed>>

\* An inner closing brace does not belong to it; what stands between two documents
\* changes nothing at all.
DropInnerBrace ==
  /\ state = "reading"
  /\ depth > 1
  /\ depth' = depth - 1
  /\ UNCHANGED <<pending, state, known, handed>>

Read ==
  \/ Keep(Open, depth + 1)
  \/ depth = 1 /\ Keep(Close, 0)
  \/ depth > 0 /\ \E c \in Chars \ {Open, Close} : Keep(c, depth)
  \/ DropInnerBrace

HandOut(m) ==
  /\ state = "complete"
  /\ <<m, pending>> \in Addressed
  /\ IF known THEN /\ handed' = Append(handed, <<m, pending>>)
                   /\ pending' = <<>>
                   /\ state' = "reading"
              ELSE state' = "dead" /\ UNCHANGED <<pending, handed>>
  /\ UNCHANGED <<depth, known>>

Discard ==
  /\ state = "complete"
  /\ \A m \in {1, 2} : <<m, pending>> \notin Addressed
  /\ pending' = <<>>
  /\ state' = "reading"
  /\ UNCHANGED <<depth, known, handed>>

Next ==
  \/ LearnModules \/ NewPiece \/ Read \/ Discard
  \/ \E m \in {1, 2} : HandOut(m)

Spec == Init /\ [][Next]_splitterVars
=============================================================================
