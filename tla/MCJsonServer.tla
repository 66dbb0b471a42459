----------------------------- MODULE MCJsonServer -----------------------------
(* JsonServer with a ring of four and some chunks, for TLC. *)
EXTENDS JsonServer

\* ~0u is beyond TLC's integers; any number that is no index does as well.
NoIndex == 1000

\* Whole documents with the three kinds of ends, two of them, a chunk without its
\* end, halves, a nested document, a long one, and three newlines.
SomeChunks ==
  { <<>>,
    <<Open, One, Close, Nul>>,
    <<Open, Two, Close, Newline>>,
    <<Open, Two, Close, Newline, Nul>>,
    <<Open, One, Close, Open, Two, Close, Nul>>,
    <<Open, One, Close, Newline, Open, One, Close, Nul>>,
    <<Open, One, Close>>,
    <<Open, One, Nul>>,
    <<Close, Nul>>,
    <<Open, Open, One, Close, Close, Nul>>,
    <<Open, One, One, One, Close, Nul>>,
    <<Two, Newline, Newline, Newline, Nul>> }

AllChars == {Open, Close, Newline, One, Two, Nul}
=============================================================================
