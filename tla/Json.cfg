CONSTANTS
  Open = "{" Close = "}" Newline = "newline" One = "1" Two = "2" Nul = "Nul"
  Size = 4
  EMPTY <- NoIndex
  Chars <- AllChars
  Chunks <- SomeChunks
SPECIFICATION JsonFairSpec
INVARIANTS AtRest OneClosingBrace
PROPERTIES ImplementsFifo ImplementsSplitter CleanChunkServed
CHECK_DEADLOCK FALSE
