CONSTANTS
  Work = Work Exit = Exit Empty = Empty
  Messages <- ClientTexts
  Classes <- BothClasses
  MaxStarts = 2
  MaxLength = 2
SPECIFICATION FairSpec
INVARIANTS BaseStoppedMeansStopped ExitUnderway
PROPERTIES NothingAfterExit StopReturns
CHECK_DEADLOCK FALSE
