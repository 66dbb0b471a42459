CONSTANTS
  c1 = "c1" c2 = "c2"
  Callers <- TwoCallers
  Fds <- TwoFds
  NoFd = 0
  MaxTimes = 2
SPECIFICATION FairSpec
INVARIANTS NoCallAfterUnregister
PROPERTIES CallsReturn EventsServed
CHECK_DEADLOCK FALSE
