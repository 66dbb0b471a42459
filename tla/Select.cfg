CONSTANTS
  c1 = c1 c2 = c2
  Clients <- TwoClients
  NoClient = NoClient
  MaxFd = 2
  Master = Master
  MaxLength = 2
SPECIFICATION FairSpec
INVARIANTS ListIsOpenClients BlockedOnlyPastEnd HandledUnderItsPort
PROPERTIES InputReceived StopReturns
CHECK_DEADLOCK FALSE
