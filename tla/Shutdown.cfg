CONSTANTS
  Pids <- TwoPids
  NumPartners = 2
  MaxSignals = 2
SPECIFICATION FairSpec
INVARIANTS NoPartnerLeft NoWaitingCircle
PROPERTIES SupervisorEnds PartnerEnds
CHECK_DEADLOCK FALSE
