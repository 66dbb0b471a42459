CONSTANTS
  p1 = p1 p2 = p2 p3 = p3 p4 = p4 s1 = s1
  port1 = port1 port2 = port2 port3 = port3
  Pids <- TwoPids
  Strangers = {}
  Ports <- TwoPorts
  NumPartners = 1
  MaxMiss = 0
  MaxLines = 1
  Classes <- BothClasses
  Receiving <- SelectOnly
  NoPid = NoPid
  NoPort = NoPort
SPECIFICATION FairSpec
PROPERTIES DeadPartnerReplaced HeartbeatAnswered
CHECK_DEADLOCK FALSE
