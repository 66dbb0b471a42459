CONSTANTS
  p1 = p1 p2 = p2 p3 = p3 p4 = p4 s1 = s1
  port1 = port1 port2 = port2 port3 = port3
  Pids <- TwoPidsAndStranger
  Strangers <- OneStranger
  Ports <- TwoPorts
  NumPartners = 2
  MaxMiss = 1
  MaxLines = 2
  Classes <- SelectOnly
  Receiving <- SelectOnly
  NoPid = NoPid
  NoPort = NoPort
SPECIFICATION Spec
INVARIANTS KillsOnlyOwnPartners
CHECK_DEADLOCK FALSE
