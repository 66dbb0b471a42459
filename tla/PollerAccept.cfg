CONSTANTS
  Callers = {}
  Fds <- ListenerAndConnection
  Listener = 3
  NoFd = 0
  MaxTimes = 1
SPECIFICATION ServerSpec
PROPERTIES AcceptedIsRegistered
CHECK_DEADLOCK FALSE
