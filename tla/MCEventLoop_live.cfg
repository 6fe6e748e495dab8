SPECIFICATION FairSpec
CONSTANTS
  MaxSockets = 3
  MaxEvents = 4
  MaxWrites = 2
  MaxClients = 1
  MaxFd = 1
  MaxConns = 2
  MaxStarts = 1
  MaxQueue = 2
PROPERTIES
  StopCloses
  WaitingAccepted
  ClosingReleases
CHECK_DEADLOCK FALSE
