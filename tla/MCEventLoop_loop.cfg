SPECIFICATION Spec
CONSTANTS
  MaxSockets = 3
  MaxEvents = 7
  MaxWrites = 2
  MaxClients = 2
  MaxFd = 3
  MaxConns = 3
  MaxStarts = 2
  MaxQueue = 2
INVARIANTS
  SocketsConserved
  PoolsConserved
  EventsSuffice
  DescriptorsMatch
  SelectSeesAll
  ContextsConserved
CHECK_DEADLOCK FALSE
