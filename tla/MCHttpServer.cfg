SPECIFICATION Spec
CONSTANTS
  main = main
  c1 = c1
  c2 = c2
  Main = main
  Consumers <- TwoConsumers
  Threads <- TwoConsumersThreads
  Fds <- FourFds
  Values <- FourValues
  Pill <- MCPill
  NoValue = NoValue
  NoThread = NoThread
  POOL_SIZE = 1
  Requests = {"page", "vanished", "missing", "other"}
  Commands = {"STATS", "SHUTDOWN", "other"}
  Length = 3
  MaxConnections = 2
  MaxCommands = 1
  MayLeave = TRUE
SYMMETRY Symmetry
INVARIANTS
  ServerTypeOK
  HeldOnce
  PillIsLast
  PillNeverWaits
  CountsMatch
  CleanExit
