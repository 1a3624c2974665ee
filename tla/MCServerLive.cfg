SPECIFICATION FairSpec
CONSTANTS
  main = main
  c1 = c1
  c2 = c2
  Main = main
  Pill <- MCPill
  NoValue = NoValue
  NoThread = NoThread
  Length = 3
  Consumers <- TwoConsumers
  Threads <- TwoConsumersThreads
  Fds <- FourFds
  Values <- FourValues
  POOL_SIZE = 1
  Requests = {"missing"}
  Commands = {"STATS", "SHUTDOWN"}
  MaxConnections = 2
  MaxCommands = 1
  MayLeave = FALSE
PROPERTIES
  RequestsServed
  ConnectionsAccepted
  ShutdownCompletes
