SPECIFICATION Spec
CONSTANTS
  main = main
  c1 = c1
  c2 = c2
  Main = main
  Pill <- MCPill
  NoValue = NoValue
  NoThread = NoThread
  Length = 3
  Consumers <- OneConsumer
  Threads <- OneConsumerThreads
  Fds <- FiveFds
  Values <- FiveValues
  POOL_SIZE = 1
  Requests = {"page", "forbidden"}
  Commands = {}
  MaxConnections = 6
  MaxCommands = 0
  MayLeave = FALSE
INVARIANTS
  NeverAborts
  DescriptorBound
