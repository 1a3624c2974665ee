SPECIFICATION FairSpec
CONSTANTS
  t1 = t1
  t2 = t2
  t3 = t3
  p1 = p1
  p2 = p2
  p3 = p3
  p4 = p4
  junk = junk
  s1 = s1
  s2 = s2
  Main = main
  NoThread = NoThread
  NoPage = NoPage
  NoJobExecutor = NoJobExecutor
  Start = p1
  Length = 3
  OldSites <- OneSite
  Pages <- ThreePages
  Site <- TwoSites3
  Threads <- TwoThreads
  Links <- Chain
  PointerBytes = {1}
  Tokens = {p2}
  ServerThreads = 2
  Commands = {"SHUTDOWN"}
  MaxCommands = 1
PROPERTY ShutdownStops
