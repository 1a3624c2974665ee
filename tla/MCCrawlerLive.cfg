SPECIFICATION FairSpec
CONSTANTS
  t1 = t1
  t2 = t2
  t3 = t3
  p1 = p1
  p2 = p2
  p3 = p3
  p4 = p4
  junk = junk
  s1 = s1
  s2 = s2
  Main = main
  NoThread = NoThread
  NoPage = NoPage
  NoJobExecutor = NoJobExecutor
  Start = p1
  Length = 3
  OldSites <- OneSite
  Pages <- ThreePages
  Site <- TwoSites3
  Threads <- ThreeThreads
  Links <- Triangle
  PointerBytes = {2}
  Tokens = {p1}
  ServerThreads = 3
  Commands = {}
  MaxCommands = 0
INVARIANTS
  FinishedMeansSaved
  IdleMeansDone
  SomebodyAwake
  CopyComplete
PROPERTY
  CrawlFinishes
