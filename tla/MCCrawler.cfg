SPECIFICATION Spec
CONSTANTS
  t1 = t1
  t2 = t2
  t3 = t3
  p1 = p1
  p2 = p2
  p3 = p3
  p4 = p4
  junk = junk
  s1 = s1
  s2 = s2
  Main = main
  NoThread = NoThread
  NoPage = NoPage
  NoJobExecutor = NoJobExecutor
  Start = p1
  Length = 3
  OldSites <- OneSite
  Threads <- TwoThreads
  Pages <- WithJunk
  Links <- DiamondJunk
  Site <- TwoSitesJunk
  PointerBytes = {1, 2}
  Tokens = {junk}
  ServerThreads = 2
  Commands = {"STATS", "SEARCH", "SHUTDOWN", "other"}
  MaxCommands = 2
SYMMETRY Symmetry
INVARIANTS
  TypeOK
  MutualExclusion
  EveryURLOnce
  StatsConsistent
  QuietAfterJoin
  ExitsCounted
PROPERTY ImplementsCrawl
