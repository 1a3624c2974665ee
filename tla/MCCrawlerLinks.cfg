SPECIFICATION Spec
CONSTANTS
  t1 = t1
  t2 = t2
  t3 = t3
  p1 = p1
  p2 = p2
  p3 = p3
  p4 = p4
  junk = junk
  s1 = s1
  s2 = s2
  Main = main
  NoThread = NoThread
  NoPage = NoPage
  NoJobExecutor = NoJobExecutor
  Start = p1
  Length = 3
  OldSites <- OneSite
  Pages <- ThreePages
  Site <- TwoSites3
  Threads <- TwoThreads
  Links <- Triangle
  PointerBytes = {0, 1, 2}
  Tokens = {p2}
  ServerThreads = 2
  Commands = {}
  MaxCommands = 0
SYMMETRY Symmetry
INVARIANT CopyComplete
