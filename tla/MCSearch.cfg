SPECIFICATION FairSpec
CONSTANTS
  d1 = d1
  d2 = d2
  d3 = d3
  q1 = q1
  q2 = q2
  tail = tail
  Directories <- ThreeDirectories
  MaxWorkers = 2
  Queries = {q1, q2}
  Hits <- SomeHits
  Garbage = {0, 1}
  InfoGarbage = {1}
  Leftovers = {tail}
  PathCells = 1
  LineCells = 2
  Huge = 1000
  FifoCells = 3
  SocketPieces = 3
  Hashed <- OneHash
  MaxSearches = 2
INVARIANTS
  SearchTypeOK
  DirectoriesOnce
  AnswersExact
PROPERTIES
  StartupCompletes
  SearchAnswered
  WorkersEnd
