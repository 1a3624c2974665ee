SPECIFICATION PoolSpec
CONSTANTS
  t1 = t1
  t2 = t2
  t3 = t3
  t4 = t4
  fd1 = fd1
  pill = pill
  Threads <- MCThreads
  Values <- MCValues
  Pill = pill
  NoValue = NoValue
  NoThread = NoThread
  POOL_SIZE = 2
SYMMETRY Symmetry
INVARIANTS
  PoolTypeOK
  MutualExclusion
  RingConsistent
  OccupiedWritten
  NoLostNonempty
  NoLostNonfull
PROPERTY ImplementsQueue
