SPECIFICATION FairSpec
CONSTANTS
  t1 = t1
  t2 = t2
  k1 = k1
  k2 = k2
  Threads <- TwoThreads
  Tasks <- TwoTasks
  Capacity = 4
  DrainMax = 2
  NULL = NULL
INVARIANTS
  RingInv
  SlotRaceFree
PROPERTIES
  Linearizable
  LocksReleased
  TryPopReturns
