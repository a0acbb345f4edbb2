SPECIFICATION PoolSpec
CONSTANTS
  main = main
  Width = 8
  Capacities <- SomeCapacities
  ThreadCounts <- SomeThreadCounts
  Cores <- SomeCores
  MinCapacity = 4
  MaxCapacity = 16
  MaxThreads = 2
  DefaultCapacity = 8
  Posix = FALSE
  SizeofPointer = 0
  NONE = NONE
  Clients <- OneClient
  Ranges <- SomeRanges
  NestedRanges <- InnerRanges
  CallConfigs <- TwoWorkers
  LongHalf = 4
INVARIANTS
  Accounted
  WorkersFindTheirData
  RingsInBounds
  OkMeansComplete
  NoRangeLeaks
  NestedCallNeverOk
PROPERTIES
  CallsEnd
  CallsReturn
