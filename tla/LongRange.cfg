SPECIFICATION PoolSpec
CONSTANTS
  main = main
  Width = 8
  Capacities <- OneCapacity
  ThreadCounts <- TwoThreads
  Cores <- TwoThreads
  MinCapacity = 4
  MaxCapacity = 16
  MaxThreads = 2
  DefaultCapacity = 8
  Posix = FALSE
  SizeofPointer = 0
  NONE = NONE
  Clients <- OneClient
  Ranges <- WholeLong
  NestedRanges <- NoRanges
  CallConfigs <- TwoWorkers
  LongHalf = 4
INVARIANT OkMeansComplete
