SPECIFICATION MCSpec
CONSTANTS
  t1 = t1
  t2 = t2
  b1 = b1
  b2 = b2
  Threads <- TwoThreads
  Ptrs <- TwoPtrs
  Sizes <- SomeSizes
  Counts <- SomeCounts
  SIZE_MAX = 15
  Header = 2
  IntHalf = 4
  Build = "c11"
  NULL = NULL
  Width = 8
  NsPerSec = 100
  MsPerSec = 10
  TicksPerSec = 7
  TimeHalf = 4096
INVARIANT ClockMonotonic
