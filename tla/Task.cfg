SPECIFICATION TaskFairSpec
CONSTANTS
  executor = executor
  destroyer = destroyer
  closer = closer
  canceller = canceller
  waiter = waiter
  timed = timed
  registrar = registrar
  owner = waiter
  Threads <- AllThreads
  Role <- AllRoles
  Cancellers <- OneCanceller
  Careful = TRUE
  NULL = NULL
INVARIANTS
  FutureInv
  WaitReturnsWrittenStatus
  NoMissedBroadcast
  CallbackNotLost
  CallbackOnce
  OkMeansRan
  FulfilledWhenFreed
PROPERTIES
  WaitersReturn
