SPECIFICATION TaskSpec
CONSTANTS
  executor = executor
  destroyer = destroyer
  closer = closer
  canceller = canceller
  waiter = waiter
  timed = timed
  registrar = registrar
  owner = waiter
  Threads <- CancelThreads
  Role <- AllRoles
  Cancellers <- OneCanceller
  Careful = TRUE
  NULL = NULL
INVARIANT CanceledNeverRuns
