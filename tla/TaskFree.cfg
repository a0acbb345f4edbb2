SPECIFICATION TaskSpec
CONSTANTS
  executor = executor
  destroyer = destroyer
  closer = closer
  canceller = canceller
  waiter = waiter
  timed = timed
  registrar = registrar
  owner = waiter
  Threads <- FewThreads
  Role <- AllRoles
  Cancellers <- NoCanceller
  Careful = FALSE
  NULL = NULL
PROPERTY NoUseAfterFree
