SPECIFICATION Spec
CONSTANTS
  setter = setter
  canceller = canceller
  waiter = waiter
  timed = timed
  registrar = registrar
  Role <- Roles5
  NULL = NULL
  Threads <- AllThreads
PROPERTY FulfilledStatusStays
