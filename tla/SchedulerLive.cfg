SPECIFICATION FairSpec
CONSTANTS
  c1 = c1
  k1 = k1
  k2 = k2
  k3 = k3
  WorkerCount = 2
  Clients <- OneClient
  Tasks <- ThreeTasks
  Roots <- ThreeTasks
  High <- NoTask
  Spawns <- NoSpawns
  LocalBound = 1
  GlobalBound = 1
  BATCH = 1
  EnablePriority = FALSE
  EnableStealing = FALSE
  Ops <- NoCancel
  NULL = NULL
INVARIANT ShutdownDrains
PROPERTIES
  ShutdownReturns
  QueuedTasksEnd
  WaitIdleReturns
