SPECIFICATION FairSpec
CONSTANTS
  c1 = c1
  k1 = k1
  k2 = k2
  k3 = k3
  WorkerCount = 1
  Clients <- OneClient
  Tasks <- TwoTasks
  Roots <- TwoTasks
  High <- NoTask
  Spawns <- NoSpawns
  LocalBound = 2
  GlobalBound = 1
  BATCH = 2
  EnablePriority = TRUE
  EnableStealing = TRUE
  Ops <- NoShutdown
  NULL = NULL
PROPERTY WaitIdleReturns
