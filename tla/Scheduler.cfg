SPECIFICATION Spec
CONSTANTS
  c1 = c1
  k1 = k1
  k2 = k2
  k3 = k3
  WorkerCount = 2
  Clients <- OneClient
  Tasks <- ThreeTasks
  Roots <- TwoTasks
  High <- LastTasks
  Spawns <- Nested
  LocalBound = 1
  GlobalBound = 1
  BATCH = 1
  EnablePriority = TRUE
  EnableStealing = TRUE
  Ops <- AllOps
  NULL = NULL
INVARIANTS
  SchedInv
  ExactlyOnePlace
  CountersMatch
PROPERTIES
  WaitedTasksEnded
  IdleIsQuiescent
