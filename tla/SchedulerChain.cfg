SPECIFICATION Spec
CONSTANTS
  c1 = c1
  k1 = k1
  k2 = k2
  k3 = k3
  WorkerCount = 1
  Clients <- OneClient
  Tasks <- ThreeTasks
  Roots <- FirstTask
  High <- NoTask
  Spawns <- Chain
  LocalBound = 2
  GlobalBound = 1
  BATCH = 1
  EnablePriority = FALSE
  EnableStealing = FALSE
  Ops <- NoCancel
  NULL = NULL
PROPERTY IdleIsQuiescent
