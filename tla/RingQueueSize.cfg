SPECIFICATION SizeSpec
CONSTANTS
  t1 = t1
  t2 = t2
  o1 = o1
  k1 = k1
  Threads <- TwoThreads
  Tasks <- OneTask
  Observers <- OneObserver
  Capacity = 4
  DrainMax = 1
  NULL = NULL
PROPERTY SizeCountsTakenTasks
