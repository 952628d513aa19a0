SPECIFICATION FairSpec
CONSTANTS
  a = a
  b = b
  c = c
  Workers = {w1, w2}
  NoTask = NoTask
  NoBatch = NoBatch
  Files <- MCFiles
  Tasks <- MCTasks
  MaxDeaths = 1
  BatchSize = 2
INVARIANTS
  TypeOK
  PendingTasksAreHeld
  NoWorkerIdlesBesideTheQueue
  ReportMatchesIndex
PROPERTIES
  EveryTaskSettles
  PassEnds
CHECK_DEADLOCK FALSE
