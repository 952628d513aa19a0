SPECIFICATION FairSpec
CONSTANTS
  i1 = i1
  n1 = n1
  n2 = n2
  b1 = b1
  i2 = i2
  build = build
  None = None
  InteractiveTasks <- MCInteractive
  NearTasks <- MCNear
  BackgroundTasks <- MCBackground
  Preemptible <- MCPreemptible
INVARIANTS
  TypeOK
  SlotsHoldLiveBodies
  HigherLanesExclude
  NoLostWakeup
PROPERTIES
  ImplementsContract
  EveryQueuedTaskSettles
