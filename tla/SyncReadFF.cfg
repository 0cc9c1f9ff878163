SPECIFICATION ClientSpec
CONSTANTS
  t1 = t1
  t2 = t2
  t3 = t3
  t4 = t4
  Tasks <- MCTasks
  NoTask = NoTask
  Vals <- MCVals
  Default = Default
  Ops <- MCOps
  TrivialMove = FALSE
  Spurious = FALSE
  Program <- TwoReadFF
CHECK_DEADLOCK FALSE
PROPERTIES FullReleasesReaders
