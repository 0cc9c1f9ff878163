SPECIFICATION Spec
CONSTANTS
  t1 = t1
  t2 = t2
  t3 = t3
  v1 = v1
  v2 = v2
  Tasks <- MCTasks
  NoTask = NoTask
  Vals <- MCVals
  Default = Default
  Ops <- MCOps
  TrivialMove = FALSE
  Spurious = TRUE
SYMMETRY Symmetry
INVARIANTS Consistent NoStrandedWriter
PROPERTIES OnlyFFStrands ImplementsSyncSpec
