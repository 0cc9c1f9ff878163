SPECIFICATION Spec
CONSTANTS
  N = 3
  NoTask = NoTask
INVARIANTS NoneLeavesEarly CountIsALock OpenedOnce
PROPERTIES Terminates
