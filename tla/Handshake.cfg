SPECIFICATION Spec
CONSTANTS
  NoTask = NoTask
INVARIANTS OrderedTestsHold MainWaitsForTask
PROPERTIES BothEnd
