SPECIFICATION Spec
CONSTANTS
  Indices = {1, 2, 3}
  MaxSizes = {0, 2}
  MaxBuffers = 2
INVARIANT
  LoopSeesStart
PROPERTIES
  ImplementsAssocSpec
  EveryIndexArrives
