SPECIFICATION FairArraySpec
CONSTANTS
  MinValue <- MCMinValue
  MaxValue = 100
  MaxSize = 4
  Literals <- MCLiterals
  Partners <- MCPartners
  Steps = {2, 3}
  Amounts <- MCAmounts
  Counts <- MCCounts
  MaxOps = 3
  Horizon = 60
  Sound = TRUE
  ArraySizes = {0, 3}
  OtherSizes = {1, 4}
CHECK_DEADLOCK FALSE
INVARIANTS LoopInvariant AllVisited InOrder SameSequence PositionsInvert OrdersAccepted EachIndexOnce CountedExactly ByValue
PROPERTIES LoopReturns
