SPECIFICATION FairSpec
CONSTANTS
  i1 = i1
  i2 = i2
  x1 = x1
  x2 = x2
  Inputs <- MCInputs
  Indices <- MCIndices
  StageMax = 2
  CalStageMax = 4
  MaxEvaluations = 2
  MaxQueue = 2
INVARIANTS
  CoverageInStep
  HangsAreVerified
  NoTimeoutLost
PROPERTIES
  QueueIsEmptied
CHECK_DEADLOCK FALSE
