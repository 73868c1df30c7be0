SPECIFICATION Spec
CONSTANTS
  c1 = c1
  c2 = c2
  none = none
  Concepts <- MCConcepts
  NoConcept = none
  Target <- MCTarget
  MaxWrite = 1
  MaxAccess = 0
  LogMax = 2
  MaxBatch = 2
INVARIANT OkAlwaysMeansWritten
CHECK_DEADLOCK FALSE
