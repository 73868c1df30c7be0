SPECIFICATION MCFairSpec
CONSTANTS
  c1 = c1
  c2 = c2
  none = none
  Concepts <- MCConcepts
  NoConcept = none
  Target <- MCTarget
  MaxWrite = 3
  MaxAccess = 1
  LogMax = 2
  MaxBatch = 2
INVARIANTS InCustodyInOrder StoredInOrder UnflushedCovers StatsAreHonest OkMeansWritten AccessesKept
PROPERTY CloseEnds
CHECK_DEADLOCK FALSE
