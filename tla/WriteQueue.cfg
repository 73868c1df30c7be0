SPECIFICATION MCFairSpec
CONSTANTS
  a1 = a1
  a2 = a2
  Agents <- MCAgents
  SizeOf <- MCSizeOf
  MaxReceipt = 3
  LaneMax = 2
  QueueMax = 2
  BytesMax = 2
INVARIANTS WithinBounds LaneHasWorker LaneFifo ClosedLeavesNothing AckedIsKept
PROPERTIES SettledAnswerIsFinal JobRuns CloseEnds
CHECK_DEADLOCK FALSE
