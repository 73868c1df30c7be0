SPECIFICATION MCSpec
CONSTANTS
  a1 = a1
  a2 = a2
  Agents <- MCAgents
  SizeOf <- MCSizeOf
  MaxReceipt = 1
  LaneMax = 2
  QueueMax = 2
  BytesMax = 2
INVARIANT OutcomeReported
CHECK_DEADLOCK FALSE
