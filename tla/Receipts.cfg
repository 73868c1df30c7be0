SPECIFICATION MCFairSpec
CONSTANTS
  a1 = a1
  a2 = a2
  own = own
  layer = layer
  unknown = unknown
  c1 = c1
  c2 = c2
  Agents <- MCAgents
  Dests <- MCDests
  Own = own
  Unknown = unknown
  Callers <- MCCallers
  AgentOf <- MCAgentOf
  DestOf <- MCDestOf
  Foreign <- MCForeign
  Bounds <- MCBounds
  MaxSeq = 2
  MaxRetained = 1
  QueueMax = 1
  Retention = 0
  MaxClock = 1
  WaitSlots = 1
  WaitShare = 1
INVARIANTS LiveWriteKeepsReceipt SettledIsTold OneStory
PROPERTIES Retained WaitEnds
CHECK_DEADLOCK FALSE
