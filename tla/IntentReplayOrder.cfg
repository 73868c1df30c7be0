SPECIFICATION Spec
CONSTANTS
  a1 = a1
  a2 = a2
  Agents <- MCAgents
  Owner <- MCOwner
  MaxReceipt = 2
  MaxServe = 2
  SickThreshold = 2
  LookupLimit = 2
INVARIANT LaneOrder
CHECK_DEADLOCK FALSE
