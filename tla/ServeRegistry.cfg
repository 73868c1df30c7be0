SPECIFICATION MCFairSpec
CONSTANTS
  p1 = p1
  d1 = d1
  d2 = d2
  d3 = d3
  k1 = k1
  k2 = k2
  q1 = q1
  nobody = nobody
  nothing = nothing
  Pinned <- MCPinned
  OnDemand <- MCOnDemand
  Creds <- MCCreds
  NoCred = nobody
  NoVictim = nothing
  Requests <- MCRequests
  MaxAttached = 3
  PermitCount = 2
  Bounds <- MCBounds
INVARIANTS PlacesBound ErasesAlone ExitIsClean
PROPERTIES OldHandleFirst LeaseOutlivesHandle AttachEnds ExitComes
CHECK_DEADLOCK FALSE
