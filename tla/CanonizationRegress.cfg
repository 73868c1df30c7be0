SPECIFICATION Spec
CONSTANTS
  MaxNode = 4
  MaxDeferrals = 3
  Setups <- MCSetups
INVARIANT ReplayNeverRegresses
CHECK_DEADLOCK FALSE
