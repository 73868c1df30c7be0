SPECIFICATION MCSpec
CONSTANTS
  MaxNode = 4
  MaxDeferrals = 3
  Setups <- MCSetups
INVARIANTS NoHopLost RowIsNewest FairRing
PROPERTIES BudgetKept OneOfAPair
CHECK_DEADLOCK FALSE
