SPECIFICATION Spec
CONSTANTS
  a1 = a1
  a2 = a2
  Agents <- MCAgents
  Owner <- MCOwner
  MaxReceipt = 3
  MaxServe = 3
  SickThreshold = 2
  LookupLimit = 2
INVARIANTS AppliedOnce DurableAgrees AnswersAreTrue DebtsAreAnswered
PROPERTY DebtKept
CHECK_DEADLOCK FALSE
