CONSTANTS
  TRANSACTION_LIMIT = 5
  DfsLimit = 5000
  Amount = {1, 2, 3}
  MaxNotes = 5
  MaxGoal = 9
  MaxSessions = 0
  None = None
CHECK_DEADLOCK FALSE
SPECIFICATION PlannerSpec
INVARIANT OvershootIsFallback
