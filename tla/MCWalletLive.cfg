CONSTANTS
  Account = {1}
  Stranger = Stranger
  Pool = {1}
  FETCH_LIMIT = 2
  ACCOUNT_CHUNK = 1
  PageSize = 3
  Inputs = 1
  Outputs = 1
  Ciphertexts = {"valid"}
  MaxTransact = 2
  MaxLeaves = 3
  MaxBroken = 1
  MaxLedger = 2
  MaxCrashes = 1
  TRANSACTION_LIMIT = 4
  DfsLimit = 5000
  Amount = {1, 2, 3}
  MaxNotes = 4
  MaxGoal = 5
  MaxSessions = 2
  None = None
SPECIFICATION LiveSpec
CHECK_DEADLOCK FALSE
INVARIANT MembershipProofMatches
INVARIANT SelectionIsBest
INVARIANT PlanRuns
INVARIANT NoValueLost
PROPERTY DatabaseConverges
PROPERTY SessionsEnd
