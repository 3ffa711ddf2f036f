CONSTANTS
  Contract = {1}
  PageSize = 2
  MaxPages = 2
  Window = 1
  HasBootnode = TRUE
  NoCursor = NoCursor
  MaxLedger = 4
  MaxPerLedger = 1
  MaxForget = 3
  MaxFailures = 1
CHECK_DEADLOCK FALSE
SPECIFICATION Spec
INVARIANT NoEventLost
