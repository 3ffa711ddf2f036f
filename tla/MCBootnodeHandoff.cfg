CONSTANTS
  Contract = {1}
  PageSize = 2
  Window = 1
  Upstream = 1
  NoCursor = NoCursor
  MaxLedger = 4
  MaxPerLedger = 1
  PagesPerRound = 2
  CutoffLedgers = 1
  InitialTip = 0
  MaxMishaps = 1
CHECK_DEADLOCK FALSE
SPECIFICATION MSpec
INVARIANT HandoffIsComplete
