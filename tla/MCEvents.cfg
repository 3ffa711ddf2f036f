CONSTANTS
  Contract = {1}
  PageSize = 1
  Window = 9
  NoCursor = NoCursor
  MaxLedger = 3
  MaxPerLedger = 2
  MaxPages = 2
  HasBootnode = TRUE
  MaxForget = 2
  MaxFailures = 2
  Upstream = 2
  PagesPerRound = 2
  CutoffLedgers = 1
  InitialTip = 0
  MaxMishaps = 1
CHECK_DEADLOCK FALSE
SPECIFICATION EventsSpec
INVARIANT NoEventLost
INVARIANT PagesAreFaithful
INVARIANT WalletHasNoGap
PROPERTY IndexerCatchesUp
PROPERTY BootnodeServes
