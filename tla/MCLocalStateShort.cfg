CONSTANTS
  Account = {1}
  Stranger = Stranger
  Pool = {1}
  FETCH_LIMIT = 2
  ACCOUNT_CHUNK = 1
  PageSize = 3
  Inputs = 1
  Outputs = 1
  Ciphertexts = {"valid", "short"}
  MaxTransact = 2
  MaxLeaves = 0
  MaxBroken = 0
  MaxLedger = 2
  MaxCrashes = 0
SPECIFICATION FairSpec
PROPERTY Converges
