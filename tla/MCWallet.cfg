CONSTANTS
  Account = {1, 2}
  Stranger = Stranger
  Pool = {1, 2}
  FETCH_LIMIT = 1
  ACCOUNT_CHUNK = 1
  PageSize = 3
  Inputs = 1
  Outputs = 1
  Ciphertexts = {"valid"}
  MaxTransact = 2
  MaxLeaves = 0
  MaxBroken = 0
  MaxLedger = 2
  MaxCrashes = 2
  Accounts = {"u"}
  Intents <- MCIntents
  SpendNotes = {1}
  AuthShapes <- MCAuthShapes
  MaxAttempts = 3
  MaxClosed = 1
  OpenTabs = 2
  CONFIRM_POLL_ATTEMPTS = 2
  AUTH_EXPIRATION_LEDGERS = 1
  Absent = Absent
SPECIFICATION WalletSpec
INVARIANT WalletAgrees
INVARIANT NoMissedSpend
INVARIANT TablesAreSound
INVARIANT ReportsAreTruthful
INVARIANT OverlappingAttemptsExclude
INVARIANT SendersFindCurrentKeys
