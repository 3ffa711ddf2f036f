CONSTANTS
  Leaf = {x, y}
  ZeroLeaf = ZeroLeaf
  Levels = 3
  KeyBits = 3
  Keys = {0, 2, 4}
  Admin = {a1, a2}
  Values = {1}
  SmtDepth = 3
  ClientValues = {1, 2}
  MaxUpdates = 2
  h1 = h1
  h2 = h2
  b1 = b1
  b2 = b2
  b3 = b3
  n1 = n1
  n2 = n2
  Handlers <- MCHandlers
  Bodies <- MCBodies
  NoteOf <- MCNote
  MaxSeq = 2
  None = None
  Contract = {1, 2}
  PageSize = 1
  Window = 2
  NoCursor = NoCursor
  MaxLedger = 3
  MaxPerLedger = 3
  RootHistory = 2
  MaxPagesCap = 9
  MaxBlocklist = 1
  NoteBits = 2
  FieldModulus = 31
  CircuitBits = 3
  User = User
  Other = Other
  Unset = Unset
  Payees = {p}
  MaxLanded = 3
  MaxCalls = 3
  MaxWallet = 1
  MaxPayees = 2
  MaxEvents = 2
  OwnNotes = {1, 2}
  Contexts <- MCContexts
  OwnPool <- MCOwnPool
  KnownRoots = 2
  MaxRoots = 3
  MaxReceipts = 1
  Nil = Nil
SPECIFICATION ComponentsSpec
CHECK_DEADLOCK FALSE
INVARIANTS
  ComponentsTypeOK
  TreesAgree
  BlocklistIsExact
  BlockedCannotProve
  NoSelfConflict
  ReadsAreConsistent
  QuietRequestIsProved
  BuiltIsProvable
  OutputsAreFindable
  BulkIsExact
  ClientComputesTheSame
  VerdictIsTrue
  HonestReceiptPasses
PROPERTY RetryGetsSameHash
