CONSTANTS
  Accounts = {u1}
  Keys = {k1}
  MembershipContracts = {m1, m2}
  NonMembershipContracts = {b1}
  Levels = 3
  RootHistorySize = 2
  FieldSize = 13
  MaxExtAmount = 2
  I128Max = 1
  InitialFunds = 1
  NoRoot = NoRoot
  MaxLap = 1
  MadeUpRoots <- RichTrees
  MadeUpMembers <- OpenTrees
  MadeUpBlocked <- NobodyBlocked
  HonestProofs = 2
  MaxProofs = 3
  MaxPending = 2
  MaxBlocked = 1
  Admins = {a1, a2}
  MaxAspLeaves = 1
SYMMETRY Symmetry
SPECIFICATION Spec
INVARIANTS
  Solvency
  NoDoubleSpend
  RootWindow
PROPERTIES
  OnlyApprovedSpend
  ImplementsLedger
