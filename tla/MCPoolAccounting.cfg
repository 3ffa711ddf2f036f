CONSTANTS
  Accounts = {u1, u2}
  Keys = {k1}
  MembershipContracts = {m1}
  NonMembershipContracts = {b1}
  Levels = 2
  RootHistorySize = 2
  FieldSize = 13
  MaxExtAmount = 3
  I128Max = 2
  InitialFunds = 1
  NoRoot = NoRoot
  MaxLap = 0
  MadeUpRoots <- Nothing
  MadeUpMembers <- Nothing
  MadeUpBlocked <- Nothing
  HonestProofs = 3
  MaxProofs = 3
  MaxPending = 2
  MaxBlocked = 0
  Admins = {a1}
  MaxAspLeaves = 1
SYMMETRY Symmetry
SPECIFICATION Spec
INVARIANTS
  Solvency
  FreshProofAccepted
PROPERTIES
  OnlyAsProven
