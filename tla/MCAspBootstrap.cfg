CONSTANTS
  Leaf = {1, 2}
  ZeroLeaf = 0
  Levels = 1
  Users <- TestUsers
  MaxRetries = 2
  MaxRuns = 2
  Nil = Nil
CHECK_DEADLOCK FALSE
SPECIFICATION BootstrapSpec
INVARIANT BootstrapPopulates
