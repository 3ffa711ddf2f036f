CONSTANTS
  h1 = h1
  h2 = h2
  b1 = b1
  b2 = b2
  b3 = b3
  n1 = n1
  n2 = n2
  Handlers <- MCHandlers
  Bodies <- MCBodies
  NoteOf <- MCNote
  MaxSeq = 2
  None = None
SPECIFICATION RelayerSpec
INVARIANT CachedWasTaken
