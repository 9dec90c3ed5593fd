SPECIFICATION Spec
CONSTANTS
  Handles = {h1, h2}
  NoHandle = NoHandle
  MaxTid = 2
  MaxThreads = 2
  Programs <- ThreadPrograms
INVARIANT NoThreadLost
CHECK_DEADLOCK FALSE
