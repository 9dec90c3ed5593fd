SPECIFICATION FairSpec
CONSTANTS
  Workers = {w1, w2}
  Main = main
  NoThread = NoThread
  MaxDepth = 2
  MaxCalls = 3
  Programs <- AllPrograms
INVARIANTS
  CancelStateNests
  OrphanOnlyByBareLock
  StopGoesOn
PROPERTY StopReturns
CHECK_DEADLOCK FALSE
