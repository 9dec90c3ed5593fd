SPECIFICATION FairSpec
CONSTANTS
  Handles = {h1, h2}
  NoHandle = NoHandle
  MaxTid = 2
  MaxThreads = 2
  Programs <- AllPrograms
INVARIANTS
  LostOnlyByAssignment
  StaleOnlyByFailedCreate
  
  CallsGoOn
PROPERTIES
  Owns
  StopEnds
CHECK_DEADLOCK FALSE
