SPECIFICATION Spec
CONSTANTS
  Loops = {l1, l2}
  Writer = w
  Programs <- AllPrograms
  MaxFd = 2
  MaxOpens = 3
  MaxEvents = 2
  Capacity = 1
  MaxBytes = 2
  Timeout = 2
  MaxSignals = 1
INVARIANTS
  Conserved
  ReadsFindData
  AbortsOnlyByHazard
  LateOnlyBySignals
  CallsGoOn
PROPERTY CallsEnd
CHECK_DEADLOCK FALSE
