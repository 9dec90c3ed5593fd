SPECIFICATION FairSpec
CONSTANTS
  Handles = {h1, h2}
  NoHandle = NoHandle
  MaxPid = 2
  MaxForks = 2
  SignalOnDestroy = TRUE
  WaitOnDestroy = TRUE
  Programs <- AllPrograms
INVARIANTS
  StaleOnlyByRewait
  OneHolder
  ZombieOnlyByInterrupt
  StopsGoOn
PROPERTIES
  Owns
  StopEnds
