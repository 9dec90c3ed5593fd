SPECIFICATION Spec
CONSTANTS
  Handles = {h1, h2}
  NoHandle = NoHandle
  Endian = "little"
  MaxFd = 1
  MaxOpens = 4
  MaxBlock = 2
  MaxAllocs = 4
  Ports <- PortSample
  Node <- NodeSample
  Kinds <- KindSample
  Programs <- AllPrograms
SYMMETRY Symmetry
INVARIANTS
  CarefulHoldOnce
  LeaksOnlyByHazard
  ResultsRight
PROPERTY Owns
CHECK_DEADLOCK FALSE
