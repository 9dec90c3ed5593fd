SPECIFICATION Spec
CONSTANTS
  Pipes = {p1, p2}
  NoPipe = NoPipe
  Programs <- AllPrograms
  MaxFd = 3
  MaxOpens = 5
SYMMETRY Symmetry
INVARIANTS
  TypeOK
  CarefulPipes
  LeaksOnlyBySelfMove
PROPERTY Owns
CHECK_DEADLOCK FALSE
