SPECIFICATION Spec
CONSTANTS
  Threads = {t1, t2}
  Handles = {h1, h2, h3}
  NoHandle = NoHandle
  MaxFd = 2
  MaxOpens = 3
INVARIANTS
  OneHolder
  HeldIsOpen
  NoLeak
PROPERTY Owns
