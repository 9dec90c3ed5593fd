SPECIFICATION SpecWithCopies
CONSTANTS
  Threads = {t1, t2}
  Handles = {h1, h2}
  NoHandle = NoHandle
  MaxFd = 2
  MaxOpens = 3
INVARIANT HeldIsOpen
