SPECIFICATION Spec
CONSTANTS
  Threads = {t1, t2}
  Servers = {s1, s2}
  Clients = {c1}
  NoHandle = NoHandle
  Ports = {80}
  NoPort = NoPort
  MaxSockets = 3
  Backlog = 1
  Programs <- ShortPrograms
INVARIANT ExclusiveAsAsked
CHECK_DEADLOCK FALSE
