CONSTANTS
  Client = {c1, c2, c3}
  Workers = 2
SPECIFICATION FairSpec
INVARIANTS
  SignalsNeverKill
  NobodyOutlivesTheManager
PROPERTIES
  ShutdownEnds
CHECK_DEADLOCK FALSE
