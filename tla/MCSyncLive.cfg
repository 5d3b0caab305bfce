SPECIFICATION FairSpec
CONSTANTS
  Worker = {w1}
  Conn = {i1}
  Task = {t1}
  Api = {a1}
  None = None
  Faults = {}
PROPERTIES RunEnds KeepsPolling
CHECK_DEADLOCK FALSE
