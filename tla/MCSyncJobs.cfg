SPECIFICATION Spec
CONSTANTS
  Worker = {w1, w2}
  Conn = {i1}
  Task = {}
  Api = {a1}
  None = None
  Faults = {"crash", "database", "startup"}
SYMMETRY Symmetry
INVARIANTS EnabledHasJob NoLogWithoutIntegration
PROPERTIES LogOfEveryRun
