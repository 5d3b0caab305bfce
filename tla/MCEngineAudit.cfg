SPECIFICATION Spec
CONSTANTS
  Src = {s1}
  Run = {r1, r2}
  Node = {n1}
  Dev = {d1, d2}
  Alert = {a1, a2, a3}
  Val = {v1, v2}
  None = None
  Pending = {}
  Env = {"acknowledge", "delete", "crash", "database"}
SYMMETRY Symmetry
INVARIANTS AuditMatches OneOpenAlert
