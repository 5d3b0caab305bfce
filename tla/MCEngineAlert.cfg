SPECIFICATION Spec
CONSTANTS
  Src = {s1}
  Run = {r1, r2}
  Node = {n1}
  Dev = {d1, d2}
  Alert = {a1, a2}
  Val = {v1, v2}
  None = None
  Pending = {}
  Env = {"post"}
SYMMETRY Symmetry
PROPERTY OverwriteIsAlerted
