SPECIFICATION FairSpec
CONSTANTS
  Src = {s1}
  Run = {r1}
  Node = {n1, n2}
  Dev = {d1, d2}
  Alert = {a1, a2}
  Val = {v1, v2}
  None = None
  Pending = {v2}
  Env = {}
INVARIANTS MirrorsReport OneDevicePerNode
PROPERTIES StaysMirrored SyncConverges
