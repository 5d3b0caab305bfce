SPECIFICATION Spec
CONSTANTS
  a = a
  b = b
  c = c
  Worker = {w1}
  Device = {a, b, c}
  Link = {l1, l2}
  Cabling <- ChainCabling
  Query <- EndToEnd
  Client = {c1, c2}
  None = None
  Faults = {"crash", "database"}
  MaxTables = 4
INVARIANTS PathsAreReal QuietMarkIsSeen HolderIsAtWork
PROPERTIES AnswersNeverGoBack ImplementsPathService
SYMMETRY Symmetry
