SPECIFICATION Spec
CONSTANTS
  srv = srv
  pdu = pdu
  new = new
  Editor = {me}
  Scenarios <- MCScenarios
  Device = {srv, pdu, new}
  Pdu = {pdu}
  TotalU = 2
  None = None
  MaxWork = 2
  MaxMishap = 1
INVARIANTS Fits OwnWritesShown OneDevicePerDialog ConflictIsDrawn
PROPERTIES RedIsRefused
CHECK_DEADLOCK FALSE
