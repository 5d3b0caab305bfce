SPECIFICATION Spec
CONSTANTS
  Device = {1, 2, 3}
  Stock <- ChassisAndServer
  Kinds = {"server", "blade_chassis", "blade"}
  Section = {"status", "rack", "password", "hardware", "placement", "drives"}
  MaxWork = 4
  MaxMishap = 1
INVARIANT OwnValues
PROPERTIES SavedAsClicked EditKeepsUntyped UnseenKept
CHECK_DEADLOCK FALSE
