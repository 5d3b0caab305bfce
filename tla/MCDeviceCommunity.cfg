SPECIFICATION Spec
CONSTANTS
  Device = {1, 2}
  Stock <- OneSwitch
  Kinds = {"server", "switch"}
  Section = {"status", "snmp", "community", "network", "placement"}
  MaxWork = 3
  MaxMishap = 0
PROPERTY CommunityKept
CHECK_DEADLOCK FALSE
