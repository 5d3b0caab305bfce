SPECIFICATION Spec
CONSTANTS
  main = main
  other = other
  Tab <- MCTab
  Uses <- MCUses
  Call = {c1, c2}
  None = None
  MaxToken = 4
  MaxMishap = 2
INVARIANTS NoSelfRace WaitersAreServed LogoutSticks LogoutEndsBrowserSession
PROPERTIES RetryUsesNewToken
SYMMETRY Symmetry
CHECK_DEADLOCK FALSE
