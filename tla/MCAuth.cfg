SPECIFICATION Spec
CONSTANTS
  User = {u1}
  Req = {r1, r2}
  Endpoint = {"me", "change_password", "logout"}
  None = None
  Clear = Clear
  MaxTokens = 4
  MaxTime = 1
  TicksPerSecond = 1
  AccessTTL = 0
  RefreshTTL = 0
SYMMETRY Symmetry
INVARIANTS OneOwner LogoutEndsSession
PROPERTIES LoggedOutRefused ImplementsLedger
