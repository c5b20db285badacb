SPECIFICATION Spec
CONSTANTS
  Processes = {p1, p2}
  NoProfile = NoProfile
  MaxSessions = 2
  MaxRotations = 3
  MaxTenants = 2
SYMMETRY ProcessSymmetry
INVARIANTS ProfileNamesIssuer TurnsKeepTheSession NoSessionIsForgotten ExpiryHasACause
PROPERTIES RotationNeverReverts
CHECK_DEADLOCK FALSE
