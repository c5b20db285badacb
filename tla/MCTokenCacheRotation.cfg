SPECIFICATION Spec
CONSTANTS
  Goroutines = {g1, g2}
  Nobody = Nobody
  MaxGrants = 2
  MaxInvalidations = 1
INVARIANTS RotationSurvives
CHECK_DEADLOCK FALSE
