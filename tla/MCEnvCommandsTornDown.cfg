SPECIFICATION Spec
CONSTANTS
  Invocations = {a, b}
  UserKey = UserKey
  Bodies = {x, y}
  MaxEnvs = 2
SYMMETRY InvocationSymmetry
INVARIANT TornDownIsTrue
CHECK_DEADLOCK FALSE
