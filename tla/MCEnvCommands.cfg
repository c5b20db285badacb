SPECIFICATION Spec
CONSTANTS
  Invocations = {a, b}
  UserKey = UserKey
  Bodies = {x, y}
  MaxEnvs = 2
SYMMETRY InvocationSymmetry
INVARIANTS OneEnvPerIntent RefusalIsTrue WaitSawTheEnd GoneMeansGone
PROPERTY KeepsPromise
CHECK_DEADLOCK FALSE
