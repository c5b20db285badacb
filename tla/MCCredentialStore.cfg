SPECIFICATION Spec
CONSTANTS
  Processes = {p, q}
  Orgs = {acme, beta}
  Profiles = {x, y}
  NotFound = NotFound
  TakeTurns = TRUE
SYMMETRY StoreSymmetry
PROPERTY ImplementsProfileMap
