SPECIFICATION FairTransportSpec
CONSTANTS
  Goroutines = {g1, g2}
  Nobody = Nobody
  MaxGrants = 2
  MaxInvalidations = 2
  MaxTrips = 2
INVARIANTS RetryIsFresh Surfaced401 RefreshesAreCaused PresentsLiveToken CrashIsAccountedFor
PROPERTIES RoundTripsEnd MemoryMovesForward
CHECK_DEADLOCK FALSE
