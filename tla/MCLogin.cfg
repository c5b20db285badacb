SPECIFICATION FairSpec
CONSTANTS
  Intervals <- MCIntervals
  Lifetimes <- MCLifetimes
  defaultDeviceInterval = 2
  SlowDownStep = 2
  MaxExchange = 1
  Late = 1
  loginTimeout = 4
  MaxOpen = 2
  ShutdownTime = 1
INVARIANTS EndsInTime CancelIsNoticed SessionIsHandedOver
PROPERTIES PollsHonourInterval CallbackInTimeCounts ApprovalInTimeCounts LoginEnds
CHECK_DEADLOCK FALSE
