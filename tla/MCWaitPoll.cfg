SPECIFICATION FairSpec
CONSTANTS
  Options <- MCOptions
  Defaults <- MCDefaults
  MaxPoll = 2
  Late = 1
INVARIANTS TimeoutIsHonest OvershootIsBounded EndIsNoticed
PROPERTIES PollsAreSpaced WaitEnds
CHECK_DEADLOCK FALSE
