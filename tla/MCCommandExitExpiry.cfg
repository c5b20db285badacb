SPECIFICATION ExitSpec
CONSTANT Tried <- MCTried
INVARIANT ExpiryExits3
CHECK_DEADLOCK FALSE
