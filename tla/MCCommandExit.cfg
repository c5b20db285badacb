SPECIFICATION ExitSpec
CONSTANT Tried <- MCTried
INVARIANTS TableDecides SuccessIsDocumented LoginNeeded
CHECK_DEADLOCK FALSE
