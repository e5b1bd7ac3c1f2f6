SPECIFICATION MCSpec
CONSTANTS
  People = {"p1", "p2"}
  Native = TRUE
  MaxCalls = 2
  MaxTaps = 3
  MaxEvents = 1
  MaxMoves = 3
CHECK_DEADLOCK FALSE
INVARIANT CancelWithdraws
