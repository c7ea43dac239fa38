SPECIFICATION ClockSpec
CONSTANTS
  N = 1
  Group = {}
  Looping = {1}
  End = 2
  Cap = 1
  MaxPress = 2
  MaxGen = 1
  MaxWork = 3
INVARIANT CancelHolds
CHECK_DEADLOCK FALSE
