SPECIFICATION Spec
CONSTANTS
  Doors = {ui}
  ui = ui
  Nobody = Nobody
  CountIn = 1
  SlowWriters = FALSE
  MaxCommands = 3
INVARIANTS
  StopEndsTheTake
CHECK_DEADLOCK FALSE
