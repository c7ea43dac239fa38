SPECIFICATION MCSpec
CONSTANTS
  MaxSample = 8
  MaxBlock = 7
  Senders = {"ui", "mcp"}
  SongEnd = 3
  Blocks = {1, 2}
  Targets = {1}
  NoPark = NoPark
  EventSlots = 1
  MaxSends = 3
  Doors = {"ui", "mcp"}
  Nobody = "nobody"
  CountIn = 0
  SlowWriters = TRUE
  MaxCommands = 4
  N = 2
  Group = {1, 2}
  Looping = {2}
  End = 2
  Cap = 1
  MaxPress = 2
  MaxGen = 3
  MaxWork = 4
  Scopes = {"track"}
  PortKeys = {"a", "b"}
  Contents <- Songs
  MaxPos = 4
  MaxStep = 2
  Tolerance = 1
  Lengths = {1, 2}
  PerSpp = 2
  MaxSpp = 1
  MaxBurst = 1
INVARIANTS
  BlockIsItsFrames
  AutoStopParks
  TakesAreKept
  StateIsReported
  CountInIsSound
  PressWins
  DeviceIsTold
PROPERTIES
  NeverPastTheLoop
  CrossingFollowsTheWalk
  SettledSeekStays
  EndsAreReached
  PlaysOn
CHECK_DEADLOCK FALSE
