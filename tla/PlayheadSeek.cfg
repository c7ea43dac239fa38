SPECIFICATION HeadSpec
CONSTANTS
  MaxSample = 5
  Senders = {ui, mcp}
  SongEnd = 3
  Blocks = {1, 2}
  Targets = {1}
  NoPark = NoPark
  EventSlots = 1
  MaxSends = 3
INVARIANT SeekIsNotUndone
CHECK_DEADLOCK FALSE
