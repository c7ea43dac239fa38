SPECIFICATION LiveSpec
CONSTANTS
  Tracks = {"scored", "bare"}
  Scored = {"scored"}
  NoTrack = "nobody"
  Pitches = {"key"}
  Tried = "tried"
  Clip = "clip"
  Places <- OneOrder
  RingSlots = 3
  PerBlock = 2
  Release = 2
  Budgets <- OneAudition
INVARIANT PreviewSounds
CHECK_DEADLOCK FALSE
