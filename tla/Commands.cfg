CONSTANTS
  Threads = {t1, t2, t3}
  Nobody = Nobody
  Knobs = {knob}
  Parts = {p}
  Values = {0, 1}
  Blank = 0
  Limit = 2
  MaxRev = 3
  MaxEpoch = 1
  Tracks = {"scored", "bare"}
  Scored = {"scored"}
  NoTrack = "nobody"
  Pitches = {"key"}
  Tried = "tried"
  Clip = "clip"
  Places <- Orders
  RingSlots = 3
  PerBlock = 2
  Release = 2
  Budgets <- Stories
SPECIFICATION MCSpec
INVARIANTS StepsAreOfThisDocument UndoLeadsBack MonitoringIsSound
PROPERTY ReplayIsOwn
SYMMETRY ThreadSymmetry
