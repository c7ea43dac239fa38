CONSTANTS
  Threads = {t1}
  Nobody = Nobody
  Dirs = {A, B}
  NoDir = NoDir
  MidiParts = {"notes"}
  Reset = {"notes"}
  MaxRev = 2
  MaxEpoch = 2
  MaxFails = 0
  MaxLines = 2
SPECIFICATION Spec
INVARIANT MidiIsItsOwn
CHECK_DEADLOCK FALSE
SYMMETRY Symmetry
