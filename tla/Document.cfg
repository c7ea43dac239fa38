CONSTANTS
  Threads = {t1, t2}
  Nobody = Nobody
  Dirs = {A, B}
  NoDir = NoDir
  MidiParts = {"notes"}
  Reset = {"notes"}
  MaxRev = 2
  MaxEpoch = 2
  MaxFails = 1
  MaxLines = 2
  Committers = {t1, t2}
  Regions = {"clip"}
  Knobs = {"gain"}
  Sizes <- Weights
  Threshold = 2
  Budget = 6
  Floor = 2
  MaxCommits = 4
  MaxSwaps = 1
SPECIFICATION MCSpec
INVARIANTS SongIsItsOwn CleanMidiIsOnDisk SongsAreSavedOrOffered UndoLeadsHome DocumentIsSound VersionsAreSound
PROPERTIES GoesForward FailsWhole
CHECK_DEADLOCK FALSE
SYMMETRY Symmetry
