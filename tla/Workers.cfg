SPECIFICATION MCSpec
CONSTANTS
  Streams = {s1, s2}
  NoStream = NoStream
  RingSlots = 2
  RetireSlots = 1
  MaxRebuilds = 3
  MaxFullPushes = 2
  ArmedTracks = 2
  Cap = 2
  Buffers = {1, 2}
  MaxFrames = 4
  Jobs = {"a", "b"}
  WorkerSlots = 1
  MaxLines = 2
INVARIANTS
  NoFreeOnAudioThread
  OneOwner
  TakeIsWhole
  EndingsAreTrue
PROPERTIES
  AdoptsForward
  TablesArrive
  WorkIsFinished
CHECK_DEADLOCK FALSE
