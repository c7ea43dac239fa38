SPECIFICATION MCSpec
CONSTANTS
  Fields = {lo, hi}
  MaxPublishes = 4
  Gains = {g1, g2}
  Unity = g1
  Writers = {w1, w2}
  Readers = {r1}
  SeqModulus = 8
  InOrder = TRUE
  MaxWrites = 3
  Threads = {"ui", "mcp"}
  Tracks = {"drums", "bass", "lane"}
  Slotless = {"lane"}
  Settings = {"plain", "solo"}
  Soloing = {"solo"}
  FreshRow = "plain"
  AnySolo = "any_solo"
  SavedSongs <- OneSong
  MaxChanges = 3
INVARIANTS
  NoTornRead
  NoUseAfterRelease
  NoLeak
  WritesAreSerial
  CoherentSnapshot
  TablesFollow
  GraphFollows
PROPERTIES
  ImplementsLatestValue
  ValuesArrive
CHECK_DEADLOCK FALSE
