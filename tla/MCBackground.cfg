SPECIFICATION Spec
CONSTANTS
  p = p
  q = q
  None = None
  MaxVersion = 2
  MaxStreak = 1
  MaxRunClicks = 4
  MaxButtonClicks = 2
  MaxPings = 4
  MaxProbes = 2
  MaxQueued = 2
  MaxRecords = 4
  Transfer = {t1, t2}
  Name = {n1, n2}
  Chunk = {c}
  MaxChunks = 2
  MaxFrames = 6
  MaxEvents = 3
  MaxQueue = 1
  MaxKeys = 2
  MaxSessions = 3
CHECK_DEADLOCK FALSE
INVARIANTS
  PageTellsItsWork
  RecordsAreKept
PROPERTIES
  NothingHangs
