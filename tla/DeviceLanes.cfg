SPECIFICATION LanesSpec
CONSTANTS
  Device = {d1}
  None = None
  FileName = {n1, n2}
  Digest = {s1, s2}
  MaxCalls = 2
  MaxSessions = 2
  MaxRestarts = 1
  MaxRequests = 1
CHECK_DEADLOCK FALSE
SYMMETRY PhotoSymmetry
INVARIANTS
  QueuedRestartsAreOwed
  PhotoBusyIsOwed
  NothingOutlivesTheSession
  StoredIsKept
PROPERTIES
  StartsHaveASource
  LateResultsAreIgnored
