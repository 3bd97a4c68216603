SPECIFICATION Spec
CONSTANTS
  p = p
  q = q
  NoOne = NoOne
  a = a
  b = b
  MaxRoutes = 2
  MaxIngests = 1
  MaxImports = 2
  MaxGraces = 1
  MaxVersions = 2
  MaxFrames = 2
  MaxWire = 2
  Armable = {"takeoff", "land"}
  Single = {"stop-takeoff"}
  MaxArmClicks = 2
  MaxTurns = 1
  MaxNotices = 1
  Availability = {"READY", "STARTING", "missing"}
  LinkState = {"CONNECTED", "DISCONNECTED", "missing"}
  PhoneMission = {"STARTING", "absent"}
  DjiMission = {"IDLE", "EXECUTING", "absent"}
  MaxClicks = 2
  MaxEpochs = 1
  MaxFailures = 3
  MaxPhotos = 2
  MaxDepth = 2
  MaxTokens = 16
  MaxChunk = 4
  MaxEvents = 2
  MaxExtra = 2
  Counts = {2, 4, 5, 6, 7, 8, 9, 10, 16, 17}
  LinkValue = {"connected", "disconnected", "unknown", "missing"}
  PlainValue = {"flying", "missing"}
  InterruptCode = {"refused", "aborted", "missing"}
  InterruptDescription = {"low battery", "missing"}
  MaxSnapshots = 4
  Undefined = Undefined
  Refused = Refused
  MaxSaves = 2
  MaxWaiting = 2
CHECK_DEADLOCK FALSE
INVARIANTS
  SelectionsStand
  ClicksGoOutAsMade
  PageTellsTheFacts
  KeptAsMeant
PROPERTIES
  FactsAndRoutesHold
