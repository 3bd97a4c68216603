SPECIFICATION LinkSpec
CONSTANTS
  Connection = {c1, c2}
  Device = {d1}
  NoDevice = NoDevice
  Bytes <- Frames
  Payload <- Everything
  maxConnections = 1
  MAX_PENDING_INBOUND_FRAMES = 1
  MAX_PENDING_OUTBOUND_SENDS = 2
  MaxArrivals = 2
  MaxStarts = 1
  MaxStops = 0
  StopsOverlap = FALSE
  Command = {k1}
  Mission = {m1, m2}
  Chunks = 1
CHECK_DEADLOCK FALSE
SYMMETRY LinkSymmetry
INVARIANTS
  RegistryMirrorsServer
  SendsAreSettled
PROPERTIES
  TransfersDoNotInterleave
  KeepsPromises
