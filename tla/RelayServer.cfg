SPECIFICATION ServerSpec
CONSTANTS
  Connection = {c1, c2, c3, c4}
  Device = {d1, d2, d3}
  NoDevice = NoDevice
  Bytes = {b1}
  Payload = {data}
  maxConnections = 2
  MAX_PENDING_INBOUND_FRAMES = 1
  MAX_PENDING_OUTBOUND_SENDS = 1
  MaxArrivals = 1
  MaxStarts = 3
  MaxStops = 3
  StopsOverlap = FALSE
CHECK_DEADLOCK FALSE
SYMMETRY ServerSymmetry
INVARIANTS
  PlacesAreKept
  StopLeavesNothing
PROPERTIES
  ReconnectIsAdmitted
