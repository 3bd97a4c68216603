SPECIFICATION Spec
CONSTANTS
  Device = {d1}
  Route = {r1}
  NoRoute = NoRoute
  Identity = {1, 2}
  Promise = {p1, p2, p3}
  MaxMissions = 2
  MaxEpoch = 1
  MaxSequence = 1
  SettlesBeforeLoss = TRUE
CHECK_DEADLOCK FALSE
SYMMETRY PromiseSymmetry
INVARIANTS
  FlightsAreCounted
  FlightsDoNotPileUp
  UploadIsConfirmed
  MaybeFlyingIsStoppable
PROPERTIES
  RejectionRestores
  LateRepliesAreInert
