SPECIFICATION ControlSpec
CONSTANTS
  Device = {d1}
  Route = {r1, r2}
  NoRoute = NoRoute
  Identity = {1, 2}
  Promise = {p1, p2}
  MaxMissions = 2
  MaxEpoch = 0
  MaxSequence = 2
  SettlesBeforeLoss = TRUE
  StagedRoute <- DifferentRoutes
CHECK_DEADLOCK FALSE
SYMMETRY PromiseSymmetry
INVARIANTS
  GoneLanesAreTimed
  WatermarkIsOfTheRun
  RunsAreOwn
PROPERTIES
  OnlyTheGoneAreLost
