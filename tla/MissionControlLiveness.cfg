SPECIFICATION FairControlSpec
CONSTANTS
  Device = {d1}
  Route = {r1, r2}
  NoRoute = NoRoute
  Identity = {1}
  Promise = {p1, p2}
  MaxMissions = 1
  MaxEpoch = 1
  MaxSequence = 2
  SettlesBeforeLoss = TRUE
  StagedRoute <- DifferentRoutes
CHECK_DEADLOCK FALSE
PROPERTIES
  AbsenceEnds
  ExecutionIsSeen
  BusyEnds
