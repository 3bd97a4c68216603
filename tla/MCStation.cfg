SPECIFICATION Spec
CONSTANTS
  Device = {d1, d2}
  NoDevice = NoDevice
  MaxRetries = 1
  Limit = 2
  MaxPending = 3
  Ffmpeg = TRUE
  Publisher = {p1}
  NoPublisher = NoPublisher
  MaxSessions = 1
  MaxRefreshes = 1
  MaxStarts = 1
  MaxSends = 2
  MaxWork = 1
  Entry <- SomeEntries
  MaxEntries = 3
  MaxExpanded = 3
  MaxWaypoints = 1
  Tag <- SomeTags
  Nests <- SomeNests
  Tuple <- SomeTuples
  Texts = {"0"}
  MaxElements = 9
CHECK_DEADLOCK FALSE
INVARIANTS
  ListenersAreOwned
  InvalidatedIsDark
  EndsAreComplete
  UnderWayEnds
  WhatIsPassedOnIsWhole
PROPERTIES
  QuitsEventually
