SPECIFICATION Spec
CONSTANTS
  r1 = r1
  r2 = r2
  r3 = r3
  Request = {r1, r2, r3}
  Plans <- LatePlans
  Id = {i1, i2, i3}
  NoId = noid
  MaxSessions = 2
  Idle = 1
  MaxTime = 1
PROPERTIES EveryStreamEnds
CHECK_DEADLOCK FALSE
