SPECIFICATION Spec
CONSTANTS
  r1 = r1
  r2 = r2
  r3 = r3
  Request = {r1, r2, r3}
  Plans <- MCPlans
  Id = {i1, i2, i3}
  NoId = noid
  MaxSessions = 2
  Idle = 1
  MaxTime = 1
INVARIANTS TableHolds
PROPERTIES InUseStays StreamsEnd
CHECK_DEADLOCK FALSE
