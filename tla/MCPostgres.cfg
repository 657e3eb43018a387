SPECIFICATION Spec
CONSTANTS
  ann = ann
  ben = ben
  cal = cal
  P1 = P1
  P2 = P2
  Caller = {ann, ben, cal}
  Path <- MCPath
  Prior = prior
  Cleared = cleared
  NoDoc = nodoc
  NoOne = noone
  NoFence = nofence
  Connections = 2
  Attempts = 2
  Plans <- MCPlans
INVARIANTS CallsLand FeedTells
PROPERTIES KeepsClock Answered
