SPECIFICATION FairSpec
CONSTANTS
  Sweeps = {s1}
  NumEvents = 2
  NumCards = 1
  MaxWindow = 2
  Limit = 1
  Strikes = 2
  Results = {"paid"}
  MaxTroubles = 0
PROPERTY CeilingPauseEnds
CHECK_DEADLOCK FALSE
