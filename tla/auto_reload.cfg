SPECIFICATION FairSpec
CONSTANTS
  Sweeps = {s1, s2}
  NumEvents = 2
  NumCards = 2
  MaxWindow = 2
  Limit = 1
  Strikes = 2
  Results = {"paid", "hard", "action"}
  MaxTroubles = 2
INVARIANTS TypeOK NeverUndercounted CeilingHolds
PROPERTIES PaidIsGranted PendingIsClosed
CHECK_DEADLOCK FALSE
