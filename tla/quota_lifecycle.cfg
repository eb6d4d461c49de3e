SPECIFICATION Spec
CONSTANTS
  Calls = {c1, c2}
  Legs = {}
  NumGrants = 0
  Periods = {p1, p2}
  Cap = 2
  MinGrant = 1
  MaxGrant = 3
  MaxConcurrent = 1
  Minute = 1
  ShortWeight = 2
  LongWeight = 3
  PackSeconds = {2}
  Durations = {1, 3}
  CarrierReports = {}
  Weights = {}
SYMMETRY Symmetry
INVARIANTS OversoldAtMostOneRound
PROPERTY ImplementsVoiceHold
CHECK_DEADLOCK FALSE
