SPECIFICATION Spec
CONSTANTS
  Calls = {c1, c2}
  Legs = {}
  NumGrants = 0
  Periods = {p1}
  Cap = 2
  MinGrant = 1
  MaxGrant = 2
  MaxConcurrent = 2
  Minute = 1
  ShortWeight = 2
  LongWeight = 3
  PackSeconds = {2}
  Durations = {2}
  CarrierReports = {}
  Weights = {}
INVARIANTS IncludedWithinCap
CHECK_DEADLOCK FALSE
