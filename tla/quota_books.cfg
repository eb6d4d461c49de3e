SPECIFICATION Spec
CONSTANTS
  Calls = {c1, c2}
  Legs = {l1}
  NumGrants = 0
  Periods = {p1, p2}
  Cap = 4
  MinGrant = 1
  MaxGrant = 3
  MaxConcurrent = 2
  Minute = 2
  ShortWeight = 2
  LongWeight = 3
  PackSeconds = {2}
  Durations = {3}
  CarrierReports = {1}
  Weights = {3}
SYMMETRY Symmetry
CONSTRAINT MoneyOnly
INVARIANTS IncludedLedgerAgrees
CHECK_DEADLOCK FALSE
