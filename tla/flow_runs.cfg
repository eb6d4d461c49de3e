SPECIFICATION FairSpec
CONSTANTS
  Plans <- SomePlans
  Agents = {a1, a2}
  Workers = {w1, w2}
  Visitors = {v1}
  Requests = {"approve", "skip", "deny", "reply", "outcome", "1", "2", "86"}
  Tenants = {"on", "paused", "off"}
  MaxRetries = 1
  MaxFaults = 1
  Others = 1
  Cap = 3
INVARIANTS TypeOK OneExecutes CalledOnce GateHolds OffersAreRecorded TakenByRight
PROPERTIES StopIsFinal AnswersAreKept LostOnlyToSlack ClaimIsKept RunIsSettled
CHECK_DEADLOCK FALSE
