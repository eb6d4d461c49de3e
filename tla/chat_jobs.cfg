SPECIFICATION FairSpec
CONSTANTS
  Messages = {m1, m2}
  Workers = {w1, w2}
  Kinds = {"messenger", "coworker", "box"}
  Window = 1
  MaxAttempts = 2
  MaxFaults = 2
INVARIANTS TypeOK SentOnce SupersededIsNotLate
PROPERTIES DoneIsFinal JobsAreSettled
CHECK_DEADLOCK FALSE
