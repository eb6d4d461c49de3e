SPECIFICATION Spec
CONSTANTS
  Messages = {m1, m2}
  Workers = {w1}
  Kinds = {"messenger"}
  Window = 4
  MaxAttempts = 2
  MaxFaults = 0
INVARIANT LateMessageIsAnswered
SYMMETRY Symmetry
CHECK_DEADLOCK FALSE
