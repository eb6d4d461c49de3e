SPECIFICATION Spec
CONSTANTS
  m1 = m1
  m2 = m2
  m3 = m3
  ann = ann
  bob = bob
  Messages = {m1, m3}
  Contacts = {ann, bob}
  From <- TwoSenders
  Handlers = {h1}
  Workers = {w1}
  Modes = {"open", "safe", "paused"}
  Channels = {"sms", "rcs"}
  MaxAttempts = 2
  MaxFaults = 1
INVARIANTS AttemptsBounded ShownIsSent RepliesAreCounted SlotsAreReturned
SYMMETRY Symmetry
CHECK_DEADLOCK FALSE
