SPECIFICATION Spec
CONSTANTS
  m1 = m1
  m2 = m2
  m3 = m3
  ann = ann
  bob = bob
  Messages = {m1, m2}
  Contacts = {ann, bob}
  From <- SameSender
  Handlers = {h1, h2}
  Workers = {w1, w2}
  Modes = {"open"}
  Channels = {"sms", "rcs"}
  MaxAttempts = 2
  MaxFaults = 0
SYMMETRY Symmetry
INVARIANTS TypeOK OnePerContact OwnedIsSilent
PROPERTY RepliesInOrder
CHECK_DEADLOCK FALSE
