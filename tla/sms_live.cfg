SPECIFICATION FairSpec
CONSTANTS
  m1 = m1
  m2 = m2
  m3 = m3
  ann = ann
  bob = bob
  Messages = {m1, m2}
  Contacts = {ann, bob}
  From <- SameSender
  Handlers = {h1}
  Workers = {w1}
  Modes = {"open"}
  Channels = {"sms", "rcs"}
  MaxAttempts = 2
  MaxFaults = 1
PROPERTIES QueuedIsSettled EventIsHandled
CHECK_DEADLOCK FALSE
