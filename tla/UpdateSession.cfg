\* Two addresses, logins without end, three sessions in use at a time.
CONSTANTS
  Slot = {c1, c2}
  WorldSession = {s1, s2, s3}
  NoSession = NoSession
  NoSocket = NoSocket
SPECIFICATION Spec
PROPERTIES Served
CHECK_DEADLOCK FALSE
