\* DelayedCloseSocket against its comment.
CONSTANTS
  MaxPackets = 3
  Size <- SizesOf3
SPECIFICATION Spec
PROPERTIES DelayedCloseHonoured
CHECK_DEADLOCK FALSE
