\* getMSTimeDiff at the overflow, against its comment.
CONSTANTS
  W = 40
  WORLD_SLEEP_CONST = 4
  MaxWork = 8
  MaxLate = 2
  MaxBack = 0
SPECIFICATION Spec
INVARIANTS DiffIsElapsed
