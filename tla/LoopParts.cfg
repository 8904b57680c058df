\* Each part that a loop moves, on its own. 32-bit integers have 40 values,
\* for the timers 8; ticks of 4 ms, a clock that is set back by up to 2.
SPECIFICATION Spec
CONSTANTS
  W = 40
  WORLD_SLEEP_CONST = 4
  MaxWork = 8
  MaxBack = 2
  MaxLate = 2
  TimerW = 8
  Diff = {0, 1, 2, 5}
  Interval = {0, 2, 3}
  Expiry = {0, 2, 5}
  Period = {1, 3}
  TimerTime = 10
  MaxItems = 4
  Rate = 1
  AvatarTime = 6
  Place = {0, 1}
  MaxAngle = 2
  MaxScroll = 1
  Uid = {u1, u2}
  Spot <- MCSpot
  Zoom = {0, 1}
  None = None
INVARIANTS TypeOK Sleeps KeepTime Fifo Travel Shows
CHECK_DEADLOCK FALSE
