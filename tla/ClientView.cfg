\* Two players, three positions each: removals and returns around a frame.
CONSTANTS
  Id = {p1, p2}
  MaxNews = 3
SPECIFICATION Spec
INVARIANTS TypeOK NoGhost
PROPERTIES Settles
CHECK_DEADLOCK FALSE
