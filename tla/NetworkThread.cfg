\* Three connections that come and go, and a server that fails to start or is stopped at any moment.
CONSTANTS
  Conn = {c1, c2, c3}
SPECIFICATION Spec
INVARIANTS TypeOK Counted
PROPERTIES Reclaimed Stops
CHECK_DEADLOCK FALSE
