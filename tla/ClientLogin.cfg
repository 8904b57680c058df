\* A client that sends up to three positions, before, while and after it logs in.
CONSTANTS
  MaxFrames = 3
SPECIFICATION Spec
INVARIANTS TypeOK WireOrder ReportedPos
PROPERTIES LoggedIn
CHECK_DEADLOCK FALSE
