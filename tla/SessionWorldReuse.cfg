\* Two addresses, each used by two connections: reuse of a session id.
CONSTANTS
  Slot = {c1, c2}
  MaxGen = 2
  MaxMove = 1
  NoSlot = NoSlot
SYMMETRY Symmetric
SPECIFICATION Spec
INVARIANTS TypeOK MutualView FreshView NoGhost
PROPERTIES ImplementsLifecycle
CHECK_DEADLOCK FALSE
