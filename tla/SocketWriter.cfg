\* Five packets of 1 to 4 bytes, any split of the writes, failures, both closes.
CONSTANTS
  MaxPackets = 5
  Size <- SizesOf5
SPECIFICATION Spec
INVARIANTS TypeOK WriteMatchesFront NoStall
PROPERTIES ImplementsPacketPipe Delivered
CHECK_DEADLOCK FALSE
