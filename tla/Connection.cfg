\* Two packets, one of them without payload, written and read in any chunks.
CONSTANTS
  MaxPackets = 2
  Begin <- Begin2
  READ_BLOCK_SIZE = 5
SPECIFICATION Spec
INVARIANTS TypeOK HasPacket
PROPERTIES ImplementsPacketPipe ImplementsPacketLink EndToEnd
CHECK_DEADLOCK FALSE
