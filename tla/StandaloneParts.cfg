\* The parts that work on sequences of data, each on its own.
SPECIFICATION Spec
CONSTANTS
  Opcode = {2}
  PacketField <- MCPacketField
  MaxPacketFields = 3
  StreamField <- MCStreamField
  MaxStreamFields = 4
  MaxSize = 6
  None = None
INVARIANTS TypeOK RoundTrip Complete
CHECK_DEADLOCK FALSE
