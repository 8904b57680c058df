\* Four frames, two of them without payload, cut in chunks of 1 to 6 bytes.
CONSTANTS
  MaxFrames = 4
  Begin <- Begin4
  READ_BLOCK_SIZE = 6
  MayThrow = {1, 2, 3, 4}
SPECIFICATION Spec
INVARIANTS WholeBlockOffered PromptlyHandled
PROPERTIES ImplementsFrameStream Handled
CHECK_DEADLOCK FALSE
