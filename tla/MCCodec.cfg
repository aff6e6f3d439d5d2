SPECIFICATION Spec
CONSTANTS
  None = None
  MAX_PACKET = 67108864
  Sizes <- Boundaries
  Widths = {4}
  Payload = 7
  MaxFrames = 2
  Reach = 4
CHECK_DEADLOCK FALSE
INVARIANT StreamInOrder
INVARIANT OnlyTooLongFails
PROPERTY WholeFramesAreDecoded
