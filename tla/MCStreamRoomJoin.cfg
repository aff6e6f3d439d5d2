SPECIFICATION Spec
CONSTANTS
  p1 = p1
  p2 = p2
  v1 = v1
  v2 = v2
  None = None
  WARMUP_DELTA_MAX_BYTES = 2
  WARMUP_KEY_MAX_BYTES = 1
  Publishers = {p1, p2}
  Viewers = {v1}
  Slow = {}
  Capacity = 2
  Uses <- OneCodec
  MaxFrames <- SixThenNone
CHECK_DEADLOCK FALSE
INVARIANT NeverNeither
INVARIANT DecodableAfterKey
