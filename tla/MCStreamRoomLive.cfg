SPECIFICATION Spec
CONSTANTS
  p1 = p1
  p2 = p2
  v1 = v1
  v2 = v2
  None = None
  WARMUP_DELTA_MAX_BYTES = 2
  WARMUP_KEY_MAX_BYTES = 1
  Publishers = {p1}
  Viewers = {v1, v2}
  Slow = {v2}
  Capacity = 1
  Uses <- OneCodec
  MaxFrames <- Two
CHECK_DEADLOCK FALSE
PROPERTY FastViewersCatchUp
PROPERTY DeadViewersLeave
