SPECIFICATION NalSpec
CONSTANTS
  None = None
  WARMUP_DELTA_MAX_BYTES = 900
  WARMUP_KEY_MAX_BYTES = 600
  Frames <- MixedFrames
  MaxSeen = 5
  Pictures <- KeyAndP
  Displays <- EvenAndOdd
  MaxUnits = 4
CHECK_DEADLOCK FALSE
INVARIANT WindowMatchesHistory
INVARIANT ReplayIsDecodable
INVARIANT NalsComeOutWhole
INVARIANT NoPictureMissing
