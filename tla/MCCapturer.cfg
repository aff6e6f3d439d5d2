SPECIFICATION CapturerSpec
CONSTANTS
  None = None
  Settings <- Defaults
  Sizes <- WrongSize
  Rates = {500}
  Bitrates = {8000}
  Displays = {2}
  MaxCalls = 2
  MaxFrames = 2
  Room = 1
  Slack = 1
CHECK_DEADLOCK FALSE
INVARIANT SettledIsConsistent
INVARIANT NothingLostOnTheWay
INVARIANT SentInDecodingOrder
PROPERTY NalsAreSent
PROPERTY DeadServerEnds
