SPECIFICATION ReadingSpec
CONSTANTS
  NConns = 1
  NJoiners = 0
  NStreams = 1
  MaxJoiners = 1
PROPERTY WC3Told
CHECK_DEADLOCK FALSE
