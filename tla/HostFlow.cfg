SPECIFICATION FairSpec
CONSTANTS
  Launchers = {one, two}
  Window = 2
INVARIANT Unwound
INVARIANT PortIsMine
PROPERTY CancelIsFinal
PROPERTY NoTeardownMidGame
PROPERTY HostingEnds
CHECK_DEADLOCK FALSE
