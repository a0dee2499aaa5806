SPECIFICATION FairSpec
CONSTANTS
  NClients = 2
  NJoiners = 2
  NStreams = 1
  MaxClients = 1
  MaxJoiners = 1
INVARIANT TypeOK
INVARIANT NoOrphanSocket
INVARIANT PortGivenBackQuietly
PROPERTY FramesInOrder
PROPERTY FitsServer
PROPERTY WindsUp
PROPERTY HostToldOfEnd
CHECK_DEADLOCK FALSE
