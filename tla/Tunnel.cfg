SPECIFICATION TunnelSpec
CONSTANTS
  NIds = 2
  NStreams = 3
  MaxLive = 2
  Senders = {s1, s2}
  MaxFrameLen = 8
  Buffers = {0, 1, 3}
  MaxFrames = 2
  PingEvery = 3
  ReadIdle = 9
  IdleTimeout = 18
  DialTimeout = 1
  Burst = 5
INVARIANT InSync
INVARIANT StreamWhole
INVARIANT NoFalseDeath
INVARIANT NoticedInTime
PROPERTY MeetsOnlyTheLeaving
PROPERTY HalfOpenHeals
PROPERTY Through
PROPERTY VanishingNoticed
CHECK_DEADLOCK FALSE
