SPECIFICATION Spec
CONSTANTS
  PingEvery = 10
  ReadIdle = 30
  IdleTimeout = 60
  DialTimeout = 3
  Burst = 7
INVARIANT SilentIsDead
CHECK_DEADLOCK FALSE
