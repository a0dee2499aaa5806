SPECIFICATION WC3Spec
CONSTANTS
  NConns = 1
  NJoiners = 2
  NStreams = 1
  MaxJoiners = 1
INVARIANT NoLostStream
INVARIANT LossReported
PROPERTY ServeEnds
PROPERTY WC3Released
CHECK_DEADLOCK FALSE
