SPECIFICATION FairSpec
CONSTANTS
  c1 = c1
  c2 = c2
  c3 = c3
  c4 = c4
  home = home
  away = away
  cafe = cafe
  Conns <- MCConns
  Sources <- MCSources
  SourceOf <- MCSourceOf
  Lo = 6200
  Hi = 6201
  MaxPerIP = 1
  MaxTotal = 3
  TLSConfigured = TRUE
  RequireTLS = TRUE
  TokenSet = TRUE
  RequireAuth = TRUE
INVARIANT SlotAccounting
INVARIANT PoolConsistent
INVARIANT NoSharedListener
INVARIANT PoolSuffices
PROPERTY ImplementsPortLease
PROPERTY SlotsComeBack
