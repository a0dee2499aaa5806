SPECIFICATION FairSpec
CONSTANTS
  Loads <- MCLoads
  InboxCap = 1
  OutCap = 1
INVARIANT NeverStuck
PROPERTY Verbatim
PROPERTY EndsTogether
CHECK_DEADLOCK FALSE
