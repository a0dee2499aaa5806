SPECIFICATION FairSpec
CONSTANTS
  Copies = {here}
  Others = {elsewhere}
  Changes = 3
  Upsets = 3
INVARIANT PublishedWhole
INVARIANT ListedAsIs
PROPERTY NeverClobbers
PROPERTY Arrives
