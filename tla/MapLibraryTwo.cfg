SPECIFICATION Spec
CONSTANTS
  Copies = {here, again}
  Others = {}
  Changes = 1
  Upsets = 1
INVARIANT PublishedWhole
