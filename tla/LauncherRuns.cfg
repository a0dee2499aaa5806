SPECIFICATION Spec
CONSTANTS
  Downloads = {"stock", "first", "second", "baked"}
  BundleOf <- MCBundleOf
  BakedOf <- MCBakedOf
  ShippedOf <- MCShippedOf
  Servers = {"realm", "other"}
  Tokens = {"t1", "t2"}
  Asides <- MCAsides
  Files = 2
INVARIANT SettingsLast
INVARIANT BundleWhole
PROPERTY AskedOnce
