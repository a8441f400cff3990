CONSTANTS
  ann = ann
  bob = bob
  a = a
  b = b
  Users = {ann, bob}
  Admins = {ann}
  Removers = {ann}
  LegacyOwner = ann
  Tabs = {a}
  UserOf <- OneTab
  Keys = {k1, k2}
  Legacy = Legacy
  NoKey = NoKey
  Faults = {"crash"}
  Serial = TRUE
SPECIFICATION Spec
SYMMETRY KeySymmetry
INVARIANT LiveBlobReadable
