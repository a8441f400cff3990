CONSTANTS
  ann = ann
  bob = bob
  a = a
  b = b
  Users = {ann, bob, cy}
  Admins = {ann}
  Removers = {}
  LegacyOwner = ann
  Tabs = {a, b}
  UserOf <- TabEach
  Keys = {k1, k2, k3}
  Legacy = Legacy
  NoKey = NoKey
  Faults = {"crash"}
  Serial = TRUE
SPECIFICATION Spec
SYMMETRY KeySymmetry
INVARIANT SharesOpenLive
PROPERTY KeepsPromise
