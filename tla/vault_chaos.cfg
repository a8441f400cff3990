CONSTANTS
  ann = ann
  bob = bob
  a = a
  b = b
  Users = {ann, bob}
  Admins = {ann}
  Removers = {ann}
  LegacyOwner = ann
  Tabs = {a, b}
  UserOf <- BothAnns
  Keys = {k1, k2}
  Legacy = Legacy
  NoKey = NoKey
  Faults = {"fail"}
  Serial = FALSE
SPECIFICATION Spec
SYMMETRY KeyTabSymmetry
INVARIANT TypeOK
INVARIANT SharesDieWithVault
INVARIANT NullOnlyWhenOvertaken
PROPERTY LiveObjectKept
