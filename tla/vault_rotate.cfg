CONSTANTS
  ann = ann
  bob = bob
  a = a
  b = b
  Users = {ann, bob, cy}
  Admins = {ann}
  Removers = {ann}
  LegacyOwner = ann
  Tabs = {a}
  UserOf <- OneTab
  Keys = {k1, k2, k3}
  Legacy = Legacy
  NoKey = NoKey
  Faults = {}
  Serial = FALSE
SPECIFICATION FairSpec
INVARIANT Revoked
PROPERTY MembersHeal
PROPERTY GrantRevokesNobody
