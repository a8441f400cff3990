CONSTANTS
  Users = {ann, bob}
  Nobody = Nobody
  Tabs = {a, b}
  Vaults = {p}
  Salts = {1, 2, 3}
  NoSalt = NoSalt
  Limit = 1
SPECIFICATION FairSpec
INVARIANT TypeOK
INVARIANT KeysOwn
INVARIANT VaultsOpen
PROPERTY IdleTabsLock
