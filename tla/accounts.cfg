CONSTANTS
  Tabs = {a, b}
  Passwords = {p, q}
  Original = p
  Seeds = {s1, s2, s3, s4}
  Vaults = {v, w}
  Legacy = Legacy
  None = None
  LegacyTabs = 1
  Faults = {"crash", "fail"}
SPECIFICATION Spec
SYMMETRY Symmetry
CHECK_DEADLOCK FALSE
INVARIANT TypeOK
INVARIANT KeysOpen
INVARIANT VaultsOpen
INVARIANT TabKeyed
