CONSTANTS
  Tabs = {a, b}
  Passwords = {p, q}
  Original = p
  Seeds = {s1, s2}
  Vaults = {v}
  Legacy = Legacy
  None = None
  LegacyTabs = 2
  Faults = {}
SPECIFICATION Spec
SYMMETRY Symmetry
CHECK_DEADLOCK FALSE
PROPERTY KeypairKept
