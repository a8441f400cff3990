CONSTANTS
  Sessions = {x, y}
  Secrets = {k1, k2, k3}
  NoSecret = NoSecret
  Sheets = {A, B}
  PerSheet = 2
  Managing = 1
  Faults = {"crash"}
SPECIFICATION Spec
SYMMETRY Symmetry
INVARIANT TypeOK
INVARIANT NoLockout
INVARIANT SingleUse
INVARIANT CodesWork
