CONSTANTS
  Users = {ann, bob, cy}
  Vaults = {p}
  Nobody = Nobody
  Leavers = {ann, bob, cy}
  Faults = {"crash"}
  InHand = 2
  MaxRaces = 1
SPECIFICATION MCSpec
SYMMETRY UserSymmetry
CHECK_DEADLOCK FALSE
INVARIANT TypeOK
INVARIANT MembersExist
INVARIANT NothingLeftInTurn
PROPERTY ComesInBelow
PROPERTY RowsGoFirst
PROPERTY LastOwnerSafe
PROPERTY OwnersFallInTurn
