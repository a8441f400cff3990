CONSTANTS
  Users = {ann}
  Nobody = Nobody
  None = None
  Retention = 1
  Batch = 1
  Page = 2
  Late = 1
  MaxTime = 3
  MaxEvents = 4
SPECIFICATION FairSpec
INVARIANT TypeOK
 
PROPERTY BacklogDrains
CHECK_DEADLOCK FALSE
