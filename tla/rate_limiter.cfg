CONSTANTS
  login1 = login1
  login2 = login2
  address = address
  account = account
  Subjects = {address, account}
  Clients = {login1, login2}
  SubjectsOf <- LoginSubjects
  Threshold <- Two
  Base <- One
  MaxLockout = 4
  MaxSteps = 4
  Decay = 2
  MaxCount = 5
SPECIFICATION FairSpec
INVARIANT TypeOK
INVARIANT LateAttemptsBounded
INVARIANT BackoffTopsOut
PROPERTY LockoutServed
PROPERTY ForgivenOnlyIdle
PROPERTY LockoutEnds
