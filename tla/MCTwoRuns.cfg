\* One consumer; the first process may die once.
SPECIFICATION FairSpec
CONSTANTS
  c1 = c1
  c2 = c2
  k1 = k1
  OldCred = OldCred
  None = None
  CredA <- MCCredA
  CredB <- MCCredB
  Consumer <- MCConsumer
  StopsA = 1
  StopsB = 0
INVARIANTS
  OutageNeedsRestore
  OwnVersion
PROPERTIES
  RecoveryKnowsItsOwn
  BothEnd
