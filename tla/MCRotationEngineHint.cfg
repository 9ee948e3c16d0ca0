\* A revoke that lands while its answer is lost, and a restore like it.
SPECIFICATION Spec
CONSTANTS
  c1 = c1
  c2 = c2
  k1 = k1
  k2 = k2
  OldCred = OldCred
  None = None
  Cred <- MCCred
  Consumer <- MCConsumer
  Active = OldCred
  Baseline = TRUE
  AtomicPromote = {FALSE}
  LateWrites = FALSE
  MaxStops = 2
INVARIANT HintTellsWorld
