\* Three crashes, of which the last may cut a write short.
SPECIFICATION Spec
CONSTANTS
  h1 = h1
  Handle <- MCHandle
  None = None
  TornWrites = {3}
  MaxEntries = 10
  MaxCrashes = 3
INVARIANTS
  TypeOK
  RecoveryExact
  ReplayIsContext
