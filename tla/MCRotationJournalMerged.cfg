\* Appends are cut short; two crashes.
SPECIFICATION Spec
CONSTANTS
  h1 = h1
  Handle <- MCHandle
  None = None
  TornWrites = {1, 2}
  MaxEntries = 10
  MaxCrashes = 2
INVARIANT RecoveryExact
