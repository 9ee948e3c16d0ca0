\* Violation: write_all fails in the middle of a line, and the next succeeds.
SPECIFICATION Spec
CONSTANTS
  t1 = t1
  t2 = t2
  p1 = p1
  Thread <- MCThread
  Process <- MCOne
  Home <- MCShared
  None = None
  every = 3
  default_every = 3
  signed = TRUE
  FailOutcome <- MCPart
  DieOutcome <- MCWhole
  Restores = FALSE
  MaxEntries = 6
  MaxFailures = 1
  MaxDeaths = 0
  MaxAnchors = 0
SYMMETRY MCSymmetry
INVARIANTS
  AuthorityRecorded
