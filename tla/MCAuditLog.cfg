\* One process with two threads; a failed append leaves nothing behind, a
\* death leaves all of the line, all but its newline, a part or none of it.
SPECIFICATION Spec
CONSTANTS
  t1 = t1
  t2 = t2
  p1 = p1
  Thread <- MCThread
  Process <- MCOne
  Home <- MCShared
  None = None
  every = 3
  default_every = 3
  signed = TRUE
  FailOutcome <- MCNothing
  DieOutcome <- MCAny
  Restores = TRUE
  MaxEntries = 5
  MaxFailures = 1
  MaxDeaths = 1
  MaxAnchors = 2
SYMMETRY MCSymmetry
INVARIANTS
  TypeOK
  LinesChain
  CheckpointAttests
  AuthorityRecorded
  IntentsAccounted
  AnchorConsistent
  LossDetected
PROPERTIES
  AnchorNeverRecedes
