SPECIFICATION Spec
CONSTANTS
  r1 = r1
  r2 = r2
  Run <- MCRun
SYMMETRY MCSymmetry
INVARIANTS
  TypeOK
  VerifiedBeforeCompleted
  ConsumersServed
  NoOrphans
  UnverifiedNeverPublished
  EscalationKeepsBothLive
  StateTellsWorld
PROPERTIES
  NoForwardAfterCompensation
