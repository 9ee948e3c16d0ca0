\* Both kinds of backend; liveness is checked, so there is no symmetry.
SPECIFICATION FairSpec
CONSTANTS
  c1 = c1
  c2 = c2
  k1 = k1
  k2 = k2
  OldCred = OldCred
  None = None
  Cred <- MCCred
  Consumer <- MCConsumer
  Active = OldCred
  Baseline = TRUE
  AtomicPromote = {TRUE, FALSE}
  LateWrites = FALSE
  MaxStops = 3
INVARIANTS
  TypeOK
  PublishedIsLive
  NoConsumerBroken
  CompletedReplaced
  RolledBackRestored
  ContextIsDurable
  ValueHeldWhenNeeded
  HintSafeToFollow
PROPERTIES
  WriteAhead
  HintBeforeEscalation
  Graceful
  FinalIsFinal
  Terminates
