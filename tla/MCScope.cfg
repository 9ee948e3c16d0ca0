CONSTANTS
  Byte = {"a", "b", "*"}
  Wild = "*"
  Backend = {"v", "w"}
  USIZE_MAX = 255
  Requests <- MCRequests
SPECIFICATION FairSpec
INVARIANTS
  TypeOK
  DecidesAsDocumented
PROPERTIES
  MatcherAdvances
  Ends
CHECK_DEADLOCK FALSE
