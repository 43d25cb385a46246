SPECIFICATION Spec
CONSTANTS
  Jobs = {j1, j2, j3, j4}
  Original = Original
  None = None
  Aliases = {j4}
INVARIANTS DestinationPresent FailureRestores NothingLost
PROPERTIES ReplacesAtomically
CHECK_DEADLOCK FALSE
