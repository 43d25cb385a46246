SPECIFICATION FairSpec
CONSTANTS
  a = a
  b = b
  MaxFiles = 3
  MaxParallel = 2
  MaxRetries = 1
  Paths = {a, b}
  Target <- Repeated
  Original = Original
INVARIANTS PoolInv ExitCodeHonest ConcurrencyBound NarrativesApart
PROPERTY BatchTerminates
