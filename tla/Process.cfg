SPECIFICATION FairSpec
CONSTANTS
  Callers = {c1, c2}
  Capacity = 2
  Limit = 2
  MaxOutput = 4
INVARIANTS PipesPrivate OutputComplete
PROPERTIES ReturnsAfterExit NeverBlocksChild
