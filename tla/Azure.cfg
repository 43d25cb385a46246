SPECIFICATION Spec
CONSTANTS
  Limit = 3
  FirstDelay = 1
  DelayStep = 1
  MaxDelay = 2
  Backoff = 1
  MaxAttempts = 3
  MaxOthers = 1
  MaxLatency = 1
INVARIANT ConnectionInv
INVARIANT OwnResult
INVARIANT WaitBounded
PROPERTY CallEnds
