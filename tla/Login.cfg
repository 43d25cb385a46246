SPECIFICATION LoginSpec
CONSTANTS
  MaxAttempts = 3
  MaxOthers = 0
  MaxClients = 2
INVARIANTS OnlyOwnCode PageTrue LossExplained
PROPERTY LoginDecides
CHECK_DEADLOCK FALSE
