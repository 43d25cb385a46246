SPECIFICATION RewriteSpec
CONSTANTS
  Contents = {1, 2, 3, 4}
  Packages <- SomePackages
  ExpansionLimit = 10
  MemberLimit = 5
  MaxFileSize = 12
  Damaged = Damaged
INVARIANT PreflightFirst
INVARIANT RewrittenWhole
INVARIANT OthersPreserved
INVARIANT BudgetHolds
