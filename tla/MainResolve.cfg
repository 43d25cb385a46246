SPECIFICATION ResolveSpec
CONSTANT MaxArguments = 2
INVARIANTS TargetResolved FirstMatchWins
