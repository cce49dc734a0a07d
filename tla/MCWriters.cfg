SPECIFICATION Spec
CONSTANT Mixes <- MCMixes
INVARIANTS LineageLands NothingStale
PROPERTY OthersKept
CHECK_DEADLOCK FALSE
