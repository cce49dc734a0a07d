SPECIFICATION Spec
CONSTANT Mixes <- MCMixes
INVARIANT OneNodePerTable
CHECK_DEADLOCK FALSE
