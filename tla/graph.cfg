SPECIFICATION Spec
CONSTANTS
    N = 4
    MaximumDepth = 3
CHECK_DEADLOCK FALSE
INVARIANTS OrderRespectsDependencies CycleIffNotExecutable LevelsAreChains
