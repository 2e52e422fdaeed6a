CONSTANTS
    Targets <- XosTargets
    MaxInits = 2
    MaxRings = 1
SPECIFICATION Spec
INVARIANT
    InitWaits
