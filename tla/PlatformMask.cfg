CONSTANTS
    Targets <- MaskTargets
    MaxInits = 2
    MaxRings = 1
SPECIFICATION Spec
INVARIANT
    CounterMasks
