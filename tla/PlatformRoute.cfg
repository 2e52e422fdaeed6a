CONSTANTS
    Targets <- RouteTargets
    MaxInits = 2
    MaxRings = 1
SPECIFICATION Spec
PROPERTY
    RightVector
