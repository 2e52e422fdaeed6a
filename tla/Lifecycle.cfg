CONSTANTS
    Targets <- CoreTargets
    MaxInits = 3
    MaxRings = 2
SPECIFICATION Spec
INVARIANTS
    TypeOK
    InitWaits
    EnvKept
    TableLive
    AssertsHold
    UpIsReachable
    NestedMasks
    RingsFit
PROPERTIES
    KickKept
    RightVector
