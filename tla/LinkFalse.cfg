SPECIFICATION Spec
CONSTANTS
    w1 = w1
    w2 = w2
    L0 = L0
    L1 = L1
    Links = {L0, L1}
    Waiters = {w1}
    WaitsFor <- AnyLink
    Contexts = {"isr"}
    Ports <- FreeRtos
    MaxKicks = 2
    MaxInits = 2
PROPERTY
    FalseMeansTimeout
CHECK_DEADLOCK FALSE
