SPECIFICATION FairSpec
CONSTANTS
    w1 = w1
    w2 = w2
    L0 = L0
    L1 = L1
    Links = {L0, L1}
    Waiters = {w1, w2}
    WaitsFor <- OnePerLink
    Contexts = {"isr", "task"}
    Ports <- AllPorts
    MaxKicks = 3
    MaxInits = 3
INVARIANT
    TypeOK
PROPERTIES
    TrueMeansUp
    WaitReturns
CHECK_DEADLOCK FALSE
