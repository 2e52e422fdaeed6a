SPECIFICATION Spec
CONSTANTS
    N = 2
    IdxMod = 4
    m1 = m1
    r1 = r1
    r2 = r2
    MTasks = {m1}
    RTasks = {r1, r2}
    RL_BLOCK = RL_BLOCK
    MaxSend = 3
    Setups <- MessageSetups
    Free = Free
    RxThread = RxThread
SYMMETRY TaskSymmetry
INVARIANTS
    TypeOK
    OneOwner
    NotAlreadyInUse
    InOrderDelivery
    HeldIntact
    NothingDropped
PROPERTY
    IdxReadBack
CHECK_DEADLOCK FALSE
