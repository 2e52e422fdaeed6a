SPECIFICATION FairSpec
CONSTANTS
    N = 2
    IdxMod = 4
    m1 = m1
    r1 = r1
    r2 = r2
    MTasks = {m1}
    RTasks = {r1, r2}
    RL_BLOCK = RL_BLOCK
    MaxSend = 2
    Setups <- LiveSetups
    Free = Free
    RxThread = RxThread
PROPERTIES
    EventuallyDelivered
    SendReturns
CHECK_DEADLOCK FALSE
