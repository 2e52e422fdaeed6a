SPECIFICATION Spec
CONSTANTS
    Node = {n1, n2, n3}
    Tasks = {t1, t2}
    Addr = {1, 2, 7}
    RL_ADDR_ANY = RL_ADDR_ANY
    RL_NS_EPT_ADDR = 3
    NULL = NULL
    Garbage = Garbage
    Free = Free
SYMMETRY TaskAndNodeSymmetry
INVARIANT
    WalkSafe
CHECK_DEADLOCK FALSE
