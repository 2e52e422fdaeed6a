SPECIFICATION Spec
CONSTANTS
    N = 2
    IdxMod = 8
INVARIANTS
    TypeOK
    Ownership
    NoOverrun
PROPERTY
    ImplementsFifo
