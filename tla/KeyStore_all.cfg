SPECIFICATION ListSpec
CONSTANTS
    n1 = n1
    p1 = p1
    p2 = p2
    p3 = p3
    k1 = k1
    k2 = k2
    Names <- OneName
    Protocols <- ThreeProtocols
    Keys <- TwoKeys
    NONE = NONE
    NOFILE = NOFILE
    BROKEN = BROKEN
SYMMETRY Symmetry
CONSTRAINT OneWayToKeep
INVARIANTS
    TypeOK
    InStep
    ListIsStore
PROPERTIES
    OthersKept
    Recovers
