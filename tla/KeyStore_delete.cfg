SPECIFICATION ListSpec
CONSTANTS
    n1 = n1
    p1 = p1
    p2 = p2
    p3 = p3
    k1 = k1
    k2 = k2
    Names <- OneName
    Protocols <- TwoProtocols
    Keys <- TwoKeys
    NONE = NONE
    NOFILE = NOFILE
    BROKEN = BROKEN
PROPERTY
    DeleteKeyDeletes
