SPECIFICATION Spec
CONSTANTS
    bpe = 3
    base = 2
    Calls <- SmallCalls
CHECK_DEADLOCK FALSE
INVARIANTS
    TypeOK
    MontgomeryPrefix
    PowersRight
    ProductRight
    Bezout
    InverseRight
PROPERTY
    Shrinks
