SPECIFICATION Spec
CONSTANTS
    s1 = s1
    s2 = s2
    i1 = i1
    i2 = i2
    Sessions = {s1}
    Instances = {i1}
    Policies <- DefaultPolicies
    Wire <- AllWire
    MASTER = MASTER
    NULL = NULL
    FREED = FREED
    BEST = BEST
    MaxTicks = 2
INVARIANTS
    ContextKept
CHECK_DEADLOCK FALSE
