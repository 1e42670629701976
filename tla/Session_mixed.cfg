SPECIFICATION Spec
CONSTANTS
    s1 = s1
    s2 = s2
    i1 = i1
    i2 = i2
    Sessions = {s1, s2}
    Instances = {i1}
    Policies <- MixedPolicies
    Wire <- AnswerWire
    MASTER = MASTER
    NULL = NULL
    FREED = FREED
    BEST = BEST
    MaxTicks = 2
INVARIANTS
    NoLeak
    PrivacyFlag
    EncryptionRequired
CHECK_DEADLOCK FALSE
