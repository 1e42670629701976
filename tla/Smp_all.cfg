SPECIFICATION FairSpec
CONSTANTS
    alice = alice
    bob = bob
    s1 = s1
    s2 = s2
    Parties <- Both
    Peer <- OtherOne
    Secrets <- TwoSecrets
    NONE = NONE
    MaxCalls = 3
INVARIANTS
    TypeOK
    ToldWhenOver
    NoStall
PROPERTIES
    CompleteAgrees
    EveryRunEnds
CHECK_DEADLOCK FALSE
