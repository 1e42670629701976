SPECIFICATION FairSpec
CONSTANTS
    alice = alice
    bob = bob
    Parties <- Both
    Peer <- OtherOne
    NONE = NONE
    MaxHalves = 5
    MaxTicks = 2
    MaxStarts = 2
    MaxEvents = 3
INVARIANTS
    TypeOK
    AgreeWhenQuiet
PROPERTIES
    IsPrivateChannel
    StartConnects
    EndTells
CHECK_DEADLOCK FALSE
