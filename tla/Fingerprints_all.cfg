SPECIFICATION Spec
CONSTANTS
    bob = bob
    carol = carol
    f1 = f1
    f2 = f2
    Contacts <- TwoContacts
    Prints <- TwoPrints
    Keyrings <- OneOrTwo
    NULL = NULL
    FREED = FREED
    NONE = NONE
INVARIANTS
    TypeOK
    InStep
    ActiveListed
    TrustEarned
PROPERTIES
    Recovers
