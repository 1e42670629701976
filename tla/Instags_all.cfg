SPECIFICATION Spec
CONSTANTS
    a1 = a1
    a2 = a2
    Accounts <- TwoAccounts
    NONE = NONE
    NOFILE = NOFILE
    MaxTags = 4
    MaxList = 6
SYMMETRY Symmetry
INVARIANTS
    TypeOK
    Newest
    GivenWritten
PROPERTY
    SingleSurvives
