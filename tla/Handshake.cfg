\* Every configuration, with failures and timeouts at any point and without.
CONSTANTS
    s1 = s1
    s2 = s2
    i1 = i1
    i2 = i2
    Secrets <- MCSecrets
    NoSecret = NoSecret
    Ids <- MCIds
    NoId = NoId
SPECIFICATION FairSpec
INVARIANTS
    TypeOK
    MutualAuth
    LiveAgreement
    NoFrameRefused
PROPERTIES
    GoneForGood
    TimeoutOnlyInHandshake
    Settles
    Outcome
CHECK_DEADLOCK FALSE
