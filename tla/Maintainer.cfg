\* A connection that is kept, watched and called over.
CONSTANTS
    c1 = c1
    c2 = c2
    NoCall = NoCall
    Call <- MCCall
    MaxSeq = 2
    Interval = 2
    MaxMissed = 2
    E2EWait = 3
    MaxLinks = 4
    MaxAttempt = 2
    Worlds <- MCWorlds
SPECIFICATION FairSpec
INVARIANTS
    TypeOK
    FoundOut
    KeepsTrying
PROPERTIES
    CallsKeepContract
    Recovers
CHECK_DEADLOCK FALSE
