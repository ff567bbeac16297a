\* Both ends dial, one of them restarts, links may fail at any point.
CONSTANTS
    lo = lo
    hi1 = hi1
    hi2 = hi2
    c1 = c1
    c2 = c2
    c3 = c3
    c4 = c4
    NoConn = NoConn
    Proc <- MCProc
    Id <- MCId
    Conn = {c1, c2, c3}
    Dialler <- MCDialler
    Listener <- MCListener
    Mortal = {hi1, hi2}
    Worlds <- MCWorlds
SPECIFICATION FairSpec
INVARIANTS
    TypeOK
    NoOrphans
    EventsMatch
    NothingComesBack
PROPERTIES
    AskedIsKept
    Agree
    DialSettles
CHECK_DEADLOCK FALSE
