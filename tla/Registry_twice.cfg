\* One side dials twice: neither connection is kept.
CONSTANTS
    lo = lo
    hi1 = hi1
    hi2 = hi2
    c1 = c1
    c2 = c2
    c3 = c3
    c4 = c4
    NoConn = NoConn
    Proc <- MCProc
    Id <- MCId
    Conn = {c2, c4}
    Dialler <- MCDialler
    Listener <- MCListener
    Mortal = {}
    Worlds <- MCTwice
SPECIFICATION FairSpec
PROPERTIES
    OneIsKept
CHECK_DEADLOCK FALSE
