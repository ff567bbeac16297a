\* Two running processes share an id: a live one is given up unasked.
CONSTANTS
    lo = lo
    hi1 = hi1
    hi2 = hi2
    c1 = c1
    c2 = c2
    c3 = c3
    c4 = c4
    NoConn = NoConn
    Proc <- MCProc
    Id <- MCId
    Conn = {c1, c2, c3}
    Dialler <- MCDialler
    Listener <- MCListener
    Mortal = {}
    Worlds <- MCTwins
SPECIFICATION Spec
PROPERTIES
    LiveIsKept
CHECK_DEADLOCK FALSE
