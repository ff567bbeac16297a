\* One link between two ends, in every combination of what may happen to it.
CONSTANTS
    a = a
    b = b
    End <- MCEnd
    MaxAsks = 2
    MaxFrames = 2
    Worlds <- MCWorlds
SPECIFICATION FairSpec
INVARIANTS
    TypeOK
    CarriedByRelay
    FramesOfThisLink
    NobodyBlamed
PROPERTIES
    ProxySettles
    HalvesGoTogether
CHECK_DEADLOCK FALSE
