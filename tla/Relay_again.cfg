\* An end asks again for a link it has.
CONSTANTS
    a = a
    b = b
    End <- MCEnd
    MaxAsks = 2
    MaxFrames = 0
    Worlds <- MCAgainWorlds
SPECIFICATION FairSpec
PROPERTIES
    ProxiesAreNotified
CHECK_DEADLOCK FALSE
