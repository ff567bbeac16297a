\* e2e() called on a connection that has closed.
CONSTANTS
    a = a
    b = b
    large = large
    small = small
    relayed = relayed
    offerA = offerA
    offerB = offerB
    End <- MCEnd
    Msg <- MCMsg
    Sender <- MCSender
    Kind <- MCKind
    Chunks <- MCChunks
    Window = 1
    KEX = 2
    CIPHERS = 2
    WriteErrors = FALSE
    Requirements = {FALSE}
    Worlds <- MCFailingWorlds
    CallsWhenGone = TRUE
SPECIFICATION FairSpec
PROPERTIES
    E2ESettles
CHECK_DEADLOCK FALSE
