\* Either end may switch; anything may fail at any point, or nothing does.
CONSTANTS
    a = a
    b = b
    large = large
    small = small
    relayed = relayed
    offerA = offerA
    offerB = offerB
    End <- MCEnd
    Msg <- MCMsg
    Sender <- MCSender
    Kind <- MCKind
    Chunks <- MCChunks
    Window = 1
    KEX = 2
    CIPHERS = 2
    WriteErrors = FALSE
    Requirements = {TRUE, FALSE}
    Worlds <- MCWorlds
    CallsWhenGone = FALSE
SPECIFICATION FairSpec
INVARIANTS
    TypeOK
    NothingRefused
    SessionsAgree
    ParkedOnce
    RequiredMeansSealed
PROPERTIES
    E2ESettles
    SwitchCompletes
    AllArrive
CHECK_DEADLOCK FALSE
