\* Writes fail only once the connection is gone.
CONSTANTS
    a = a
    large = large
    small = small
    relayed = relayed
    beat = beat
    offer = offer
    End <- MCEnd
    Msg <- MCMsg
    Sender <- MCSender
    Kind <- MCKind
    Chunks <- MCChunks
    Window = 2
    WriteErrors = FALSE
SPECIFICATION FairSendSpec
INVARIANTS
    NoSendLost
    ChunksInOrder
    ClearThenSealed
    WindowKept
    ResolvedMeansWritten
PROPERTIES
    SendsSettle
CHECK_DEADLOCK FALSE
