\* A write fails on a connection that is still up: queued sends are lost.
CONSTANTS
    a = a
    large = large
    small = small
    relayed = relayed
    beat = beat
    offer = offer
    End <- MCEnd
    Msg <- MCMsg
    Sender <- MCSender
    Kind <- MCKind
    Chunks <- MCChunks
    Window = 2
    WriteErrors = TRUE
SPECIFICATION FairSendSpec
PROPERTIES
    SendsSettle
CHECK_DEADLOCK FALSE
