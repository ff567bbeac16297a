\* What was held while switching does not always go first.
CONSTANTS
    a = a
    large = large
    small = small
    relayed = relayed
    beat = beat
    offer = offer
    End <- MCEnd
    Msg <- MCMsg
    Sender <- MCSender
    Kind <- MCKind
    Chunks <- MCChunks
    Window = 2
    WriteErrors = FALSE
SPECIFICATION SendSpec
PROPERTIES
    HeldGoesFirst
CHECK_DEADLOCK FALSE
