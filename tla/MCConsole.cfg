CONSTANTS
    CONSBUFSIZE = 3
    CRT_COLS = 2
    CRT_ROWS = 2
    BUFLEN = 4
    Modifier <- MCModifier
    Tapped <- MCTapped
    SerialByte = {8, 13}
    Prompt <- MCPrompt
    Reply <- MCReply
    MaxWire = 4
    MaxKeys = 4
    MaxBytes = 3
SPECIFICATION Spec
INVARIANTS
    InputIsFifo
    NoStuckModifier
    EchoShowsLine
CHECK_DEADLOCK FALSE
