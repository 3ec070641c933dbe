CONSTANTS
    Char = {x, y}
    NoChar = NoChar
    RxBufferSize = 3
    HwDepth = 2
    Width = 4
SPECIFICATION FairSpec
INVARIANTS
    TypeOK
    CharsAccounted
PROPERTIES
    FifoSpec
    CharsReceived
