CONSTANTS
    Width = 4
    Height = 2
    Printable <- Characters
    Nul = Nul
    BufferSize = 6
    MaxArgs = 2
    RxSize = 1
    Snake <- SnakeName
    Timer <- TimerName
    Test <- TestName
    Stress <- StressName
    Session <- Users
SPECIFICATION FairSpec
INVARIANTS
    TypeOK
    CommandAsShown
    SnakeSound
    NeckNeedsTwoTurns
PROPERTIES
    KeysConsumed
    GivesUpCpu
