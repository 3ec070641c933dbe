CONSTANTS
    a = a
    b = b
    c = c
    Idle = idle
    NoTask = NoTask
    Modulus = 8
    Task <- Tasks
    Period <- Periods
    RelDeadline <- Deadlines
    MaxCount = 1
    Program <- OnlyTwo
SPECIFICATION Spec
INVARIANTS
    ServedAreReady
