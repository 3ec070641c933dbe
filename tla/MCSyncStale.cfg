CONSTANTS
    a = a
    b = b
    c = c
    Idle = idle
    NoTask = NoTask
    Modulus = 16
    Task <- Tasks
    Period <- PeriodsApart
    RelDeadline <- DeadlinesApart
    MaxCount = 1
    Program <- OnlyThree
SPECIFICATION Spec
INVARIANTS
    ChoiceIsReady
