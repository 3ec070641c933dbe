CONSTANTS
    a = a
    b = b
    c = c
    Idle = idle
    NoTask = NoTask
    Modulus = 4
    Task <- Tasks
    Period <- Periods
    RelDeadline <- Deadlines
    MaxCount = 1
    Program <- Three
SPECIFICATION Spec
CONSTRAINT EndEarly
INVARIANTS
    TypeOK
    LinksEnd
    NoWaiterLost
    LocksAccountedFor
    UnitsAccountedFor
PROPERTIES
    InheritanceKept
