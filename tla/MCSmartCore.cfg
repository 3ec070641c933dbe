CONSTANTS
    a = a
    b = b
    Idle = idle
    NoTask = NoTask
    Modulus = 8
    Task <- PeriodicTasks
    Period <- PeriodicPeriod
    RelDeadline <- PeriodicDeadline
    Delays <- DelayThree
SPECIFICATION FairSpec
INVARIANTS
    TypeOK
    EdfDispatch
    ReleasesOnTime
    DeadlineOfRelease
PROPERTIES
    PreemptedByEarlier
    SleepersWake
