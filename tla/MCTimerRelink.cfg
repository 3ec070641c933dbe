CONSTANTS
    MaxTimers = 2
    Periods = {1, 2}
    Sharers = 1
    Null = Null
SPECIFICATION Spec
INVARIANTS
    PeriodicRelinked
