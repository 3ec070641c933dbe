CONSTANTS
    MaxTimers = 2
    Periods = {1, 2}
    Sharers = 2
    Null = Null
SPECIFICATION Spec
INVARIANTS
    CountsAgree
