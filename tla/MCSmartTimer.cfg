CONSTANTS
    MaxTimers = 3
    Periods = {1, 2}
    Sharers = 1
    Null = Null
SPECIFICATION FairSpec
INVARIANTS
    TypeOK
    ListSound
    CountsAgree
    FiresOnTime
PROPERTIES
    OneShotEnds
