CONSTANTS
    p1 = p1
    p2 = p2
    Pool = {p1, p2}
    BlockCount = 3
    OpsPerTick <- TwoOps
    MaxPools = 1
    Client = {c1, c2, c3}
    Null = Null
    Data = Data
SPECIFICATION FairSpec
INVARIANTS
    TypeOK
    FreeListExact
    NoSharedBlock
PROPERTIES
    LowWaterMark
    BudgetReturns
