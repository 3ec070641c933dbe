CONSTANTS
    short = short
    other = other
    long = long
    Name <- ShortNames
    Key <- ShortKey
    Saved <- ShortSaved
    Never = Never
    Deleted = Deleted
    RootEntries = 3
    SectorSlots = 2
    SectorsPerFat = 2
    FatEntries = 4
    ScanEnd = 18
    LastCluster = 3
    ClusterSize = 2
    Words <- TwoWords
    Space <- OneSpace
SPECIFICATION Spec
INVARIANTS
    TypeOK
    ChainsApart
    LookupsAgree
PROPERTIES
    StoreSpec
    FailsOnlyWhenFull
    CloseHitsOpened
