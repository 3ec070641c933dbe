CONSTANTS
    short = short
    other = other
    long = long
    Name <- LongNames
    Key <- LongKey
    Saved <- LongSaved
    Never = Never
    Deleted = Deleted
    RootEntries = 2
    SectorSlots = 2
    SectorsPerFat = 2
    FatEntries = 5
    ScanEnd = 5
    LastCluster = 4
    ClusterSize = 2
    Words <- TwoWords
    Space <- OneSpace
SPECIFICATION Spec
PROPERTIES
    CloseHitsOpened
