CONSTANTS
    PAGE_SIZE = 4096
    Values = {1, 2}
    Stored <- MCText
    RowSize <- MCSizes
    Conditions <- MCConditions
    MayDie = {"idle", "update", "close"}
    TABLE_MAX_PAGES = 5
SPECIFICATION FairSpec
INVARIANTS
    TypeOK
    CountersRight
    RowsReachable
    RowsOnDisk
PROPERTIES UpdateReachesEveryRow UpdateEnds KeepsPromise
