CONSTANTS
    PAGE_SIZE = 4096
    LEAF_NODE_MAX_CELLS = 2
    INTERNAL_NODE_MAX_KEYS = 2
    Keys = {1, 2, 3}
    Values = {"short", "long"}
    RowSize <- MCSizes
    Inserts <- MCInserts
    Deletes <- MCDeletes
    Updates <- MCUpdates
    MayDie = {"idle", "update", "delete", "close"}
    TABLE_MAX_PAGES = 7
    MAX_STATEMENTS = 6
SPECIFICATION Spec
CHECK_DEADLOCK FALSE
INVARIANTS
    KeysUnique
    RangesAgree
    PointersMeanKey
    UndefinedNeedsSplit
PROPERTIES KeepsPromise KillKeepsKeys
