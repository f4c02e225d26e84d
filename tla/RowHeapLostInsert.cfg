CONSTANTS
    PAGE_SIZE = 4096
    Values = {1, 2}
    Stored <- MCText
    RowSize <- MCSizes
    Conditions <- MCConditions
    MayDie = {}
    TABLE_MAX_PAGES = 5
SPECIFICATION Spec
PROPERTY InsertStores
