CONSTANTS
    LEAF_NODE_MAX_CELLS = 2
    INTERNAL_NODE_MAX_KEYS = 2
    Keys = {1, 2, 3, 4, 5}
    PointersOf <- MCPointersOf
    TABLE_MAX_PAGES = 9
SPECIFICATION Spec
CHECK_DEADLOCK FALSE
INVARIANTS
    LookupsSurviveReopen
