CONSTANTS
    RedBlackKeys = {1, 2, 3, 4, 5, 6, 7, 8}
    Vals = {1, 2}
    Pairs <- MCPairs
    NULL = NULL
    BTreeKeys = {1, 2, 3, 4}
    T = 2
    BTREE_INSERTS = 11
    LeafKeys = {1, 2, 3, 4, 5, 6, 7}
    ORDER = 3
    LEAF_INSERTS = 8
SPECIFICATION Spec
CHECK_DEADLOCK FALSE
INVARIANTS
    RedBlackShape
    BTreeShape
    LeavesListKeys
PROPERTIES FindsWhatWasGiven FixEnds
