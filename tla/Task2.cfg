CONSTANTS
    N = 5
    BUFFER_SIZE = 5
    ITEMS = 10
    Readers = {r1, r2, r3}
    Writers = {w1, w2}
    Nobody = Nobody
    Customers = {c1, c2, c3, c4, c5}
    CHAIRS = 3
    Callers = {t1, t2}
    CALLS = 3
    FIRST_USERS = 2
    UNKNOWN = 9
    NoCaller = NoCaller
SPECIFICATION Spec
INVARIANTS
    NeighboursNeverEat
    BufferInOrder
    WritersExclude
    ChairsBalance
    AnswersHold
PROPERTIES
    CallsAreSequential
    ThreadsEnd
