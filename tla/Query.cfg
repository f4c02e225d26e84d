CONSTANTS
    Tables <- MCTables
    Inputs <- MCInputs
    Numerals <- MCNumerals
    WORD = 16
    HeapSize = 2
SPECIFICATION Spec
INVARIANTS
    StatementUnderstood
    CutMeansLess
    AnswerComplete
    AnswerOrdered
