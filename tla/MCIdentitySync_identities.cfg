SPECIFICATION Spec
CONSTANTS
    Workers = {w1, w2}
    GapLimit = 2
    MaxIndex = 3
SYMMETRY Accounts
INVARIANTS
    ScanComplete
PROPERTIES
    AnswerIsFree
CHECK_DEADLOCK FALSE
