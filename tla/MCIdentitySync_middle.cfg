SPECIFICATION Spec
CONSTANTS
    Workers = {w1, w2}
    GapLimit = 2
    MaxIndex = 3
SYMMETRY Accounts
INVARIANT
    HolesChecked
CHECK_DEADLOCK FALSE
