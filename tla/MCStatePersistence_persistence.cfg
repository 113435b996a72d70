SPECIFICATION Spec
CONSTANTS
    Pays <- TwoPayments
    Gap = 1
    MaxSaves = 2
    MaxRestarts = 2
    MaxFailures = 1
INVARIANTS TypeOK DiskResumes CreditIsSavedOrPending BalanceMatchesUtxos
PROPERTY SavedIsKept
CHECK_DEADLOCK FALSE
