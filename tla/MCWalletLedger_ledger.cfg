SPECIFICATION Spec
CONSTANTS
    Gap = 1
    Account = {0, 1}
    Tx = {"fund", "payA", "payB", "move"}
    Outpoint <- Outpoints
    Creator <- CreatorOf
    Spends <- SpendsOf
    Owner <- OwnerOf
    Worth <- SatoshisIn
    Before <- SortedBefore
    Amount <- AmountOf
    Foreign <- ForeignAddress
    UserAddresses <- FarAddresses
    None = None
INVARIANTS
    TypeOK
    LedgerExact
    BalanceMatchesUtxos
    UtxosAreListedOutputs
    OnlyUsersMakeHoles
    SelectionFits
    TypeFollowsMoney
PROPERTIES
    NoSecondCredit
    ImportLooksAhead
CHECK_DEADLOCK FALSE
