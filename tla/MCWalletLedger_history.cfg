SPECIFICATION Spec
CONSTANTS
    Gap = 1
    Account = {0, 1}
    Tx = {"fund", "payA", "sweep"}
    Outpoint <- Outpoints
    Creator <- CreatorOf
    Spends <- SpendsOf
    Owner <- OwnerOf
    Worth <- SatoshisIn
    Before <- SortedBefore
    Amount <- AmountOf
    Foreign <- ForeignAddress
    UserAddresses <- FarAddresses
    None = None
INVARIANT
    HistoryIsComplete
CHECK_DEADLOCK FALSE
