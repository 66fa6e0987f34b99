CONSTANTS
    m1 = m1
    m2 = m2
    k1 = k1
    k2 = k2
    Mappings <- MCMappings
    Keys <- MCKeys
    MaxValue = 2
    Programs <- MCPrograms
    TxShapes <- MCTxShapesPaid
    InitStore <- MCInitStore
    Finalize <- MCFinalize
    NotInit = NotInit
    Unloaded = Unloaded
    Alias = Alias
    NoFuture = NoFuture
    PrivateFee = PrivateFee
    MaxBlocks = 2
    MaxTxs = 2
    MaxDbErrors = 0
    MaxRestarts = 0
    MaxReads = 1
SPECIFICATION Spec
INVARIANTS AcceptedHaveNoReason
CHECK_DEADLOCK FALSE
