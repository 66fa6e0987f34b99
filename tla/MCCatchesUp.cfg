CONSTANTS
    m1 = m1
    m2 = m2
    k1 = k1
    k2 = k2
    Mappings <- MCMappings
    Keys <- MCKeys
    MaxValue = 3
    Programs <- MCProgramsWide
    TxShapes <- MCTxShapesWide
    InitStore <- MCInitStoreWide
    Finalize <- MCFinalize
    NotInit = NotInit
    Unloaded = Unloaded
    Alias = Alias
    NoFuture = NoFuture
    PrivateFee = PrivateFee
    MaxBlocks = 1
    MaxTxs = 3
    MaxDbErrors = 0
    MaxRestarts = 0
    MaxReads = 0
SPECIFICATION FairSpec
PROPERTY CatchesUp
CHECK_DEADLOCK FALSE
