CONSTANTS
    MaxHeight = 21
    ValidatorCounts <- MCValidatorCounts
    Pages <- MCPages
    LastBlocks <- MCLastBlocks
    NoParam = NoParam
    BadParam = BadParam
SPECIFICATION Spec
INVARIANTS TypeOK BlockPagesPartition ValidatorPagesPartition RecentBlocksAfterLast
