SPECIFICATION FairSpec
CONSTANTS
    Op <- MCOp
    Size <- MCSize
    consulTxOperationLimit = 3
    txnMaxReqLen = 4
    MaxOps = 4
INVARIANTS
    TypeOK
    BatchWithinLimits
    NothingLost
    OkMeansAll
    SmallCallAtomic
PROPERTIES
    EveryCallAnswered
    ImplementsPartialWrite
