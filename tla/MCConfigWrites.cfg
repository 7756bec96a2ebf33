SPECIFICATION Spec
CONSTANTS
    r1 = r1
    r2 = r2
    k1 = k1
    k2 = k2
    k3 = k3
    Old = Old
    Absent = Absent
    Request <- TwoRequests
    Key <- ThreeKeys
    Lengths <- ShortAndLong
    txnMaxReqLen = 3
    consulTxOperationLimit = 2
    MaxOps = 3
SYMMETRY Symmetric
INVARIANTS
    TypeOK
    AckMeansWritten
    AckIsFinal
    ValuesAreRequested
PROPERTIES
    ImplementsAtomicWrites
