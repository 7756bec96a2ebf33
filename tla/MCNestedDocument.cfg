SPECIFICATION Spec
CONSTANTS
    Order <- Plain
    IndexOf <- MCIndexOf
    maxListIndex = 1
    MaxKeys = 14
INVARIANTS
    TypeOK
    EveryPropertyReturned
    DocumentIsATree
    FlatOnlyOnConflict
