SPECIFICATION FairSpec
CONSTANTS
    NContexts = 2
    NBlocks = 1
    NStores = 1
    Sizes = {1, 2, 3}
    ContextBytes = 2
    MaxShadow = 3
    MaxGlobal = 6
    MaxBlock = 3
    MaxCache = 2
INVARIANTS
    Accounting
    StorageWithinBudget
PROPERTIES
    CallsReturn
