SPECIFICATION Spec
CONSTANTS
    NSlots = 2
    MaxGen = 1
    NAttribs = 1
    NHandles = 3
    Bytes = {0, 1}
    MaxSize = 2
    MaxShadow = 3
INVARIANTS
    StorageConsistent
    ReferencesLive
PROPERTIES
    ArraysKeepTheirState
    FailedCallsChangeNothing
VIEW ViewNotRaised
