SPECIFICATION MCSpec
CONSTANTS
    Handles = {h1, h2}
    LastValue = 2
    MaxQueue = 2
    QueuePresents = TRUE
    Generations = {1, 2}
    NTypes = 2
    RingSize = 3
    LastSequence = 7
    Readers = {1, 2}
    Capacities = {0, 2, 4}
INVARIANTS
    HandlesOwned
    FailuresVisible
PROPERTIES
    WaitCovers
    
    CallsReturn
    NoSilentGap
    ImplementsLog
