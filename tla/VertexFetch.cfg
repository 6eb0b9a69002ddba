SPECIFICATION Spec
CONSTANTS
    Buffers = {b1}
    Arrays = {a0, a1}
    Default = a0
    Attribs = {1}
    Values = {0, 1}
    Pointers <- MCPointers
    Divisors <- MCDivisors
    Sizes <- MCSizes
    Ranges <- MCRanges
    Inputs <- MCInputs
    CacheSize = 2
    MaxGeneration = 2
    MaxStride = 7
    Max32 = 7
    Max64 = 15
    None = none
INVARIANTS
    CacheFresh
    DrawsInside
    RefusesExactly
