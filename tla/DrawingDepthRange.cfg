SPECIFICATION MCSpec
CONSTANTS
    None = None
    NotFinite = NotFinite
    One = 2
    StencilMax = 3
    MaxSize = 4
    MaxWidth = 3
    Calls = 3
    Compares <- MCCompares
    StencilOps <- MCStencilOps
    StencilFuncs <- MCStencilFuncs
    BlendFuncs <- MCBlendFuncs
    BlendEquations <- MCBlendEquations
    Colors <- MCColors
    Numbers <- MCNumbers
    Boxes <- MCBoxes
    ColorMasks <- MCColorMasks
    Surfaces <- MCSurfaces
    UserTargets <- MCUserTargets
    Devices <- MCDevices
    Programs <- MCPrograms
    Masks <- MCMasks
    Pairs <- MCPairs
    Modes <- MCModes
    Keys = {k1, k2, k3, k4}
    Handles = {h1, h2, h3, h4}
    InitialCapacity = 1
    MaxCapacity = 3
    Null = none
INVARIANTS
    DepthRangePassed
