SPECIFICATION MCSpec
CONSTANTS
    VertexShaders = {v1}
    FragmentShaders = {f1, f2}
    ProgramNames = {p1, p2}
    Sources = {plain, tinted}
    Numeric = {tinted}
    Handles = {h1, h2, h3, h4}
    SharedHandles = {h1, h2}
    None = none
    Offered <- MCOffered
    Givens <- MCGivens
    Capacity = 3
    MatrixCapacity = 2
    TextureUnits = 2
    MaxAttribs = 2
    MaxInputs = 6
    MaxVaryings = 6
    AttributeNames = {"a", "b", "c", "gl_d"}
    Reserved = {"gl_d"}
INVARIANTS
    ShadersKept
    ModulesOwned
    CacheMatchesModules
    InterfaceAsDeclared
PROPERTY
    UpdatesWhole
SYMMETRY NameSymmetry
