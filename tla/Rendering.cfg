SPECIFICATION RenderingSpec
CONSTANTS
    Textures = {t1, t2}
    Framebuffers = {f1}
    Surface = surface
    None = none
INVARIANTS
    BeliefsTrue
PROPERTIES
    DrawsInState
SYMMETRY TextureSymmetry
