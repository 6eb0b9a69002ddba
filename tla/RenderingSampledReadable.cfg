SPECIFICATION RenderingSpec
CONSTANTS
    Textures = {t1, t2}
    Framebuffers = {f1}
    Surface = surface
    None = none
PROPERTY SampledReadable
