SPECIFICATION MCSpec
CONSTANTS
    None = None
    NotFinite = NotFinite
    HalfLimit = 500
    Alignment = 4
    TextureCount = 2
    Units = {0, 1}
    FaceNames <- MCFaceNames
    SlotNames <- MCSlotNames
    Framebuffers = {f1, f2}
    Renderbuffers = {r1, r2}
    MaxLevels = 3
    MaxSize = 4
    MaxAnisotropy = 2
    Budget = 100
    Calls = 6
INVARIANTS
    ReadsAttached
