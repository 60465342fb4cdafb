SPECIFICATION Spec
CONSTANTS
    Resolutions = {g1, g2}
    MaxEvents = 2
    None = None
SYMMETRY SymmetricResolutions
INVARIANTS
    TypeOK
    NoSharedWrites
