\* Two racing PATCH requests, saves that fail, bodies of every kind.
SPECIFICATION Spec
CONSTANTS
    Clients = {c1, c2}
    Patches <- MixedPatches
    MayFail = TRUE
SYMMETRY ClientSymmetry
INVARIANTS
    StoredIsValid
PROPERTIES
    OnlyOverlapReverts
