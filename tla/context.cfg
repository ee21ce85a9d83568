SPECIFICATION Spec
CONSTANTS
    Values = {v1, v2}
    MaxFrames = 4
    Idents = {t1, t2, t3}
    Recycled = FALSE
INVARIANTS
    TypeOK
    InheritedUnseen
PROPERTIES
    ImplementsCallContext
SYMMETRY Symmetry
