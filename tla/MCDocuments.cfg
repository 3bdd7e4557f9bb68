CONSTANTS
    Files = {f1, f2}
    NoFile = NoFile
    Requests = {r1, r2}
SYMMETRY Symmetry
SPECIFICATION Spec
INVARIANTS
    RowHasBlob
    NoOrphanBlob
PROPERTIES
    NeverDestroyed
