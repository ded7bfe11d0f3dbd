SPECIFICATION Spec
CONSTANTS
    r1 = r1
    r2 = r2
    k1 = k1
    k2 = k2
    Reader = {r1, r2}
    Key = {k1, k2}
    Retention = 2
    Page = 1
    Jump = 10
    MaxChange = 3
    MaxRestore = 1
    None = None
SYMMETRY Symmetry
INVARIANTS
    TypeOK
    NothingMissed
    Outranks
PROPERTY
    CursorHolds
