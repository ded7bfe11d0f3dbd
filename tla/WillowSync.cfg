SPECIFICATION Spec
CONSTANTS
    d1 = d1
    d2 = d2
    d3 = d3
    Device = {d1, d2}
    Threshold = 2
    MaxDigests = 4
    MaxEdit = 2
    MaxSave = 3
    MaxDrop = 1
    MaxFrames = 2
INVARIANTS
    TypeOK
PROPERTIES
    SharesDocument
    SaveIsReadable
    Converge
