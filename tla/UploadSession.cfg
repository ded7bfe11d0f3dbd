\* A client that resumes, one request beside it, failures and crashes.
SPECIFICATION Spec
CONSTANTS
    h1 = h1
    h2 = h2
    h3 = h3
    Handler = {h1, h2}
    Client = h1
    Size = 3
    PartChunks = 2
    MaxStray = 2
    MaxFail = 2
    None = None
INVARIANTS
    TypeOK
    PublishedIsWhole
    AckedBytesStay
    CountedIsPublished
PROPERTY SessionEnds
CHECK_DEADLOCK FALSE
