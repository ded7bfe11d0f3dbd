SPECIFICATION FairSpec
CONSTANTS
    Out = 4
    In = 2
    Window = 3
    InWindow = 2
    Pipe = 2
    Dropped = {FALSE}
INVARIANTS
    TypeOK
    CleanExit
    WindowKept
PROPERTIES
    Ends
CHECK_DEADLOCK FALSE
