\* Live rotations; a connection drops or the device restarts, answers come late.
SPECIFICATION Spec
CONSTANTS
    c1 = c1
    c2 = c2
    Conn = {c1, c2}
    NoConn = NoConn
    MaxLive = 3
    MaxManual = 0
    MaxDrops = 1
INVARIANTS
    TypeOK
    NeverLockedOut
    ConnectedIsReachable
PROPERTIES
    Rotates
    BackOnline
CHECK_DEADLOCK FALSE
