\* Only `aindrive rotate-token`, while the device serves the folder.
SPECIFICATION Spec
CONSTANTS
    c1 = c1
    c2 = c2
    Conn = {c1, c2}
    NoConn = NoConn
    MaxLive = 0
    MaxManual = 3
    MaxDrops = 1
INVARIANT NeverLockedOut
PROPERTY BackOnline
CHECK_DEADLOCK FALSE
