SPECIFICATION Spec
CONSTANTS
    r1 = r1
    b1 = b1
    b2 = b2
    h1 = h1
    h2 = h2
    w = w
    None = None
    Repo = {r1}
    Branch = {b1, b2}
    Handler = {h1}
    Worker = w
    MaxCommit = 1
    MaxPush = 2
    MaxCrash = 1
INVARIANTS
    TypeOK
    InOrder
    OneSender
PROPERTY
    EachHandled
