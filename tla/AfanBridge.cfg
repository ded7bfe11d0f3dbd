SPECIFICATION FairSpec
CONSTANTS
    h1 = h1
    h2 = h2
    q1 = q1
    q2 = q2
    k1 = k1
    Host = {h1, h2}
    Request = {q1, q2}
    Key = {k1}
    KeyOf <- TheKey
    WithFiles = {q1}
    Earlier = {q2}
    None = None
    SameName = FALSE
    MaxOutage = 2
    MaxStop = 2
INVARIANTS
    TypeOK
    OneCaller
PROPERTIES
    FinalStays
    EachAnswered
CHECK_DEADLOCK FALSE
