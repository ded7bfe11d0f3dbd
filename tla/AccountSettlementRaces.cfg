\* Two accounts, two links for the same thing, three requests.
SPECIFICATION RaceSpec
CONSTANTS
    a1 = a1
    a2 = a2
    s1 = s1
    s2 = s2
    g1 = g1
    n1 = n1
    n2 = n2
    e1 = e1
    e2 = e2
    bad = bad
    r1 = r1
    r2 = r2
    r3 = r3
    Account = {a1, a2}
    Share = {s1, s2}
    Goods = {g1}
    GoodsOf <- MCGoodsOf
    Nonce = {n1, n2}
    Envelope = {e1, e2, bad}
    NonceOf <- MCNonceOf
    Malformed = {bad}
    Request = {r1, r2, r3}
    ReleaseAfterCheck = TRUE
    None = None
SYMMETRY Symmetry
INVARIANTS
    NoSecondCharge
    OneUnresolvedRow
    PaidRowIsNotReleased
CHECK_DEADLOCK FALSE
