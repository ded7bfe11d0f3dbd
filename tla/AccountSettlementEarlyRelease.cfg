\* The operator runs `release` without waiting for `check` to say "expired".
SPECIFICATION Spec
CONSTANTS
    a1 = a1
    a2 = a2
    s1 = s1
    s2 = s2
    g1 = g1
    n1 = n1
    n2 = n2
    e1 = e1
    e2 = e2
    bad = bad
    r1 = r1
    r2 = r2
    r3 = r3
    Account = {a1}
    Share = {s1}
    Goods = {g1}
    GoodsOf <- MCGoodsOf
    Nonce = {n1, n2}
    Envelope = {e1, e2, bad}
    NonceOf <- MCNonceOf
    Malformed = {bad}
    Request = {r1, r2}
    ReleaseAfterCheck = FALSE
    None = None
CONSTRAINT FewInterventions
SYMMETRY Symmetry
INVARIANT NoSecondCharge
CHECK_DEADLOCK FALSE
