SPECIFICATION Spec
CONSTANTS
    n1 = n1
    t1 = t1
    f1 = f1
    r1 = r1
    r2 = r2
    NoEntry = NoEntry
    Node = {n1}
    Tenant = {t1}
    Fingerprint = {f1}
    Request = {r1, r2}
    TTL = 0
    MaxClock = 1
    MaxNonce = 2
    MaxKey = 0
INVARIANT
    ChallengeSingleUse
