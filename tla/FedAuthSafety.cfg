SPECIFICATION FairSpec
CONSTANTS
    n1 = n1
    t1 = t1
    f1 = f1
    f2 = f2
    r1 = r1
    r2 = r2
    NoEntry = NoEntry
    Node = {n1}
    Tenant = {t1}
    Fingerprint = {f1, f2}
    Request = {r1, r2}
    TTL = 0
    MaxClock = 1
    MaxNonce = 2
    MaxKey = 1
INVARIANTS
    TokensAreBacked
    SequentialReplayRefused
PROPERTIES
    ImplementsTrust
    ExpiredIsRemoved
