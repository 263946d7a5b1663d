SPECIFICATION Spec
CONSTANTS
    k1 = k1
    t1 = t1
    t2 = t2
    r1 = r1
    r2 = r2
    NoTenant = NoTenant
    NoRow = NoRow
    NoTask = NoTask
    Null = Null
    Kit = {k1}
    Tenant = {t1, t2}
    Request = {r1, r2}
    Lifetime = 0
    MaxClock = 1
SYMMETRY Symmetry
INVARIANTS
    ValidIsActivated
    ActivatedWasFresh
    AuditIsTruthful
