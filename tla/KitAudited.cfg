SPECIFICATION Spec
CONSTANTS
    k1 = k1
    t1 = t1
    r1 = r1
    r2 = r2
    NoTenant = NoTenant
    NoRow = NoRow
    NoTask = NoTask
    Null = Null
    Kit = {k1}
    Tenant = {t1}
    Request = {r1, r2}
    Lifetime = 0
    MaxClock = 1
INVARIANT
    SuccessIsAudited
