SPECIFICATION TenantSpec
CONSTANTS
    c1 = c1
    c2 = c2
    known = known
    unknown = unknown
    r1 = r1
    r2 = r2
    Nobody = Nobody
    NoId = NoId
    Company = {c1, c2}
    Agent = {known, unknown}
    Registered = {known}
    Literal = {known}
    Request = {r1, r2}
    MaxTenants = 2
SYMMETRY Symmetry
INVARIANTS
    CreatedIsWhole
    KitForOwnCompany
