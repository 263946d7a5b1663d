SPECIFICATION TenantSpec
CONSTANTS
    c1 = c1
    c2 = c2
    known = known
    unknown = unknown
    r1 = r1
    Nobody = Nobody
    NoId = NoId
    Company = {c1, c2}
    Agent = {known, unknown}
    Registered = {known}
    Literal = {}
    Request = {r1}
    MaxTenants = 2
INVARIANT
    UnknownAgentIsLinked
