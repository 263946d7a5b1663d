SPECIFICATION Spec
CONSTANTS
    n1 = n1
    n2 = n2
    t1 = t1
    g1 = g1
    g2 = g2
    d1 = d1
    d2 = d2
    r1 = r1
    r2 = r2
    NoTenant = NoTenant
    NoRegion = NoRegion
    NoNode = NoNode
    NoPool = NoPool
    DefaultDB = DefaultDB
    Node = {n1, n2}
    Database = {d1, d2}
    Tenant = {t1}
    Region = {g1, g2}
    Request = {r1, r2}
    Home <- SomeHomes
    Routes <- SomeRoutes
    MaxChanges = 1
SYMMETRY Symmetry
INVARIANT ConfiguredDatabase
