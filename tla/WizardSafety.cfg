SPECIFICATION Spec
CONSTANTS
    Company = {"c1"}
    None = None
    Placeholder = Placeholder
    Ttl = 2
    MaxClock = 2
    MaxClicks = 2
    MaxKits = 2
INVARIANTS
    TenantsAccountedFor
    ExpiryIsReal
