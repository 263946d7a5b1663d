SPECIFICATION BridgeSpec
CONSTANTS
    a1 = a1
    blank = blank
    o1 = o1
    o2 = o2
    k1 = k1
    k2 = k2
    None = None
    Id = {a1, blank}
    Blank = {blank}
    Channel = {"ops"}
    MAX_EVENTS = 2
    MAX_INTENTS = 2
    MAX_COMMANDS = 2
    MAX_LOG_SIZE = 1
    OFFLINE_THRESHOLD = 0
    staleAfter = 0
    MaxClock = 2
    MaxPosts = 3
    OperatorId = {o1, o2}
    Key = {k1, k2}
    MaxChallenge = 2
    MaxRequests = 3
SYMMETRY Symmetry
INVARIANTS
    ReportsAgree
    RegistryMatchesStream
    VerifiedWasCredentialed
