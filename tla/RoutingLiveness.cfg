SPECIFICATION Spec
CONSTANTS
    None = None
    Sent = Sent
    MaxVisits = 1
    MaxCeremonies = 2
CHECK_DEADLOCK FALSE
INVARIANTS
    BusyPageHasCeremony
    PagesBehindAuthAreOfRegistered
PROPERTIES
    Settles
    RegisteredMovesOn
