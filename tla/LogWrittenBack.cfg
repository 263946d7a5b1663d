SPECIFICATION ViewsSpec
CONSTANTS
    NotRendered = NotRendered
    MaxEffects = 3
    NotPolled = NotPolled
    Nothing = Nothing
    LastVersion = 2
    MaxFlights = 2
    MaxFailures = 1
    MaxReruns = 1
    NoTerminal = NoTerminal
    KeepLogs = 3
    MaxCommands = 4
    Agent = {a1}
    Other = Other
    NoAgent = NoAgent
    Bridges = 1
    Stack = 3
    MaxReconnectAttempts = 1
    MaxPolls = 2
    MaxWire = 1
    NotRun = NotRun
    View = 2
    NearEnd = 1
    MaxEntries = 5
CHECK_DEADLOCK FALSE
INVARIANT
    ClearedAtAnyTime
