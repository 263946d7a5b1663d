SPECIFICATION FairSpec
CONSTANTS
    n1 = n1
    n2 = n2
    r1 = r1
    r2 = r2
    NoName = NoName
    Absent = Absent
    NoMessage = NoMessage
    Node = {n1, n2}
    Request = {r1, r2}
    Kind = {"heartbeat", "telemetry"}
    maxEvents = 2
    Threshold = 0
    MaxClock = 1
    MaxMessages = 3
INVARIANTS
    StreamIsTail
    RegistryIsRecorded
    AnsweredIsOnline
PROPERTIES
    HeartbeatLands
