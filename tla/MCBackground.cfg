SPECIFICATION Spec
CONSTANTS
    PolUuids = {p1, p2}
    RNodes = {n1}
    Limits = {0, 1}
    MaxEdits = 2
    MaxLost = 1
    MaxReboots = 0
    HKeys = {k1, k2}
    Hosts = {a, b}
    NoHost = NoHost
    MaxHealthEvents = 2
    SNodes = {s1, s2}
    ReverseNodes = {s2}
    StatusHandlers = {h}
    MaxNodeEvents = 4
PROPERTIES
    FailedRetried
    HealthFollows
    StatusConverges
CHECK_DEADLOCK FALSE
