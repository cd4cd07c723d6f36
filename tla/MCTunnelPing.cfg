\* Pings over a healthy connection.
CONSTANTS
    None = None
    Nodes = {n1}
    Agents = {a1}
    NodeOf <- MCNodeOf
    Conns = {c1, c2}
    Calls = {r1}
    SendCap = 1
    MaxReq = 1
    MaxBreaks = 0
    Beats = TRUE
    Restarts = FALSE
SPECIFICATION Spec
PROPERTY TunnelPersists
CHECK_DEADLOCK FALSE
