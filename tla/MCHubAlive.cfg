\* Pings, a broken connection and panel restarts around one call.
CONSTANTS
    None = None
    Nodes = {n1}
    Agents = {a1}
    NodeOf <- MCNodeOf
    Conns = {c1, c2}
    Calls = {r1}
    SendCap = 1
    MaxReq = 1
    MaxBreaks = 1
    Beats = TRUE
    Restarts = TRUE
SPECIFICATION FairSpec
PROPERTY Released
CHECK_DEADLOCK FALSE
