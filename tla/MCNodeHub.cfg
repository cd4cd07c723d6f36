\* An agent whose connections break while two calls are under way.
CONSTANTS
    None = None
    Nodes = {n1}
    Agents = {a1}
    NodeOf <- MCNodeOf
    Conns = {c1, c2}
    Calls = {r1, r2}
    SendCap = 1
    MaxReq = 2
    MaxBreaks = 2
    Beats = FALSE
    Restarts = FALSE
SPECIFICATION FairSpec
INVARIANTS TypeOK ReportedMatches OnlyRegisteredUp AnswersOwnRequest ServedOnce PendingOwned
PROPERTY Reconnects
CHECK_DEADLOCK FALSE
