\* One part of the panel at a time; requests of the same part interleave.
CONSTANTS
    Uuids = {u1, u2}
    BadUuids = {u2}
    Syncers = {loop, manual}
    MaxChanges = 2
    MaxFaults = 1
    PolUuids = {p1, p2}
    RNodes = {n1}
    Limits = {0, 1}
    MaxEdits = 2
    MaxLost = 1
    MaxReboots = 1
    Ips = {i1, i2}
    Rates = {1}
    Ifaces = {e1, e2}
    Callers = {l1, l2}
    NoIface = NoIface
    MaxPlans = 3
    MaxFails = 1
    Bodies <- MCBodies
    MaxPort = 2
    MappedPorts = {}
    Slots = {1, 2}
    TunHandlers = {t1, t2}
    MaxRequests = 2
    MaxTroubles = 2
    IranUnits = {u1}
    Kharej = k
    CoreHandlers = {c1, c2}
    MaxCoreRequests = 5
    MaxCoreTroubles = 1
    IssueBodies <- MCIssueBodies
    CertIds = {1, 2}
    CertHandlers = {r1, r2}
    MaxPairs = 2
    MaxCertFaults = 1
    maxJobLines = 2
    ChanCap = 2
    Viewers = {v1, v2}
    MaxLines = 3
    HaMappings <- MCHaMappings
    HaForeign <- MCHaForeign
    HaTaken <- MCHaTaken
    HaRequests <- MCHaRequests
    MaxHaMappings = 2
    NxMappings <- MCNxMappings
    NxRequests <- MCNxRequests
    MaxNxMappings = 2
    Upstreams <- MCUpstreams
    HttpServers <- MCHttpServers
    StreamBlocks <- MCStreamBlocks
    MaxBlocks = 3
SPECIFICATION PanelSpec
CONSTRAINT OneRateTrouble
INVARIANTS
    SyncReflects  ClassesTracked
     AnswersTrue CoresGuarded PairsMatch LateJoinerComplete
    AccessEnforced RoundTrip SitesExact NginxServes
CHECK_DEADLOCK FALSE
