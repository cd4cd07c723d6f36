\* auto_apply with a healthy host: the last edit wins.
CONSTANTS
    nginx = nginx
    haproxy = haproxy
    conf = conf
    http = http
    decoy = decoy
    cfg = cfg
    c1 = c1
    c2 = c2
    bad = bad
    Unchecked = {decoy}
    EngineOf <- MCEngineOf
    Renders <- MCRenders
    Uses <- MCUses
    Accepts <- MCAccepts
    None = None
    Torn = Torn
    Free = Free
    Down = Down
    Keep = 1
    Engines = {nginx, haproxy}
    Files = {conf, http, cfg}
    Configs = {c1, c2}
    Appliers = {a1, a2}
    Restorers = {}
    MaxClock = 1
    AutoApply = TRUE
    Faults = {}
SPECIFICATION FairSpec
PROPERTY AutoApplyConverges
