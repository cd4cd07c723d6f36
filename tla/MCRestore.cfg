\* An apply and a restore, backups deleted at any time.
CONSTANTS
    nginx = nginx
    haproxy = haproxy
    conf = conf
    http = http
    decoy = decoy
    cfg = cfg
    c1 = c1
    c2 = c2
    bad = bad
    Unchecked = {decoy}
    EngineOf <- MCEngineOf
    Renders <- MCRenders
    Uses <- MCUses
    Accepts <- MCAccepts
    None = None
    Torn = Torn
    Free = Free
    Down = Down
    Keep = 1
    Engines = {nginx}
    Files = {conf, http, decoy}
    Configs = {c1, c2}
    Appliers = {a1}
    Restorers = {r1}
    MaxClock = 2
    AutoApply = FALSE
    Faults = {"reload", "write", "delete", "copy", "crash", "missing", "list", "cert", "version"}
SPECIFICATION Spec
INVARIANT BackupsAccepted
CONSTRAINT Calm
