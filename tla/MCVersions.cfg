\* Two requests at a time, around the snapshots and their retention.
SPECIFICATION Spec
CONSTANTS
    None = None
    i1 = i1  i2 = i2  any = any  lo = lo  c1 = c1
    Ids = {i1}
    Bodies <- OneBody
    Wildcards = {any}
    CertIds = {}
    Relays = {}
    Handlers = {h1, h2}
    MaxVersion = 5
    Keep = 2
    MaxImport = 1
    Faults = {"insert", "version"}
INVARIANT RetentionBound
PROPERTY NewestKept
