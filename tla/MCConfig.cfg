\* One request at a time over three mappings, of which two conflict.
SPECIFICATION Spec
CONSTANTS
    None = None
    i1 = i1  i2 = i2  any = any  lo = lo  c1 = c1
    Ids = {i1, i2}
    Bodies <- MCBodies
    Wildcards = {any}
    CertIds = {c1}
    Relays = {r1, r2}
    Handlers = {h1}
    MaxVersion = 3
    Keep = 1
    MaxImport = 2
    Faults = {"insert", "list", "delete"}
SYMMETRY Symmetry
INVARIANTS ConflictFree RestoreExact RestoreUndoable
