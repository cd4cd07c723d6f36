\* Two requests at a time, two accounts, sessions and failed logins.
CONSTANTS
    None = None
    i1 = i1  i2 = i2  p1 = p1  p2 = p2
    Ids = {i1, i2}
    Names = {n1, n2}
    Passwords = {p1, p2}
    Roles = {"owner", "viewer"}
    IPs = {a1}
    Handlers = {h1, h2}
    MaxFails = 1
    MaxTokens = 2
SPECIFICATION Spec
INVARIANTS TypeOK OwnerRemains TokenRoleGranted FailsBounded
PROPERTY SetupFirst
SYMMETRY AccountSymmetry
