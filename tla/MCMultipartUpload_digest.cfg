SPECIFICATION Spec
CONSTANTS
    Users = {alice}
    Uploads = {u1}
    Requests = {r1, r2, r3}
    Connections = {c1}
    Contents = {x, y}
    MaxPart = 1
    MaxFaults = 0
    None = None
    Torn = Torn
SYMMETRY Symmetry
INVARIANTS DigestMatchesObject
