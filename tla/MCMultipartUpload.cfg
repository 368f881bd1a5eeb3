SPECIFICATION Spec
CONSTANTS
    Users = {alice, bob}
    Uploads = {u1}
    Requests = {r1, r2}
    Connections = {c1, c2}
    Contents = {x, y}
    MaxPart = 2
    MaxFaults = 1
    None = None
    Torn = Torn
SYMMETRY Symmetry
INVARIANTS TypeOK OneFinisher
PROPERTIES OnlyOwnerCompletes ImplementsAtomic
