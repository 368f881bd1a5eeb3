SPECIFICATION Spec
CONSTANTS
    u1 = u1
    o1 = o1
    o2 = o2
    c1 = c1
    c2 = c2
    Users = {u1}
    Orgs = {o1, o2}
    Conns = {c1, c2}
    Threads = {t1, t2}
    Helm <- MCHelm
    Files <- MCFiles
    Vault = Vault
    None = None
    MaxCalls = 4
SYMMETRY Symmetry
INVARIANTS TypeOK NotLost NoCopy MembersAsGranted ExportsAreSnapshots
