SPECIFICATION MCSpec
CONSTANTS
    a = a
    b = b
    Names = {a, b}
    Conns = {c1}
    Threads = {t1, t2}
    Outside <- MCOutside
    MaxDepth = 2
    MaxLength = 3
    MaxCalls = 3
SYMMETRY Symmetry
INVARIANTS TypeOK Serial DeeperOnlyByRename
PROPERTIES OnlyTheSubtree
