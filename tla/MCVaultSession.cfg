SPECIFICATION Spec
CONSTANTS
    Sids = {s1, s2}
    Passwords = {p1, p2}
    Conns = {c1}
    Threads = {t1, t2}
    None = None
SYMMETRY Symmetry
INVARIANTS TypeOK KeySeparation Serial
PROPERTIES OverIsOver GoneForGood
