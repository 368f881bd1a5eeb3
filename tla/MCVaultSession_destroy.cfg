SPECIFICATION Spec
CONSTANTS
    Sids = {s1}
    Passwords = {p1}
    Conns = {c1}
    Threads = {t1, t2}
    None = None
SYMMETRY Symmetry
INVARIANTS DestroyIsFinal
