SPECIFICATION Spec
CONSTANTS
    Configs = {c1, c2}
    Proxies = {p1}
    Users = {u1, u2}
    Workers = {w1, w2}
    Heads = {h1, h2}
    Bodies = {b1, b2}
    None = None
SYMMETRY Symmetry
INVARIANTS CloneOfActivatedIsExact
PROPERTIES ImplementsRacyLifecycle
