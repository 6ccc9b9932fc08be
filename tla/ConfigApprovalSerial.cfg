SPECIFICATION Spec
CONSTANTS
    Configs = {c1, c2, c3}
    Proxies = {p1, p2}
    Users = {u1, u2}
    Workers = {w1}
    Heads = {h1}
    Bodies = {b1, b2}
    None = None
SYMMETRY Symmetry
INVARIANTS TypeOK OneActivePerProxy ApproverIsSubmitter HashMatchesContent
PROPERTIES ImplementsLifecycle
