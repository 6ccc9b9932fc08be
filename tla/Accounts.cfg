SPECIFICATION Spec
SYMMETRY Symmetry
CONSTANTS
    Users = {root, u}
    Root = root
    Workers = {w1, w2}
    Life = 1
    None = None
INVARIANTS TypeOK RoleCatchesUp OnlySeedIsRoot RootUnlessAsked LastGrantHolds
