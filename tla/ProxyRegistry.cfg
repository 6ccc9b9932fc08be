SPECIFICATION FairSpec
CONSTANTS
    Helpers = {a, b}
    Ids = {i1, i2, i3}
    None = None
    OfflineAfter = 1
    DeleteAfter = 2
INVARIANTS TypeOK LiveIsKept
PROPERTIES NewcomerRefused Recovers
