SPECIFICATION Spec
CONSTANTS
    Helpers = {a, b}
    Ids = {i1, i2, i3, i4}
    None = None
    OfflineAfter = 1
    DeleteAfter = 2
PROPERTIES OnlineRowKeepsHost
