SPECIFICATION FairSpec
CONSTANTS
    Captures = {a, b}
    Window = 3
    None = None
INVARIANTS TypeOK DebugHasOwner CaptureSeesDebug
PROPERTIES DebugEnds
