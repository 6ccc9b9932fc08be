SPECIFICATION FairSpec
CONSTANTS
    Hashes = {h1, h2}
    None = None
INVARIANTS TypeOK InSyncIsTrue ReportedWasRun
PROPERTIES ReloadsWhole Converges AckedUnlessLost
