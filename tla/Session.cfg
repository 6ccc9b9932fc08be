SPECIFICATION FairSpec
CONSTANTS
    Tabs = {a, b}
    Calls = {c1, c2}
    MaxTokens = 3
    Life = 1
    RefreshLife = 2
    MaxFailures = 2
INVARIANTS TypeOK LogoutHolds
PROPERTIES KeptLoggedIn LogoutRevokes EndsAtLast
