SPECIFICATION FairSpec
CONSTANTS
    Servers = {a, b}
    Last = 4
    NoOne = NoOne
INVARIANTS NoClash RecordedIsThere
PROPERTIES ImplementsSchemaGrowth ComesUp
