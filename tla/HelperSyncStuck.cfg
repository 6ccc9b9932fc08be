SPECIFICATION FairSpec
CONSTANTS
    Hashes = {h1, h2}
    None = None
PROPERTIES ConvergesAlways
