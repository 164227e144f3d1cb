CONSTANTS
    URL = {1, 2, 3, 4, 5}
    Home = 1
    Depth <- MCDepth
    Utility = {4}
    Product = {3}
    Untidy = {4}
    Plain = {5}
    Crawls <- MCCrawls
    Profiles = {"hybrid"}
    QUARANTINE_URL_CAP = 1
    MaxAttempts = 1
    None = None
    Connected <- MCConnected
    Imported <- MCImported
    Keyed = FALSE
SPECIFICATION SpecRows
INVARIANT IntegrityIsTold
CHECK_DEADLOCK FALSE
