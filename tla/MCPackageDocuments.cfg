CONSTANTS
    URL = {1, 2, 3, 4, 5}
    Home = 1
    Depth <- MCDepth
    Utility = {4}
    Product = {3}
    Untidy = {4}
    Plain = {5}
    Crawls <- MCDocumentCrawls
    Profiles = {"local", "ecommerce", "hybrid", "service_saas"}
    QUARANTINE_URL_CAP = 1
    MaxAttempts = 1
    None = None
    Connected <- MCConnected
    Imported <- MCImported
    Keyed = TRUE
    Words <- MCWords
    Marks <- MCMarks
    Brand = {"brand"}
    Traits <- MCTraits
    PathTokens <- MCPathTokens
    HeadTokens <- MCHeadTokens
    Parent <- MCParent
    Ancestors <- MCAncestors
    Standard <- MCStandard
    Markets <- MCDocumentMarkets
    Settings <- MCDocumentSettings
    ProposalReplies <- MCDocumentReplies
    OutlineReplies <- MCDocumentOutlines
    SummaryReplies <- MCDocumentSummaries
    CONTENT_ASSET_CAP = 3
    PROPOSAL_CAP = 4
    LINK_TARGETS = 2
    SIGNAL_AGGREGATE_THRESHOLD = 2
SPECIFICATION SpecTree
INVARIANT FindingsAreShown
 
INVARIANT DocumentsAgree
CHECK_DEADLOCK FALSE
