CONSTANTS
    URL = {1, 2, 3, 4, 5}
    Home = 1
    Depth <- MCDepth
    Utility = {4}
    Product = {3}
    Untidy = {4}
    Plain = {5}
    Crawls <- MCCrawls
    Profiles = {"hybrid", "service_saas"}
    QUARANTINE_URL_CAP = 1
    MaxAttempts = 2
    None = None
    Connected <- MCConnected
    Imported <- MCImported
    Keyed = TRUE
    Words <- MCWords
    Marks <- MCMarks
    Brand = {"brand"}
    Traits <- MCTraits
    PathTokens <- MCPathTokens
    HeadTokens <- MCHeadTokens
    Parent <- MCParent
    Ancestors <- MCAncestors
    Standard <- MCStandard
    Markets <- MCMarkets
    Settings <- MCSettings
    ProposalReplies <- MCProposalReplies
    OutlineReplies <- MCOutlineReplies
    SummaryReplies <- MCSummaryReplies
    CONTENT_ASSET_CAP = 3
    PROPOSAL_CAP = 4
    LINK_TARGETS = 2
SPECIFICATION SpecContents
INVARIANT RetryCollects
INVARIANT QuarantineIsSilent
INVARIANT PlanIsStaged
 
INVARIANT LineageResolves
INVARIANT AdviceAgrees
INVARIANT LedgerTells
CHECK_DEADLOCK FALSE
