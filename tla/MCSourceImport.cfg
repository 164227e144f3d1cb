SPECIFICATION Spec
CONSTANTS
    links = links
    crawl = crawl
    formulas = formulas
    big = big
    empty = empty
    Payload <- MCPayload
    Content <- MCContent
    Prefix <- MCPrefix
    Offers <- MCOffers
    MaxBytes = 1
    MaxRows = 3
    MaxColumns = 2
    Request = {r1, r2}
    None = none
    MaxUploads = 3
    MaxFaults = 2
INVARIANT AcceptedIsStored
PROPERTY KeepsLog
 
CHECK_DEADLOCK FALSE
