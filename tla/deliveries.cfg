SPECIFICATION DeliveriesSpec
CONSTANTS
    Scenarios = {"uploads", "notices", "papers", "advice"}
    Accounts = {"a", "b"}
    LogRequests = {"q1", "q2"}
    LogClaims = {1}
    ClaimOwner <- ClaimOwnerV
    PartAt <- PartAtV
    InlineParts = 1
    AccountParts = 2
    GlobalParts = 3
    MaxPending = 2
    MaxUploads = 1
    MaxStored = 1
    StoredBefore <- StoredBeforeV
    MaxDownloads = 1
    Notifiers = {"w1", "w2"}
    Payees = {1, 2}
    DefectAwards = {2}
    LockedBounty <- LockedBountyV
    Quotes = {1, 3}
    Signers = {"x"}
    MaxTroubles = 2
    PdfUploads = {"u1", "u2"}
    Documents = {"d1", "d2"}
    Reviewers = {"r1", "r2"}
    Visitors = {"v"}
    Sweepers = {"m"}
    UploadSlots = 2
    MaxPdfs = 1
    MaxTries = 2
    MaxRuled = 3
INVARIANTS
    TransfersAreExact
    DeliveriesAreTrue
PROPERTIES
    
    DeliveriesEnd
CHECK_DEADLOCK FALSE
