SPECIFICATION Spec
CONSTANTS
    Scenarios = {"funding", "orders", "credits", "signin"}
    Transfers = {"t1", "t2", "t3"}
    BlockOf <- FundingBlock
    AmountOf <- FundingAmount
    SenderOf <- FundingSender
    Senders = {"k1"}
    Treasury = "treasury"
    Price = 2
    CreditPrice = 2
    Packages = {1}
    Requests = {"r1", "r2"}
    Cites <- FundingCites
    SignerOf <- FundingSigner
    KeyOf <- FundingKey
    Watchers = {"w1"}
    Claims = {"c1"}
    ClaimRef <- FundingRef
    ClaimBy <- FundingBy
    Nobody = Nobody
    NoRef = NoRef
    MaxBlock = 2
    Batch = 2
    MaxDeclared = 1
    MaxFailures = 1
    Orders = {"o1"}
    Kinds = {"good", "short", "dear", "foreign"}
    MaxAttempts = 2
    MaxOpenOrders = 1
    PackageOrders = {"o1"}
    CreditLate = FALSE
    MaxEvents = 1
    MaxMoves = 2
    Readers = {"p1"}
    MaxRedelivered = 1
    Intents = {"i1", "i2"}
    Uploads = {"u1", "u2"}
    UploadTo <- UploadToV
    UploadProof <- UploadProofV
    Confirms = {"c1", "c2"}
    ConfirmOf <- ConfirmOfV
    SignedProof <- SignedProofV
    WebCalls = {"w1", "w2"}
    WebProof <- WebProofV
    WebKey <- WebKeyV
    NoOne = NoOne
    Minutes = 1
    MaxTime = 1
    MaxCredits = 1
    Emails = {"e1", "e2"}
    Keys = {"k1"}
    Subjects = {"g1"}
    Passwords = {"p0", "p1"}
    Tokens = {"c1", "c2"}
    SignInRequests = {"link1", "link2", "signup", "reset", "loginOld", "loginNew", "wallet1", "google1"}
    Ask <- AskV
    Old = "old"
    OldEmail = "e1"
    OldPassword = "p0"
    Attempts = 1
    LinksPerHour = 1
    MaxSignIns = 2
    Nil = Nil
INVARIANTS
    FundingIsKept
    OrdersAreSettledOnce
    SpendsAreDue
    SignInsAreSingle
PROPERTIES
    FundingPaysOnce
    RequestsEnd
CHECK_DEADLOCK FALSE
