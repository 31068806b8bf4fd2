SPECIFICATION FairSpec
CONSTANTS
    Workers = {"w1", "w2"}
    Dead = "dead"
    NoOwner = "none"
    Subs = {"proof", "refutation"}
    CreatedAt <- MCCreatedAt
    ProblemOf <- MCProblemOf
    ModeOf <- MCModeOf
    TargetOf <- MCTargetOf
    ReviewRequired <- MCReviewRequired
    Served <- AllServed
    Resolves <- AllServed
    MaxAttempts = 2
    ClaimLease = 1
    RunLease = 1
CHECK_DEADLOCK FALSE
PROPERTY ServedIsResolved
