SPECIFICATION Spec
CONSTANTS
    Workers = {"w1", "w2"}
    Dead = "dead"
    NoOwner = "none"
    Subs = {"proof", "refutation", "reviewed"}
    CreatedAt <- MCCreatedAt
    ProblemOf <- MCProblemOf
    ModeOf <- MCModeOf
    TargetOf <- MCTargetOf
    ReviewRequired <- MCReviewRequired
    Served <- AllServed
    Resolves <- OneMisroutes
    MaxAttempts = 2
    ClaimLease = 1
    RunLease = 1
CHECK_DEADLOCK FALSE
INVARIANTS ClaimsAreSound VerdictRecordedOnce OneRewardPerTarget
PROPERTIES LiveLeaseIsNotStripped
