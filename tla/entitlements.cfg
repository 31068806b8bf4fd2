SPECIFICATION EntitlementsSpec
CONSTANTS
    Scenarios = {"invitations", "bounties", "prices", "cli", "browsers", "limits", "guesses"}
    Links = {"l1"}
    MaxRedemptions <- MaxRedemptionsV
    Guests = {"g1", "g2", "g3", "g4"}
    Verified = {"g1", "g2", "g3"}
    Limited = {"l1"}
    Redeems = {1, 2, 3, 4, 5}
    RedeemLink <- RedeemLinkV
    RedeemFor <- RedeemForV
    NoRedeem = NoRedeem
    RewardTargets = {"u", "v"}
    Proofs = {"s1", "s2"}
    ForTarget <- ForTargetV
    StartShare <- StartShareV
    MaxShare <- MaxShareV
    StartBalance = 3
    BonusAmount = 1
    RampTicks = 2
    CacheTicks = 2
    MinuteTicks = 2
    FinalityLag = 0
    MaxTicks = 4
    MaxTopUps = 1
    Callers = {"c1", "c2"}
    RatesTtl = 1
    CandlePeriod = 2
    MaxCandleAge = 2
    MaxStale = 1
    StatsTtl = 2
    MaxMinutes = 3
    MaxFetchFailures = 3
    Holders = {"h1", "h2"}
    Coldkeys = {"k1"}
    Mints = {"m1", "m2"}
    MintKey <- MintKeyV
    LinkRequests = {"q1", "q2"}
    LinkFor <- LinkForV
    LinkKey <- LinkKeyV
    ChallengeAttempts = 1
    Ceiling = 1
    Lifetime = 2
    MaxLifetime = 3
    LastDay = 3
    NoHolder = NoHolder
    NoKey = NoKey
    Tabs = {"r1", "r2"}
    MaxTokens = 2
    SessionLifetime = 3
    RefreshAfter = 1
    MaxDay = 3
    Clients = {"a", "b"}
    Mailboxes = {"m"}
    Guesses = {"g1", "g2"}
    HitLimit = 1
    WindowTicks = 2
    MaxKeys = 1
    MaxSeconds = 5
    MaxHits = 5
INVARIANTS
    LimitsHold
    SessionsAreTheHoldersOwn

    
CHECK_DEADLOCK FALSE
