SPECIFICATION AsConfigured
CONSTANTS
    s1 = s1
    s2 = s2
    t1 = t1
    t2 = t2
    Subs = {s1}
    Transfers = {t1, t2}
    TargetOf <- OneTarget
    Pays <- AllPay
    Reserved <- OneReserved
    NoSub = NoSub
    NoRef = NoRef
    MaxHeight = 3
    MaxPerBlock = 1
    MaxNow = 3
    Batch = 1
    Tolerance = 0
    CancelWindow = 1
    MaxFailures = 0
INVARIANT BonusNeverConsumesReward
CHECK_DEADLOCK FALSE
