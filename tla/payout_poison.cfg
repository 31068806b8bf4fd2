SPECIFICATION FairAsConfigured
CONSTANTS
    s1 = s1
    s2 = s2
    t1 = t1
    t2 = t2
    Subs = {s1}
    Transfers = {t1, t2}
    TargetOf <- OneTarget
    Pays <- OnlyFirst
    Reserved <- NoneReserved
    NoSub = NoSub
    NoRef = NoRef
    MaxHeight = 2
    MaxPerBlock = 2
    MaxNow = 3
    Batch = 1
    Tolerance = 1
    CancelWindow = 1
    MaxFailures = 0
PROPERTY FinalizedIsRecorded
CHECK_DEADLOCK FALSE
