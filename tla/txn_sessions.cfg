SPECIFICATION FairSpec
CONSTANTS
    Txns = {t1, t2}
    Nobody = Nobody
    ChatLogsPolicy = TRUE
    MaxDecisions = 3
    MaxVersion = 2
INVARIANTS
    OwedOnlyIfApproved
PROPERTIES
    InsertedIsAuthorized
    TransactionsEnd
CHECK_DEADLOCK FALSE
