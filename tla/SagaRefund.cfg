SPECIFICATION FairSpec
CONSTANTS
    Users = {alice}
    Pool = pool
    External = external
    TxIds = {t1, t2}
    Keys = {k1}
    Handlers = {h1, h2}
    Amounts = {1, 2}
    Opening = 2
    MonthlyLimit = 2
    Freezable = {}
    MayExpire = FALSE
    MayLoseReply = TRUE
INVARIANT MirrorExplained
PROPERTIES PendingResolves EscrowSpec
