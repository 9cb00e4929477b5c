SPECIFICATION FairSpec
CONSTANTS
    Users = {alice}
    TopUps = {t1, t2}
    Refs = {r1}
    Keys = {k1}
    Handlers = {h1, h2}
    Amounts = {1, 2}
    MonthlyLimit = 1
    Batch = 2
    Freezable = {alice}
    MayExpire = TRUE
INVARIANTS  CreditFollows
PROPERTIES StaleResolves
