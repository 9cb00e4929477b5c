SPECIFICATION Spec
CONSTANTS
    Users = {alice}
    TopUps = {t1, t2}
    Refs = {r1, r2}
    Keys = {k1}
    Handlers = {h1, h2}
    Amounts = {1}
    MonthlyLimit = 1
    Batch = 1
    Freezable = {}
    MayExpire = TRUE
SYMMETRY Symmetry
INVARIANT CreditedOnce
