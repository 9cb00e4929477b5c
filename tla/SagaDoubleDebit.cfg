SPECIFICATION Spec
CONSTANTS
    Users = {alice, bob}
    Pool = pool
    External = external
    TxIds = {t1, t2}
    Keys = {k1}
    Handlers = {h1, h2}
    Amounts = {1}
    Opening = 2
    MonthlyLimit = 1
    Freezable = {}
    MayExpire = FALSE
    MayLoseReply = FALSE
SYMMETRY Symmetry
INVARIANT DebitedOncePerKey
