SPECIFICATION Spec
CONSTANTS
    Users = {alice, bob}
    Pool = pool
    External = external
    TxIds = {t1, t2}
    Keys = {k1}
    Handlers = {h1, h2}
    Amounts = {1}
    Opening = 1
    MonthlyLimit = 1
    Freezable = {alice, bob}
    MayExpire = TRUE
    MayLoseReply = TRUE
SYMMETRY Symmetry
INVARIANTS TypeOK NeverOverdrawn BothLegs ReplayIsFinal PendingOutExact
PROPERTIES FrozenMeansNoDebit
