SPECIFICATION FairSpec
CONSTANTS
    ClientKeys = {k1}
    LastDay = 2
    Period = 2
    Kinds = {"monthly", "one_off"}
    Handlers = {h1, h2}
    Funding = {TRUE}
    Faults = {"crash", "debit", "attach", "setu", "mark", "record", "refund", "redeliver", "advance"}
    MaxFaults = 1
    MaxCalls = 2
INVARIANTS SubmittedOnce   InstalmentTakenOnce
PROPERTIES DebitResolves
CHECK_DEADLOCK FALSE
