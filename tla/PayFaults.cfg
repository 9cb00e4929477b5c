SPECIFICATION Spec
CONSTANTS
    Keys = {k1}
    Orders = {o1}
    Attempts = {a1}
    Refunds = {r1}
    Handlers = {h1, h2}
    Amounts = {2}
    Asked = {0, 1, 2}
    Methods = {"upi"}
    Patches <- Confirming
    Faults = {"crash", "statement", "dedup", "gateway", "publish"}
    MaxCalls = 1
SYMMETRY Symmetry
INVARIANTS RefundBalances RefundBookedOnce
CHECK_DEADLOCK FALSE
