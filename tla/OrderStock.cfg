SPECIFICATION Spec
CONSTANTS
    Keys = {k1, k2}
    Events = {e1, e2}
    Handlers = {h1, h2}
    Quantities = {2}
    Opening = 3
    MaxRetries = 1
    MaxFaults = 2
INVARIANTS  PromisesKept LostByFault PaidIsConfirmed HoldHasEnd
CHECK_DEADLOCK FALSE
SYMMETRY Symmetry
