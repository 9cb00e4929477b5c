SPECIFICATION FairSpec
CONSTANTS
    Keys = {k1}
    Orders = {o1, o2}
    Attempts = {a1, a2}
    Refunds = {}
    Handlers = {h1, h2}
    Amounts = {1}
    Asked = {0, 1}
    Methods = {"upi", "escrow"}
    Patches <- Settling
    Faults = {}
    MaxCalls = 2
  
PROPERTIES StatusesFollowTable 
CHECK_DEADLOCK FALSE
