SPECIFICATION MCFairSpec
CONSTANTS
    b1 = b1  b2 = b2  s1 = s1  s2 = s2  s3 = s3  o1 = o1  o2 = o2
    NoFill = NoFill
    Scenarios = {"alone"}
    Procs = {p1}
    Fills = {b2}
    Orders = {o1, o2}
    Buys <- BuyFills
    Qty <- InParts
    OrderOf <- FillOrder
    Rank <- FillRank
    Oversells = {}
    Disputable = {o1}
    MaxAttempts = 2
    StaleLease = 1
    RetryDelay = 1
    MaxClock = 3
    MaxFaults = 2
    SlowBatches = FALSE
    Auditing = TRUE
PROPERTIES
    
    EveryFillDecided
CHECK_DEADLOCK FALSE
