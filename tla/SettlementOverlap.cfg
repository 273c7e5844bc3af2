SPECIFICATION MCSpec
CONSTANTS
    b1 = b1  b2 = b2  s1 = s1  s2 = s2  s3 = s3  o1 = o1  o2 = o2
    NoFill = NoFill
    Scenarios = {"overlapping", "alone"}
    Procs = {p1, p2}
    Fills = {b2, s2, s3}
    Orders = {o1, o2}
    Buys <- BuyFills
    Qty <- InParts
    OrderOf <- FillOrder
    Rank <- FillRank
    Oversells = {}
    Disputable = {o2}
    MaxAttempts = 2
    StaleLease = 1
    RetryDelay = 1
    MaxClock = 2
    MaxFaults = 1
    SlowBatches = TRUE
    Auditing = FALSE
SYMMETRY AnyCaller
INVARIANTS
    DamageIsContained
    LoneCallerIsExact
PROPERTIES
    HeldOrderIsFrozen
CHECK_DEADLOCK FALSE
