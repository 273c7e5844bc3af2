SPECIFICATION MCSpec
CONSTANTS
    b1 = b1  b2 = b2  s1 = s1  s2 = s2  s3 = s3  o1 = o1  o2 = o2
    NoFill = NoFill
    Scenarios = {"across lots", "interrupted"}
    Procs = {p1, p2}
    Fills = {b1, b2, s1}
    Orders = {o1, o2}
    Buys <- BuyFills
    Qty <- AcrossLots
    OrderOf <- FillOrder
    Rank <- FillRank
    Oversells = {s1}
    Disputable = {}
    MaxAttempts = 2
    StaleLease = 1
    RetryDelay = 1
    MaxClock = 2
    MaxFaults = 1
    SlowBatches = FALSE
    Auditing = FALSE
INVARIANTS
    BooksBalance
    ExclusiveClaim
PROPERTIES
    VerdictIsFinal
    ImplementsLedger
CHECK_DEADLOCK FALSE
