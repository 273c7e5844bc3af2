SPECIFICATION MCSpec
CONSTANTS
    Topics = {"lots", "sell", "exposure", "entry", "broker", "scanner", "verification", "quarantine", "epochs", "adoption", "dividends", "calendar", "membership", "order"}
    Variants = {}
    Empty = Empty
    SellOwn = {"own"}
    SellExternal = {"external"}
    SellQuantity <- MCQuantity
    SellHolding = 4
    SellBuys = 0
    ViewUnits = {1, 2, 3}
    ViewIntents = {"two", "one"}
    UnitOf <- MCUnitOf
    Oversells = {"s0", "s1", "s2"}
    Legacy = {"s0"}
    Executions = {"b1", "b2", "x"}
    Commands = {1, 2}
    Oversold <- MCOversold
    Size <- MCSize
    Covers = {"b1", "b2"}
    HappenedAt <- MCAt
    Passes = {"p1", "p2"}
    OwnBuys = {"b1"}
    Opening = 0
    MaxPosition = 3
    MaxTrades = 2
    MaxEpisodes = 2
    InFlight = TRUE
    CalendarEnd = 4
    LibraryHours <- MCLibrary
    BrokerHours <- MCBrokers
    Weekends = {}
    CheckSpan = 3
    FreshFor = 1
    DeadlineAfter = 2
    CalendarLanes = {"reconcile", "gateway"}
    CalendarPasses = 2
    CalendarChanges = 1
    CalendarCrashes = 0
    OrderFills = {1, 2}
    OrderPolls = {"poll"}
    OrderRechecks = {"recheck"}
    Verifiers = {"p", "q"}
    Unlocked = {}
    EvidenceRows = 1
    AccountFills = 1
    SourceEdits = 2
    ProcessDeaths = 1
    Activities <- MCActivities
    OwnActivities = {1}
    RowsPerPage = 1
    LastHour = 3
    Traded = {"stock", "coin"}
    Crypto = {"coin"}
    WholeOnly = {"stock"}
    Multiplier <- MCMultiplier
    Unit = 2
    Increment = 2
    MinOrder = 4
    PricesOf <- MCPricesOf
    Asked = {9}
    StopBelow = {2}
    Confidences = {5, 8}
    Regimes = {10}
    Spreads = {1}
    Fee = 1
    Profiles <- MCProfiles
    MinLot = 2100
    CryptoFrom = 8000
    WholeFrom = 6000
    TradesFrom = 3000
    OpeningCash = 10000
    OutsideLots <- MCOutsideLots
    MaxOrders = 2
    MaxSessions = 1
INVARIANTS
    PlansAreExact
    
    ExposureIsCounted
    BuysFitTheirLimits
    SimulationIsFaithful
    ScanIsOrderly
    OneOrigin
    
    CalendarSound
PROPERTIES
    GenerationIsWhole
    QuarantineIsExact
    EpochsAreExact
    
CHECK_DEADLOCK FALSE
