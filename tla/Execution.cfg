CONSTANTS
    b1 = b1  b2 = b2  m1 = m1  X = X  Y = Y
    Buyers = {b1, b2}
    Exits = {m1}
    AssetOf <- MCAssetOf
    Cash = 1
    MaxIntents = 2
    Timely = TRUE
    AccountMayAge = FALSE
SPECIFICATION MCSpec
INVARIANTS
    OneLiveOrderPerAsset
    ClosedMeansNoOrder
    
PROPERTIES
    StopHoldsBack
    
    FillIsFound
