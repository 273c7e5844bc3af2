SPECIFICATION MCSpec
CONSTANTS
    Prices <- MCPrices
    EntryPrices <- MCEntryPrices
    Sizes = {1, 2}
    MaxPositions = 1
    MaxFaults = 1
    Risk = 1
    BreakEvenAt = 1  ScaleOutAt = 1  SingleAt = 1  FinalAt = 2  Trail = 1
    StallDays = 1  StallMin = 1  MaxHold = 2
    Reentry = FALSE
PROPERTIES OnlyTheRatchetMovesTheStop
CHECK_DEADLOCK FALSE
