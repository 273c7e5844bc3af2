SPECIFICATION FairSpec
CONSTANTS
  Ids <- MCIds
  Qty <- MCQty
  Own = {2}
  Backdated = {1}
  Alike <- MCAlike
  Lookback = 0
  Overlap = 0
  Crypto = TRUE
  Passes = {r1}
  MaxNow = 2
  MaxFaults = 1
PROPERTIES
    AccountIsWatched
CHECK_DEADLOCK FALSE
