SPECIFICATION Spec
CONSTANTS
  Ids <- MCIds
  Qty <- MCQty
  Own = {2}
  Backdated = {1}
  Alike <- MCAlike
  Lookback = 1
  Overlap = 1
  Crypto = TRUE
  Passes = {r1, r2}
  MaxNow = 2
  MaxFaults = 1
INVARIANTS
    PassedIsAccounted
    OpenRowLatches
PROPERTIES
    CursorAdvances
CHECK_DEADLOCK FALSE
