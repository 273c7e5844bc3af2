SPECIFICATION FairSpec
CONSTANTS
    Operators = {o1, o2}
    Scanners = {s1}
    Lanes = {l1}
    Executions = {e1}
    Defects = {d1}
    MaxFlips = 2
    MaxDeaths = 1
PROPERTIES
    SessionIsGuarded
    ResetIsProven
    SessionCatchesUp
CHECK_DEADLOCK FALSE
