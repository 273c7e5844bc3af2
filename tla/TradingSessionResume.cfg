SPECIFICATION Spec
CONSTANTS
    Operators = {o1, o2}
    Scanners = {s1}
    Lanes = {l1}
    Executions = {e1}
    Defects = {d1}
    MaxFlips = 2
    MaxDeaths = 1
PROPERTIES
    ResumeNeverActivates
CHECK_DEADLOCK FALSE
