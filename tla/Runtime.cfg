CONSTANTS
    p1 = p1  p2 = p2  monitor = monitor  settle = settle
    Procs = {p1, p2}
    Traders = {monitor}
    Clerks = {settle}
SPECIFICATION FairSpec
INVARIANTS
    WorkStaysUnderLease
PROPERTIES
    LanesEndOrRecover
