CONSTANTS
    Resv = {r1, r2}
    NoResv = NoResv
    Expiring = {}
    Deletable = {}
    MaxFaults = 1
SPECIFICATION FairSpec
PROPERTY WaiterServed
CHECK_DEADLOCK FALSE
