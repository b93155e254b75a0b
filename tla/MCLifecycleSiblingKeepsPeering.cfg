CONSTANTS
    Resv = {r1, r2}
    NoResv = NoResv
    Expiring = {}
    Deletable = {}
    MaxFaults = 0
SPECIFICATION Spec
INVARIANT SiblingKeepsPeering
CHECK_DEADLOCK FALSE
