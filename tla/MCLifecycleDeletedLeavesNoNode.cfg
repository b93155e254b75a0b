CONSTANTS
    Resv = {r1}
    NoResv = NoResv
    Expiring = {}
    Deletable = {r1}
    MaxFaults = 0
SPECIFICATION FairSpec
PROPERTY DeletedLeavesNoNode
CHECK_DEADLOCK FALSE
