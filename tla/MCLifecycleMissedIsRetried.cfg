CONSTANTS
    Resv = {r1}
    NoResv = NoResv
    Expiring = {r1}
    Deletable = {}
    MaxFaults = 1
SPECIFICATION TimelySpec
PROPERTY MissedIsRetried
CHECK_DEADLOCK FALSE
