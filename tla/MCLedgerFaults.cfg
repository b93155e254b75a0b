CONSTANTS
    Resv = {r1}
    Handlers = {h1, h2}
    NoResv = NoResv
    Counts = {1, 2}
    MaxFaults = 2
SPECIFICATION FairSpec
INVARIANTS MarkedMeansCredited NoSilentLeak
PROPERTY EndedIsCredited
CHECK_DEADLOCK FALSE
