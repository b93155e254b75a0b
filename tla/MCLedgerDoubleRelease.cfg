CONSTANTS
    Resv = {r1}
    Handlers = {h1, h2}
    NoResv = NoResv
    Counts = {1, 2}
    MaxFaults = 0
SPECIFICATION Spec
INVARIANT NoDoubleRelease
CHECK_DEADLOCK FALSE
