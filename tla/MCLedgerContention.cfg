CONSTANTS
    Resv = {r1, r2}
    Handlers = {h1, h2}
    NoResv = NoResv
    Counts = {1, 2}
    MaxFaults = 0
SPECIFICATION Spec
INVARIANT FreeIsCovered
PROPERTY ImplementsGate
SYMMETRY Symmetry
CHECK_DEADLOCK FALSE
